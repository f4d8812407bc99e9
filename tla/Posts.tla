-------------------------------- MODULE Posts --------------------------------
(***************************************************************************)
(* The table of posts, what their authors do to it, and the lists that     *)
(* clients page through: the home feed, a profile grid, an author's        *)
(* archive and bin, a user's saved posts, a hashtag's grid, the reels and  *)
(* what there is to explore.                                               *)
(*                                                                         *)
(* A client reads a list page by page, each page a SELECT of its own that  *)
(* starts below the last post of the page before; the writer goes on       *)
(* between two pages.                                                      *)
(***************************************************************************)
EXTENDS SocialGraph, Sequences, SequencesExt, FiniteSets

CONSTANTS
  PageLimit, (* Page.limit: posts of a page                                 *)
  Window     (* the 30 days for which my_deleted shows a post               *)

ASSUME PostsAssumption == PageLimit \in Nat \ {0} /\ Window \in Nat /\ Users # {}

VARIABLES
  now,    (* the clock of the process, in seconds, never 0                  *)
  posts,  (* [ids |-> rows]: a partial function, ids grow as they are drawn *)
  saved,  (* saved_posts: {<<user, post, created_at>>}                      *)
  walk    (* a client's walk through a list                                 *)

Row == [author : Users, created : Nat, deleted : Nat, (* 0 for NULL *)
        archived : BOOLEAN, tagged : BOOLEAN, reel : BOOLEAN]

ListNames ==
  {"home", "grid", "archive", "deleted", "hashtag", "reels", "explore", "saved"}

(* A request without a cursor starts at a sentinel that sorts after every  *)
(* post (Page.keyset), and an answer without one is the last.              *)
NoCursor == << >>
Cursors == {NoCursor} \cup (Nat \X Nat)

Walk == [list : ListNames \cup {"none"}, me : Users, of : Users,
         pc : {"check", "read", "done", "locked"}, cursor : Cursors,
         seen : Seq(Nat \X Nat), must : SUBSET (Nat \X Nat)]

NoWalk == [list |-> "none", me |-> CHOOSE u \in Users : TRUE,
           of |-> CHOOSE u \in Users : TRUE, pc |-> "done",
           cursor |-> NoCursor, seen |-> << >>, must |-> {}]

PostsTypeOK ==
  /\ now \in Nat \ {0}
  /\ DOMAIN posts \subseteq Nat /\ \A p \in DOMAIN posts : posts[p] \in Row
  /\ saved \subseteq Users \X (DOMAIN posts) \X Nat
  /\ walk \in Walk

StartTime == 1

PostsInit == now = StartTime /\ walk = NoWalk

-----------------------------------------------------------------------------
(* What authors do. The request of another user finds no row.              *)

Mine(p, u) == Idle /\ p \in DOMAIN posts /\ posts[p].author = u
InBin(p) == posts[p].deleted # 0
postsOnly == <<graphVars, running, now, saved, walk>>

SoftDelete(p, u) ==
  /\ Mine(p, u) /\ ~InBin(p)
  /\ posts' = [posts EXCEPT ![p].deleted = now]
  /\ UNCHANGED postsOnly

(* Rows of saved_posts (and, not modelled here, of likes, comments and     *)
(* reports) refer to the post without a CASCADE: the DELETE is refused.    *)
HardDelete(p, u) ==
  /\ Mine(p, u) /\ ~\E s \in saved : s[2] = p
  /\ posts' = [q \in DOMAIN posts \ {p} |-> posts[q]]
  /\ UNCHANGED postsOnly

Archive(p, u) ==
  /\ Mine(p, u) /\ ~InBin(p)
  /\ posts' = [posts EXCEPT ![p].archived = TRUE]
  /\ UNCHANGED postsOnly

Unarchive(p, u) ==
  /\ Mine(p, u)
  /\ posts' = [posts EXCEPT ![p].archived = FALSE]
  /\ UNCHANGED postsOnly

Restore(p, u) ==
  /\ Mine(p, u) /\ InBin(p)
  /\ posts' = [posts EXCEPT ![p].deleted = 0]
  /\ UNCHANGED postsOnly

Saves(p, u) == {s \in saved : s[1] = u /\ s[2] = p}

(* INSERT OR IGNORE: saving again keeps the time of the first save.        *)
Save(p, u) ==
  /\ Idle /\ p \in DOMAIN posts /\ ~InBin(p)
  /\ saved' = IF Saves(p, u) = {} THEN saved \cup {<<u, p, now>>} ELSE saved
  /\ UNCHANGED <<graphVars, running, now, posts, walk>>

Unsave(p, u) ==
  /\ Idle
  /\ saved' = saved \ Saves(p, u)
  /\ UNCHANGED <<graphVars, running, now, posts, walk>>

AuthorEdits(p, u) ==
  SoftDelete(p, u) \/ HardDelete(p, u) \/ Archive(p, u) \/ Unarchive(p, u) \/ Restore(p, u)

-----------------------------------------------------------------------------
(* The lists.                                                              *)

FollowsOrIs(me, u) == me = u \/ <<me, u>> \in follows

(* The WHERE of each list, but for the cursor. An archived post stays in   *)
(* its author's grid and in the feeds.                                     *)
HomeFeed(p, me) == ~InBin(p) /\ FollowsOrIs(me, posts[p].author)
UserPosts(p, of) == ~InBin(p) /\ posts[p].author = of
MyArchive(p, me) == ~InBin(p) /\ posts[p].author = me /\ posts[p].archived
MyDeleted(p, me) ==
  InBin(p) /\ posts[p].author = me /\ posts[p].deleted + Window > now
HashtagGrid(p) == ~InBin(p) /\ posts[p].tagged /\ ~posts[p].archived
Reels(p) == ~InBin(p) /\ posts[p].reel /\ posts[p].author \notin private
Explore(p) == ~InBin(p) /\ posts[p].author \notin private
SavedList(p, me) == ~InBin(p) /\ Saves(p, me) # {}

Listed(w) == {p \in DOMAIN posts :
  CASE w.list = "home"    -> HomeFeed(p, w.me)
    [] w.list = "grid"    -> UserPosts(p, w.of)
    [] w.list = "archive" -> MyArchive(p, w.me)
    [] w.list = "deleted" -> MyDeleted(p, w.me)
    [] w.list = "hashtag" -> HashtagGrid(p)
    [] w.list = "reels"   -> Reels(p)
    [] w.list = "explore" -> Explore(p)
    [] w.list = "saved"   -> SavedList(p, w.me)}

SavedAt(p, u) == (CHOOSE s \in Saves(p, u) : TRUE)[3]

(* What ORDER BY and the cursor's comparison look at: my_deleted looks at  *)
(* deleted_at, saved_list at the time of the save, the others at           *)
(* created_at, and all at the id.                                          *)
Key(w, p) ==
  <<CASE w.list = "deleted" -> posts[p].deleted
      [] w.list = "saved"   -> SavedAt(p, w.me)
      [] OTHER              -> posts[p].created, p>>

Below(k, c) == c = NoCursor \/ k[1] < c[1] \/ (k[1] = c[1] /\ k[2] < c[2])

ListedKeys(w) == {Key(w, p) : p \in Listed(w)}

(* What the SELECT finds, and the part of it that is sorted before k.      *)
Remaining(w) == {k \in ListedKeys(w) : Below(k, w.cursor)}
Before(S, k) == {l \in S : Below(k, l)}

(* A page: at most PageLimit posts below the cursor, in descending order.  *)
PageOf(w) ==
  LET S == Remaining(w)
      n == IF Cardinality(S) < PageLimit THEN Cardinality(S) ELSE PageLimit
  IN  [i \in 1..n |-> CHOOSE k \in S : Cardinality(Before(S, k)) = i - 1]

(* The cursor that names post p: saved_list makes it from the save, the    *)
(* others, my_deleted too, from created_at.                                *)
CursorOf(w, p) ==
  <<IF w.list = "saved" THEN SavedAt(p, w.me) ELSE posts[p].created, p>>

(* A plausible slip: the cursor names the second of the last post alone,   *)
(* as created_at < ? would read it.                                        *)
NextCursorBySecond(w, page) ==
  IF Len(page) < PageLimit THEN NoCursor ELSE <<CursorOf(w, Last(page)[2])[1], 0>>

(* next_cursor_from: none after a short page.                              *)
NextCursor(w, page) ==
  IF Len(page) < PageLimit THEN NoCursor ELSE CursorOf(w, Last(page)[2])

(* Only a grid is somebody else's.                                         *)
AskList(list, me, of) ==
  /\ walk = NoWalk /\ (list # "grid" => of = me)
  /\ walk' = [NoWalk EXCEPT !.list = list, !.me = me, !.of = of,
                            !.pc = IF list = "grid" THEN "check" ELSE "read"]
  /\ UNCHANGED <<posts, saved, now, graphVars, running>>

(* The grid of a private account is locked to who does not follow it: a    *)
(* statement before each page.                                             *)
CheckGrid ==
  /\ walk.pc = "check"
  /\ walk' = [walk EXCEPT !.pc =
       IF walk.of \in private /\ ~FollowsOrIs(walk.me, walk.of) THEN "locked" ELSE "read"]
  /\ UNCHANGED <<posts, saved, now, graphVars, running>>

(* One page, and the posts that have been in the list at every page.       *)
ReadPage ==
  /\ walk.pc = "read"
  /\ LET page == PageOf(walk)
         next == NextCursor(walk, page)
     IN walk' = [walk EXCEPT
          !.must = IF walk.cursor = NoCursor THEN ListedKeys(walk)
                     ELSE @ \cap ListedKeys(walk),
          !.seen = @ \o [i \in DOMAIN page |-> <<posts[page[i][2]].created, page[i][2]>>],
          !.cursor = next,
          !.pc = IF next = NoCursor THEN "done"
                 ELSE IF walk.list = "grid" THEN "check" ELSE "read"]
  /\ UNCHANGED <<posts, saved, now, graphVars, running>>

WalkStep == CheckGrid \/ ReadPage

-----------------------------------------------------------------------------
(* Properties.                                                             *)

(* Who pages to the end of a list sees no post twice, and every post that  *)
(* was in the list whenever a page was read, whatever is published,        *)
(* deleted, archived or restored meanwhile. The bin is the exception: it   *)
(* is sorted by deleted_at and its cursor made from created_at, so posts   *)
(* deleted after one of the listed posts was created may be skipped.       *)
PagesComplete ==
  /\ \A i, j \in DOMAIN walk.seen : i # j => walk.seen[i][2] # walk.seen[j][2]
  /\ walk.pc = "done" => \A k \in walk.must :
       \/ \E i \in DOMAIN walk.seen : walk.seen[i][2] = k[2]
       \/ /\ walk.list = "deleted"
          /\ \E i \in DOMAIN walk.seen : walk.seen[i][1] <= k[1]
=============================================================================
