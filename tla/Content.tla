------------------------------- MODULE Content -------------------------------
(***************************************************************************)
(* What users publish, and the parts of the server that it runs through:   *)
(* create_post and create_story post jobs to the writer and to the queue   *)
(* of pins, the pin worker and the story sweeper work in the background,   *)
(* and authors, followers and readers of lists go on meanwhile.            *)
(***************************************************************************)
EXTENDS Posts, Pinning

CONSTANTS
  Thumbless,  (* stands for an upload without a thumb                       *)
  Uploads,    (* what is published: [media, thumb, tagged, reel]            *)
  StoryTtl,   (* STORY_TTL_SECS                                             *)
  Media,      (* cids announced by POST /media/announce                     *)
  ReportCid,  (* the cid under which report_user leaves a pin job           *)
  Published,  (* posts that are there already, of which lists are read:     *)
              (* [by, what, created, saved], without thumbs and tags; saved *)
              (* by their authors at once, or not                           *)
  Mixes,      (* bound: the kinds of request that one behaviour mixes       *)
  Authors,    (* bound: who publishes                                       *)
  MaxTasks,   (* bound: posts and stories created in a behaviour            *)
  MaxCalls,   (* bound: requests on the graph and on posts that exist       *)
  MaxTime,    (* bound: seconds                                             *)
  MaxWalk,    (* bound: seconds, when lists are read                        *)
  MaxCrashes  (* bound: restarts                                            *)

ASSUME ContentAssumption ==
  /\ Thumbless \notin Cids
  /\ Uploads \subseteq [media : Cids, thumb : Cids \cup {Thumbless},
                        tagged : BOOLEAN, reel : BOOLEAN]
  /\ Published \in Seq([by : Users, what : Uploads, created : Nat, saved : BOOLEAN])
  /\ \A p \in DOMAIN Published :
       /\ Published[p].created <= StartTime /\ ~Published[p].what.tagged
       /\ Published[p].what.thumb = Thumbless
  /\ StoryTtl \in Nat \ {0} /\ Media \subseteq Cids /\ ReportCid \in Cids
  /\ Mixes \subseteq SUBSET {"graph", "post", "story", "edit", "save", "page", "announce",
                        "pin", "hangup", "crash"}
  /\ Authors \subseteq Users /\ MaxTasks \in Nat /\ MaxCalls \in Nat /\ MaxTime \in Nat
  /\ MaxWalk \in Nat /\ MaxCrashes \in Nat

VARIABLES
  tasks,    (* create_post and create_story, by the id of what they create  *)
  stories,  (* ids of the rows of stories; what they hold is in tasks       *)
  mix,      (* bound: the requests of this behaviour                        *)
  calls, crashes

publishVars == <<tasks, stories>>
boundVars == <<mix, calls, crashes>>
contentVars == <<graphVars, running, now, posts, saved, walk, pinVars, publishVars, boundVars>>

Task == [kind : {"post", "story"}, by : Users, what : Uploads, expires : Nat,
         pc : {"called", "job", "media", "thumb", "done", "cut", "lost"}]

Finished(t) == tasks[t].pc \in {"done", "cut", "lost"}

(* What is there when the behaviour begins.                                *)
Old == IF "page" \in mix THEN Published ELSE << >>

NewRow(u, what) ==
  [author |-> u, created |-> now, deleted |-> 0,
   archived |-> FALSE, tagged |-> FALSE, reel |-> what.reel]

(* Behaviours with readers start with posts that are published and pinned. *)
ContentInit ==
  /\ mix \in Mixes /\ calls = 0 /\ crashes = 0
  /\ GraphInit /\ running = << >> /\ PostsInit
  /\ stories = {}
  /\ tasks = [p \in DOMAIN Old |-> [kind |-> "post", by |-> Old[p].by,
                what |-> Old[p].what, expires |-> 0, pc |-> "done"]]
  /\ posts = [p \in DOMAIN Old |->
                [NewRow(Old[p].by, Old[p].what) EXCEPT !.created = Old[p].created]]
  /\ saved = {<<Old[p].by, p, Old[p].created>> : p \in {q \in DOMAIN Old : Old[q].saved}}
  /\ PinnedInit({Old[p].what.media : p \in DOMAIN Old})

-----------------------------------------------------------------------------
(* create_post and create_story.                                           *)

Goto(t, pc) == tasks' = [tasks EXCEPT ![t].pc = pc]

Called(kind, u, what, expires) ==
  /\ kind \in mix /\ u \in Authors /\ Len(tasks) - Len(Old) < MaxTasks
  /\ tasks' = Append(tasks, [kind |-> kind, by |-> u, what |-> what,
                             expires |-> expires, pc |-> "called"])
  /\ UNCHANGED <<graphVars, running, now, posts, saved, walk, pinVars, stories, boundVars>>

CallPost(u, what) == Called("post", u, what, 0)

(* The expiry is that of the call, not of its job.                         *)
CallStory(u, what, ttl) == now + ttl < MaxTime /\ Called("story", u, what, now + ttl)

(* The first statement of create_post's job; its tags are to follow.       *)
PostJob(t) ==
  /\ Idle /\ tasks[t].kind = "post" /\ tasks[t].pc = "called"
  /\ posts' = [p \in DOMAIN posts \cup {t} |->
                 IF p = t THEN NewRow(tasks[t].by, tasks[t].what) ELSE posts[p]]
  /\ running' = IF tasks[t].what.tagged THEN <<"tags", t>> ELSE << >>
  /\ Goto(t, IF tasks[t].what.tagged THEN "job" ELSE "media")
  /\ UNCHANGED <<graphVars, now, saved, walk, pinVars, stories, boundVars>>

(* A plausible slip: the request is not answered when its job ends.        *)
TagUnanswered ==
  /\ ~Idle /\ running[1] = "tags"
  /\ posts' = [posts EXCEPT ![running[2]].tagged = TRUE]
  /\ running' = << >>
  /\ UNCHANGED <<graphVars, now, saved, walk, pinVars, tasks, stories, boundVars>>

(* The job goes on though its request may have been dropped meanwhile.     *)
TagStatement ==
  /\ ~Idle /\ running[1] = "tags"
  /\ LET t == running[2] IN
       /\ posts' = [posts EXCEPT ![t].tagged = TRUE]
       /\ Goto(t, IF tasks[t].pc = "job" THEN "media" ELSE tasks[t].pc)
  /\ running' = << >>
  /\ UNCHANGED <<graphVars, now, saved, walk, pinVars, stories, boundVars>>

StoryJob(t) ==
  /\ Idle /\ tasks[t].kind = "story" /\ tasks[t].pc = "called"
  /\ stories' = stories \cup {t}
  /\ Goto(t, "media")
  /\ UNCHANGED <<graphVars, running, now, posts, saved, walk, pinVars, boundVars>>

(* A plausible slip: the thumb is forgotten.                               *)
AfterMediaDone(t) == "done"

(* A post's thumb is pinned too, a story's is not.                         *)
AfterMedia(t) ==
  IF tasks[t].kind = "post" /\ tasks[t].what.thumb # Thumbless THEN "thumb" ELSE "done"

(* The enqueues, each a job of its own.                                    *)
Pin(t) ==
  /\ Idle /\ tasks[t].pc \in {"media", "thumb"}
  /\ Enqueue(IF tasks[t].pc = "media" THEN tasks[t].what.media ELSE tasks[t].what.thumb)
  /\ Goto(t, IF tasks[t].pc = "media" THEN AfterMedia(t) ELSE "done")
  /\ UNCHANGED <<graphVars, running, now, posts, saved, walk, stories, boundVars>>

(* The client hangs up and its handler is dropped.                         *)
HangUp(t) ==
  /\ "hangup" \in mix /\ ~Finished(t)
  /\ Goto(t, "cut")
  /\ UNCHANGED <<graphVars, running, now, posts, saved, walk, pinVars, stories, boundVars>>

RunTask(t) == PostJob(t) \/ StoryJob(t) \/ Pin(t) \/ HangUp(t)

-----------------------------------------------------------------------------
(* Everything else that is asked of the server.                            *)

Counted(kind) ==
  /\ kind \in mix /\ calls < MaxCalls
  /\ calls' = calls + 1
  /\ UNCHANGED <<pinVars, publishVars, mix, crashes>>

GraphRequest(a, b) ==
  /\ Counted("graph")
  /\ Follow(a, b) \/ Unfollow(a, b) \/ Block(a, b) \/ Unblock(a, b)
  /\ UNCHANGED <<now, posts, saved, walk>>

PrivacyRequest(u, v) ==
  /\ Counted("graph")
  /\ PatchMe(u, v) \/ PatchPrivacy(u, v)
  /\ UNCHANGED <<now, posts, saved, walk>>

EditRequest(p, u) == Counted("edit") /\ AuthorEdits(p, u)

SaveRequest(p, u) == Counted("save") /\ (Save(p, u) \/ Unsave(p, u))

(* POST /media/announce.                                                   *)
MediaAnnounce(c) ==
  /\ "announce" \in mix /\ Idle /\ c \in Media
  /\ Enqueue(c)
  /\ UNCHANGED <<graphVars, running, now, posts, saved, walk, publishVars, boundVars>>

(* Its job leaves a pin job too, under a constant cid: when there is one   *)
(* already the INSERT fails without a word.                                *)
ReportUser ==
  /\ "announce" \in mix /\ Idle
  /\ Enqueue(ReportCid)
  /\ UNCHANGED <<graphVars, running, now, posts, saved, walk, publishVars, boundVars>>

Reading(list, me, of) ==
  /\ "page" \in mix
  /\ AskList(list, me, of)
  /\ UNCHANGED <<pinVars, publishVars, boundVars>>

PageStep == WalkStep /\ UNCHANGED <<pinVars, publishVars, boundVars>>

-----------------------------------------------------------------------------
(* The background.                                                         *)

GraphJob == GraphStatement /\ UNCHANGED <<now, posts, saved, walk, pinVars, publishVars, boundVars>>

(* A pinning service is configured, or pins are only recorded.             *)
Worker ==
  /\ "pin" \in mix
  /\ Poll \/ PinByCid \/ (Idle /\ WriteBack)
  /\ UNCHANGED <<graphVars, running, now, posts, saved, walk, publishVars, boundVars>>

Expired(t) == tasks[t].expires < now

(* The sweeper's DELETE.                                                   *)
Sweep ==
  /\ Idle /\ \E t \in stories : Expired(t)
  /\ stories' = {t \in stories : ~Expired(t)}
  /\ UNCHANGED <<graphVars, running, now, posts, saved, walk, pinVars, tasks, boundVars>>

Pass ==
  /\ now < (IF "page" \in mix THEN MaxWalk ELSE MaxTime)
  /\ mix \cap {"post", "story", "edit", "save"} # {}
  /\ now' = now + 1
  /\ UNCHANGED <<graphVars, running, posts, saved, walk, pinVars, publishVars, boundVars>>

(* The process dies, and what it was doing is lost: readers of lists go on *)
(* with the cursors they have.                                             *)
Crash ==
  /\ "crash" \in mix /\ crashes < MaxCrashes
  /\ crashes' = crashes + 1
  /\ GraphCrash /\ PinningCrash
  /\ tasks' = [t \in DOMAIN tasks |->
       IF ~Finished(t) \/ running = <<"tags", t>> THEN [tasks[t] EXCEPT !.pc = "lost"]
       ELSE tasks[t]]
  /\ UNCHANGED <<now, posts, saved, walk, stories, mix, calls>>

ContentNext ==
  \/ \E u \in Users, what \in Uploads : CallPost(u, what)
  \/ \E u \in Users, what \in Uploads, ttl \in 1..StoryTtl : CallStory(u, what, ttl)
  \/ \E t \in DOMAIN tasks : RunTask(t)
  \/ \E a, b \in Users : GraphRequest(a, b)
  \/ \E u \in Users, v \in {"public", "private", "absent"} : PrivacyRequest(u, v)
  \/ \E p \in DOMAIN posts, u \in Users : EditRequest(p, u) \/ SaveRequest(p, u)
  \/ \E c \in Cids : MediaAnnounce(c)
  \/ ReportUser
  \/ \E list \in ListNames, me, of \in Users : Reading(list, me, of)
  \/ PageStep \/ GraphJob \/ TagStatement \/ Worker \/ Sweep \/ Pass \/ Crash

ContentSpec == ContentInit /\ [][ContentNext]_contentVars

(* The writer goes through its queue, the pin worker and the sweeper are   *)
(* loops on a timer, started by main and never stopped, and time passes.   *)
FairContent ==
  /\ ContentSpec
  /\ WF_contentVars(GraphJob \/ TagStatement) /\ WF_contentVars(Worker)
  /\ WF_contentVars(Sweep) /\ WF_contentVars(Pass)

-----------------------------------------------------------------------------
(* Properties.                                                             *)

ContentTypeOK ==
  /\ GraphTypeOK /\ PostsTypeOK /\ PinningTypeOK
  /\ tasks \in Seq(Task) /\ Len(tasks) - Len(Old) <= MaxTasks
  /\ \A t \in DOMAIN posts : t \in DOMAIN tasks /\ tasks[t].kind = "post"
  /\ \A t \in stories : t \in DOMAIN tasks /\ tasks[t].kind = "story"
  /\ \A t \in DOMAIN tasks : tasks[t].pc = "job" => running = <<"tags", t>>
  /\ calls \in 0..MaxCalls /\ crashes \in 0..MaxCrashes

(* stories_feed.                                                           *)
StoriesFeed(me) ==
  {t \in stories : tasks[t].expires > now /\ FollowsOrIs(me, tasks[t].by)}

Queued(cid) == cid = Thumbless \/ status[cid] # "none"

(* What is published has its pin jobs, unless its request is still at it   *)
(* or was cut before it could; a post has its tags unless the process died *)
(* in the middle of its job: a client that hangs up does not cost them.    *)
(* A story is in its author's feed from its job to its last second.        *)
PublishedWhole ==
  /\ \A t \in DOMAIN posts \cup stories :
       \/ tasks[t].pc \in {"job", "media", "thumb", "cut", "lost"}
       \/ /\ Queued(tasks[t].what.media)
          /\ tasks[t].kind = "post" => Queued(tasks[t].what.thumb)
  /\ \A t \in DOMAIN posts :
       \/ posts[t].tagged = tasks[t].what.tagged
       \/ running = <<"tags", t>> \/ tasks[t].pc = "lost"
  /\ \A t \in DOMAIN tasks :
       (tasks[t].kind = "story" /\ tasks[t].pc \in {"media", "done"} /\ tasks[t].expires > now)
       => t \in StoriesFeed(tasks[t].by)

(* A configured pinning service settles every job, failing ones at the     *)
(* front of the queue notwithstanding; and every story goes.               *)
BackgroundSettles ==
  /\ \A c \in Cids : (status[c] = "pending" /\ "pin" \in mix) ~> status[c] \in {"pinned", "failed"}
  /\ \A t \in 1..MaxTasks : t \in stories ~> t \notin stories
=============================================================================
