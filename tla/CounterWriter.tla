---------------------------- MODULE CounterWriter ----------------------------
(***************************************************************************)
(* The single-writer actor of src/src/db/writer.rs and the handlers whose  *)
(* counters it batches: like, unlike (api/posts.rs), comment_create,       *)
(* delete_comment (api/discover.rs) and delete_post.                       *)
(*                                                                         *)
(* A handler sends a job to the actor's unbounded FIFO mailbox, awaits its *)
(* reply, and only then sends the counter delta that belongs to it; the    *)
(* actor adds deltas up in memory and writes them, clamped at zero, on a   *)
(* timer, when MaxPending keys are buffered, or when flush_now asks.       *)
(* Between the two sends other handlers run, a client may hang up (which   *)
(* drops the handler's future) and the process may crash.                  *)
(***************************************************************************)
EXTENDS Integers, Sequences, FiniteSets

CONSTANTS
  NCalls,         (* bound on API calls, numbered in the order they start  *)
  Users,
  Posts,
  Author,         (* [Posts -> Users]                                      *)
  Requests,       (* what clients ask for: who, which operation and post   *)
  MaxPending,     (* MAX_PENDING_DELTAS: buffered keys that force a flush  *)
  MaxRestarts,    (* bound on process restarts                             *)
  MaxFlushErrors  (* bound on failing flush transactions                   *)

Kinds == {"like", "unlike", "comment_create", "delete_comment",
          "delete_post", "delete_post_force"}

ASSUME CounterAssumption ==
  /\ Author \in [Posts -> Users]
  /\ NCalls \in Nat
  /\ Requests \subseteq [kind : Kinds, user : Users, post : Posts]
  /\ MaxPending \in Nat \ {0}
  /\ MaxRestarts \in Nat /\ MaxFlushErrors \in Nat

Calls == 1..NCalls
NoCall == 0

VARIABLES
  op,          (* what each call asks for                                  *)
  stage,       (* how far each call, and then its delta, has come          *)
  mailbox,     (* the actor's queue                                        *)
  deltas,      (* the actor's HashMap of sums, a function on its keys      *)
  likes,       (* rows of the likes table, per post                        *)
  comments,    (* rows of the comments table, per post, deleted ones too   *)
  hidden,      (* comments with deleted_at set                             *)
  posts,       (* state of each post row                                   *)
  count,       (* the persisted like_count and comment_count columns       *)
  phase,       (* of the process                                           *)
  restarts, flushErrors,
  clamped,     (* history: what MAX(0, ..) has added to each column        *)
  overtaken,   (* history: keys whose -1 was sent before a pending +1      *)
  covered      (* history: calls whose delta preceded the shutdown flush   *)

rows == <<likes, comments, hidden, posts>>
actor == <<deltas, count, clamped, flushErrors>>
process == <<phase, restarts, covered>>
vars == <<op, stage, mailbox, rows, actor, process, overtaken>>

Keys == Posts \X {"like_count", "comment_count"}
Ops == [kind : Kinds, user : Users, post : Posts, target : 0..NCalls]
NoOp == [kind |-> "none"]
Stages == {"idle", "queued", "orphaned", "owed", "posted", "buffered",
           "settled", "lost", "done"}

Key(c) == <<op[c].post, IF op[c].kind \in {"like", "unlike"}
                        THEN "like_count" ELSE "comment_count">>
Amount(c) == IF op[c].kind \in {"like", "comment_create"} THEN 1 ELSE -1

Job(c)   == [type |-> "Job", call |-> c]
Delta(c) == [type |-> "Delta", call |-> c]
Flush    == [type |-> "Flush", call |-> NoCall]

In(S) == {c \in Calls : stage[c] \in S}

(* What the deltas for column k of the calls in stages S come to.          *)
Insertions(k, S) == {c \in In(S) : Key(c) = k /\ Amount(c) = 1}
Removals(k, S) == {c \in In(S) : Key(c) = k /\ Amount(c) = -1}
Total(k, S) == Cardinality(Insertions(k, S)) - Cardinality(Removals(k, S))

Empty == [k \in {} |-> 0]
Max0(n) == IF n > 0 THEN n ELSE 0

TypeOK ==
  /\ op \in [Calls -> Ops \cup {NoOp}]
  /\ stage \in [Calls -> Stages]
  /\ mailbox \in Seq([type : {"Job", "Delta"}, call : Calls] \cup {Flush})
  /\ DOMAIN deltas \subseteq Keys /\ \A k \in DOMAIN deltas : deltas[k] \in Int
  /\ likes \in [Posts -> SUBSET Users]
  /\ comments \in [Posts -> SUBSET Calls]
  /\ hidden \subseteq Calls
  /\ posts \in [Posts -> {"live", "deleted", "gone"}]
  /\ count \in [Keys -> Nat] /\ clamped \in [Keys -> Nat]
  /\ phase \in {"up", "flushing", "draining", "down"}
  /\ restarts \in 0..MaxRestarts /\ flushErrors \in 0..MaxFlushErrors
  /\ overtaken \subseteq Keys /\ covered \subseteq Calls

Init ==
  /\ op = [c \in Calls |-> NoOp]
  /\ stage = [c \in Calls |-> "idle"]
  /\ mailbox = << >>
  /\ deltas = Empty
  /\ likes = [p \in Posts |-> {}]
  /\ comments = [p \in Posts |-> {}]
  /\ hidden = {}
  /\ posts = [p \in Posts |-> "live"]
  /\ count = [k \in Keys |-> 0]
  /\ phase = "up" /\ restarts = 0 /\ flushErrors = 0
  /\ clamped = [k \in Keys |-> 0]
  /\ overtaken = {} /\ covered = {}

-----------------------------------------------------------------------------
(* Handlers.                                                               *)

(* A client calls the API and the handler posts its job (Writer::call).    *)
(* Calls differ only in their number, so they are taken in that order.     *)
(* Only delete_comment names a comment, one that a client could have seen. *)
Begin(c) ==
  /\ phase \in {"up", "flushing"}
  /\ stage[c] = "idle" /\ \A b \in 1..(c-1) : stage[b] # "idle"
  /\ \E r \in Requests :
       \E t \in IF r.kind = "delete_comment" THEN comments[r.post] ELSE {NoCall} :
         op' = [op EXCEPT ![c] =
                  [kind |-> r.kind, user |-> r.user, post |-> r.post, target |-> t]]
  /\ stage' = [stage EXCEPT ![c] = "queued"]
  /\ mailbox' = Append(mailbox, Job(c))
  /\ UNCHANGED <<rows, actor, process, overtaken>>

(* The handler resumes with the job's reply and calls add_delta.           *)
PostDelta(c) ==
  /\ phase # "down"
  /\ stage[c] = "owed"
  /\ stage' = [stage EXCEPT ![c] = "posted"]
  /\ mailbox' = Append(mailbox, Delta(c))
  /\ overtaken' =
       IF Amount(c) = -1
          /\ \E d \in In({"owed"}) : Key(d) = Key(c) /\ Amount(d) = 1
       THEN overtaken \cup {Key(c)} ELSE overtaken
  /\ UNCHANGED <<op, rows, actor, process>>

(* The client hangs up: the handler's future is dropped where it awaits.   *)
(* A job already in the mailbox still runs; a delta not yet sent never is. *)
HangUp(c) ==
  /\ phase # "down"
  /\ \/ stage[c] = "queued" /\ stage' = [stage EXCEPT ![c] = "orphaned"]
     \/ stage[c] = "owed" /\ stage' = [stage EXCEPT ![c] = "lost"]
  /\ UNCHANGED <<op, mailbox, rows, actor, process, overtaken>>

-----------------------------------------------------------------------------
(* The actor: the Job arm.                                                 *)

Receive(m) == phase # "down" /\ mailbox # << >> /\ Head(mailbox) = m
                /\ mailbox' = Tail(mailbox)

(* Where a call stands once its job has run: it owes a delta when a row    *)
(* changed, unless its handler is gone and nobody will send that delta.    *)
Reply(c, changed) ==
  stage' = [stage EXCEPT ![c] = IF ~changed THEN "done"
                                ELSE IF @ = "orphaned" THEN "lost" ELSE "owed"]

(* INSERT OR IGNORE of a like on a post that is not deleted.               *)
LikeJob(c) == LET u == op[c].user  p == op[c].post IN
  /\ Receive(Job(c)) /\ op[c].kind = "like"
  /\ LET new == posts[p] = "live" /\ u \notin likes[p] IN
       /\ likes' = [likes EXCEPT ![p] = IF new THEN @ \cup {u} ELSE @]
       /\ Reply(c, new)
  /\ UNCHANGED <<op, comments, hidden, posts, actor, process, overtaken>>

(* A plausible slip: the delta is sent whether or not a row was deleted.   *)
UnlikeJobUnconditional(c) == LET u == op[c].user  p == op[c].post IN
  /\ Receive(Job(c)) /\ op[c].kind = "unlike"
  /\ likes' = [likes EXCEPT ![p] = @ \ {u}]
  /\ Reply(c, TRUE)
  /\ UNCHANGED <<op, comments, hidden, posts, actor, process, overtaken>>

(* DELETE of the like; the post itself is not looked at.                   *)
UnlikeJob(c) == LET u == op[c].user  p == op[c].post IN
  /\ Receive(Job(c)) /\ op[c].kind = "unlike"
  /\ likes' = [likes EXCEPT ![p] = @ \ {u}]
  /\ Reply(c, u \in likes[p])
  /\ UNCHANGED <<op, comments, hidden, posts, actor, process, overtaken>>

(* INSERT of a comment, identified here by the call that made it. A parent *)
(* comment that is missing refuses the call just as a missing post does.   *)
CommentJob(c) == LET p == op[c].post IN
  /\ Receive(Job(c)) /\ op[c].kind = "comment_create"
  /\ LET new == posts[p] = "live" IN
       /\ comments' = [comments EXCEPT ![p] = IF new THEN @ \cup {c} ELSE @]
       /\ Reply(c, new)
  /\ UNCHANGED <<op, likes, hidden, posts, actor, process, overtaken>>

(* The comment's author or the post's owner sets deleted_at, once.         *)
DeleteCommentJob(c) == LET t == op[c].target  p == op[c].post IN
  /\ Receive(Job(c)) /\ op[c].kind = "delete_comment"
  /\ LET allowed == t \notin hidden /\ op[c].user \in {op[t].user, Author[p]} IN
       /\ hidden' = IF allowed THEN hidden \cup {t} ELSE hidden
       /\ Reply(c, allowed)
  /\ UNCHANGED <<op, likes, comments, posts, actor, process, overtaken>>

(* Soft deletion of a live post, or DELETE, which the foreign keys of the  *)
(* likes and comments tables refuse while a row refers to the post. Other  *)
(* tables that may refer to it refuse in the same way.                     *)
DeletePostJob(c) == LET p == op[c].post IN
  /\ Receive(Job(c)) /\ op[c].kind \in {"delete_post", "delete_post_force"}
  /\ \/ /\ op[c].user = Author[p]
        /\ \/ op[c].kind = "delete_post" /\ posts[p] = "live"
              /\ posts' = [posts EXCEPT ![p] = "deleted"]
           \/ op[c].kind = "delete_post_force" /\ likes[p] = {} /\ comments[p] = {}
              /\ posts' = [posts EXCEPT ![p] = "gone"]
     \/ /\ \/ op[c].user # Author[p]
           \/ op[c].kind = "delete_post" /\ posts[p] # "live"
           \/ op[c].kind = "delete_post_force"
        /\ UNCHANGED posts
  /\ Reply(c, FALSE)
  /\ UNCHANGED <<op, likes, comments, hidden, actor, process, overtaken>>

-----------------------------------------------------------------------------
(* The actor: the Delta and Flush arms and the timer.                      *)

Target(d, k) == count[k] + d[k]
Flushed(d) == {k \in DOMAIN d : posts[k[1]] # "gone"}
Drain(s, to) == [c \in Calls |-> IF s[c] = "buffered" THEN to ELSE s[c]]

(* One transaction: UPDATE .. SET col = MAX(0, col + d) for each entry.    *)
FlushCommits(d, s) ==
  /\ count' = [k \in Keys |-> IF k \in Flushed(d) THEN Max0(Target(d, k)) ELSE count[k]]
  /\ clamped' = [k \in Keys |-> IF k \in Flushed(d)
                                THEN clamped[k] + Max0(-Target(d, k)) ELSE clamped[k]]
  /\ stage' = Drain(s, "settled")
  /\ UNCHANGED flushErrors

(* The transaction fails: the error is logged and the map cleared anyway.  *)
FlushFails(d, s) ==
  /\ d # Empty /\ flushErrors < MaxFlushErrors
  /\ flushErrors' = flushErrors + 1
  /\ stage' = Drain(s, "lost")
  /\ UNCHANGED <<count, clamped>>

(* A plausible slip: the map is not drained, and its sums flushed again.   *)
DoFlushKeeping(d, s) == deltas' = d /\ (FlushCommits(d, s) \/ FlushFails(d, s))

DoFlush(d, s) == deltas' = Empty /\ (FlushCommits(d, s) \/ FlushFails(d, s))

(* A plausible slip: the entry is overwritten instead of added to.         *)
AccumulateOverwriting(c) == [k \in DOMAIN deltas \cup {Key(c)} |->
  IF k = Key(c) THEN Amount(c) ELSE deltas[k]]

(* The map after *deltas.entry(key).or_insert(0) += d.                     *)
Accumulate(c) == [k \in DOMAIN deltas \cup {Key(c)} |->
  (IF k \in DOMAIN deltas THEN deltas[k] ELSE 0) + (IF k = Key(c) THEN Amount(c) ELSE 0)]

(* The Delta arm: add it up, and flush when MaxPending keys are buffered.  *)
AddDelta(c) == LET s == [stage EXCEPT ![c] = "buffered"] IN
  /\ Receive(Delta(c))
  /\ IF Cardinality(DOMAIN Accumulate(c)) >= MaxPending
     THEN DoFlush(Accumulate(c), s)
     ELSE /\ deltas' = Accumulate(c) /\ stage' = s
          /\ UNCHANGED <<count, clamped, flushErrors>>
  /\ UNCHANGED <<op, rows, process, overtaken>>

(* A plausible slip: the acknowledgement is sent without flushing.         *)
FlushRequestAckOnly ==
  /\ Receive(Flush)
  /\ phase' = "draining"
  /\ UNCHANGED <<op, stage, rows, actor, restarts, covered, overtaken>>

(* The Flush arm: flush, then acknowledge, which lets axum start to drain. *)
FlushRequest ==
  /\ Receive(Flush)
  /\ DoFlush(deltas, stage)
  /\ phase' = "draining"
  /\ UNCHANGED <<op, rows, restarts, covered, overtaken>>

(* A plausible slip: the timer arm is missing, only full batches flush.    *)
TickNever == FALSE /\ UNCHANGED vars

Tick ==
  /\ phase # "down" /\ deltas # Empty
  /\ DoFlush(deltas, stage)
  /\ UNCHANGED <<op, mailbox, rows, process, overtaken>>

WriterJob(c) == \/ LikeJob(c) \/ UnlikeJob(c) \/ CommentJob(c)
                \/ DeleteCommentJob(c) \/ DeletePostJob(c)
Writer == FlushRequest \/ \E c \in Calls : WriterJob(c) \/ AddDelta(c)

-----------------------------------------------------------------------------
(* The process (main.rs).                                                  *)

(* ctrl_c: flush_now posts a Flush while handlers are still running.       *)
Interrupt ==
  /\ phase = "up"
  /\ phase' = "flushing"
  /\ mailbox' = Append(mailbox, Flush)
  /\ covered' = In({"posted", "buffered"})
  /\ UNCHANGED <<op, stage, rows, actor, restarts, overtaken>>

(* What an ended process leaves of each call: jobs that have not run never *)
(* will, and deltas that are not in the database are forgotten.            *)
Stop ==
  /\ phase' = "down"
  /\ stage' = [c \in Calls |->
       IF stage[c] \in {"queued", "orphaned"} THEN "done"
       ELSE IF stage[c] \in {"owed", "posted", "buffered"} THEN "lost"
       ELSE stage[c]]
  /\ mailbox' = << >> /\ deltas' = Empty
  /\ UNCHANGED <<op, rows, count, clamped, flushErrors, restarts, overtaken, covered>>

(* The server has drained: no handler is left, main returns, and the       *)
(* runtime drops the actor with whatever it still holds.                   *)
Exit == phase = "draining" /\ In({"queued", "owed"}) = {} /\ Stop

Crash == phase # "down" /\ restarts < MaxRestarts /\ Stop

Restart ==
  /\ phase = "down" /\ restarts < MaxRestarts
  /\ phase' = "up" /\ restarts' = restarts + 1 /\ covered' = {}
  /\ UNCHANGED <<op, stage, mailbox, rows, actor, overtaken>>

Next ==
  \/ \E c \in Calls : Begin(c) \/ PostDelta(c) \/ HangUp(c)
  \/ Writer \/ Tick
  \/ Interrupt \/ Exit \/ Crash \/ Restart

Spec == Init /\ [][Next]_vars

(* The actor's task and its timer are polled forever, tokio::select! picks *)
(* between them at random, and a handler whose reply has come is resumed.  *)
FairSpec == /\ Spec
            /\ WF_vars(Writer) /\ WF_vars(Tick)
            /\ \A c \in Calls : WF_vars(PostDelta(c))

-----------------------------------------------------------------------------
(* Properties.                                                             *)

(* Rows that the column of key k counts.                                   *)
Rows(k) == IF k[2] = "like_count" THEN likes[k[1]] ELSE comments[k[1]] \ hidden

(* The counters are a ledger: a row that comes or goes owes one delta from *)
(* the moment its job has run, that delta is added to its column once or   *)
(* is lost once, and no column changes otherwise, however mailbox, map,    *)
(* flushes, hang-ups and restarts cut the way in pieces (writer.rs).       *)
Owing == In({"owed", "posted", "buffered"})
Owed == [c \in Owing |-> <<Key(c), Amount(c)>>]
Closed == In({"settled", "lost"})
Sizes == [k \in Keys |-> Cardinality(Rows(k))]
Gone == {k \in Keys : posts[k[1]] = "gone"}

Abstract == INSTANCE Ledger WITH
  Debts <- Calls, Columns <- Keys,
  size <- Sizes, value <- count, owed <- Owed, over <- Closed, gone <- Gone

ImplementsLedger == Abstract!LedgerSpec

(* A persisted counter differs from the rows it counts by exactly the      *)
(* deltas that are still on their way or were lost, and by what clamping   *)
(* at zero added: no interleaving of handlers, flushes, hang-ups and       *)
(* restarts counts a row twice or loses one silently.                      *)
CountExplained ==
  \A k \in Keys : posts[k[1]] # "gone" =>
    count[k] = Cardinality(Rows(k)) + clamped[k]
               - Total(k, {"owed", "posted", "buffered", "lost"})

(* Clamping changes a counter only after a removal's -1 was sent ahead of  *)
(* an insertion's +1 that its handler still owed, or after a +1 was lost.  *)
ClampNeedsOvertaking ==
  \A k \in Keys : clamped[k] > 0 =>
    \/ k \in overtaken
    \/ \E c \in In({"lost"}) : Key(c) = k /\ Amount(c) = 1

(* Once flush_now has returned, every delta sent before it was called has  *)
(* left the actor: it is in the database or its flush failed.              *)
FlushNowCovers ==
  phase = "draining" => covered \cap In({"posted", "buffered"}) = {}

(* Every call is answered and its delta, if it owes one, reaches the       *)
(* database or is lost to a hang-up, a failed flush or a stop: none stays  *)
(* in the mailbox or the map for ever.                                     *)
EveryDeltaSettles ==
  \A c \in Calls : stage[c] = "queued" ~> stage[c] \in {"done", "settled", "lost"}

(* What a client expects and tests/api.rs says of a quiet system ("Unlike  *)
(* drops the counter back."): with no delta outstanding and none lost, the *)
(* counter is the number of rows.                                          *)
QuietCountsMatch ==
  \A k \in Keys :
    /\ posts[k[1]] # "gone"
    /\ \A c \in Calls : stage[c] \in {"idle", "done", "settled"}
    => count[k] = Cardinality(Rows(k))
=============================================================================
