------------------------------ MODULE PushWorker ------------------------------
(***************************************************************************)
(* Push delivery (src/src/push/worker.rs): the worker that takes pending   *)
(* rows of notifications, oldest first, to every active push token of the  *)
(* recipient through FCM, and writes back what became of them.             *)
(*                                                                         *)
(* The worker awaits FCM between reading a row and marking it, and again   *)
(* between an answer and the deactivation it causes. Meanwhile handlers    *)
(* insert notifications and clients register, unregister and set their     *)
(* preferences. A pass ends early when the process dies or a write fails.  *)
(***************************************************************************)
EXTENDS Naturals, Sequences, FiniteSets

CONSTANTS
  Notifs,      (* notifications, named in advance                           *)
  Users,
  Recipient,   (* [Notifs -> Users]                                         *)
  Tokens,      (* FCM registration tokens, one for each device              *)
  MaxAttempts, (* MAX_ATTEMPTS                                              *)
  Batch,       (* BATCH: rows read in one pass                              *)
  MaxChanges,  (* bound: client requests in a run                           *)
  MaxAborts    (* bound: passes that end early                              *)

ASSUME PushAssumption ==
  /\ Recipient \in [Notifs -> Users]
  /\ MaxAttempts \in Nat \ {0} /\ Batch \in Nat \ {0}
  /\ MaxChanges \in Nat /\ MaxAborts \in Nat

VARIABLES
  rows,      (* ids of the notifications inserted, by created_at            *)
  sent,      (* those with push_sent_at set                                 *)
  attempts,  (* push_attempts                                               *)
  error,     (* push_last_error                                             *)
  active,    (* rows <<user, token>> of push_tokens in use                  *)
  inactive,  (* rows with deactivated_reason set                            *)
  paused,    (* users whose user_notif_prefs has pause_all set              *)
  work,      (* the worker's batch: <<id, attempts as read>>                *)
  cur,       (* what it is doing with the first of the batch                *)
  live,      (* external: tokens that FCM can deliver to                    *)
  delivered, (* external: how often a device has been sent a notification   *)
  quiet,     (* history: notifications inserted under a pause that lasts    *)
  tokenless, (* history: notifications that found no active token           *)
  condemned, (* history: rows inactive because of FCM's verdict on them     *)
  raced,     (* history: rows registered again after that verdict and       *)
             (* before the update that it caused                            *)
  changes, aborts

table == <<rows, sent, attempts, error>>
registry == <<active, inactive, condemned, raced>>
clients == <<paused, live, quiet, changes>>
vars == <<table, registry, clients, work, cur, delivered, tokenless, aborts>>

(* todo: tokens still to be sent to. dead: tokens FCM has given up on, not *)
(* yet deactivated. hope: some token is not dead. failed: some send was.   *)
Idle == [at |-> "idle", todo |-> {}, dead |-> {}, hope |-> FALSE, failed |-> FALSE]

TypeOK ==
  /\ rows \in Seq(Notifs) /\ sent \subseteq Notifs
  /\ attempts \in [Notifs -> 0..MaxAttempts]
  /\ error \in [Notifs -> {"none", "failure", "all tokens dead", "user preference"}]
  /\ active \subseteq Users \X Tokens /\ inactive \subseteq Users \X Tokens
  /\ active \cap inactive = {}
  /\ paused \subseteq Users /\ live \subseteq Tokens
  /\ work \in Seq(Notifs \X (0..(MaxAttempts - 1)))
  /\ cur \in [at : {"idle", "skip", "empty", "send"}, todo : SUBSET Tokens,
              dead : SUBSET Tokens, hope : BOOLEAN, failed : BOOLEAN]
  /\ delivered \in [Notifs -> [Tokens -> 0..(MaxAttempts + MaxAborts)]]
  /\ quiet \subseteq Notifs /\ tokenless \subseteq Notifs
  /\ condemned \subseteq Users \X Tokens /\ raced \subseteq Users \X Tokens
  /\ changes \in 0..MaxChanges /\ aborts \in 0..MaxAborts

Init ==
  /\ rows = << >> /\ sent = {}
  /\ attempts = [n \in Notifs |-> 0] /\ error = [n \in Notifs |-> "none"]
  /\ active = {} /\ inactive = {} /\ paused = {}
  /\ work = << >> /\ cur = Idle
  /\ live = Tokens /\ delivered = [n \in Notifs |-> [t \in Tokens |-> 0]]
  /\ quiet = {} /\ tokenless = {} /\ condemned = {} /\ raced = {}
  /\ changes = 0 /\ aborts = 0

-----------------------------------------------------------------------------
(* Handlers and clients.                                                   *)

(* The job of notify, from like, comment_create or follow.                 *)
Notify(n) ==
  /\ \A i \in DOMAIN rows : rows[i] # n
  /\ rows' = Append(rows, n)
  /\ quiet' = IF Recipient[n] \in paused THEN quiet \cup {n} ELSE quiet
  /\ UNCHANGED <<sent, attempts, error, registry, paused, live, changes,
                 work, cur, delivered, tokenless, aborts>>

Change == changes < MaxChanges /\ changes' = changes + 1

(* INSERT OR REPLACE: a row that was deactivated is in use again.          *)
RegisterPush(u, t) ==
  /\ Change
  /\ active' = active \cup {<<u, t>>} /\ inactive' = inactive \ {<<u, t>>}
  /\ condemned' = condemned \ {<<u, t>>}
  /\ raced' = IF t \in cur.dead THEN raced \cup {<<u, t>>} ELSE raced \ {<<u, t>>}
  /\ UNCHANGED <<table, paused, live, quiet, work, cur, delivered, tokenless, aborts>>

UnregisterPush(u, t) ==
  /\ Change /\ <<u, t>> \in active \cup inactive
  /\ active' = active \ {<<u, t>>} /\ inactive' = inactive \ {<<u, t>>}
  /\ condemned' = condemned \ {<<u, t>>} /\ raced' = raced \ {<<u, t>>}
  /\ UNCHANGED <<table, paused, live, quiet, work, cur, delivered, tokenless, aborts>>

(* POST notification-prefs with pause_all on or off.                       *)
SetPauseAll(u) ==
  /\ Change
  /\ paused' = IF u \in paused THEN paused \ {u} ELSE paused \cup {u}
  /\ quiet' = {n \in quiet : Recipient[n] # u}
  /\ UNCHANGED <<table, registry, live, work, cur, delivered, tokenless, aborts>>

(* External: an app is removed, or is installed again.                     *)
Reinstall(t) ==
  /\ Change
  /\ live' = IF t \in live THEN live \ {t} ELSE live \cup {t}
  /\ UNCHANGED <<table, registry, paused, quiet, work, cur, delivered, tokenless, aborts>>

-----------------------------------------------------------------------------
(* The worker.                                                             *)

(* A plausible slip: the query forgets push_sent_at.                       *)
PendingThoughSent(n) == attempts[n] < MaxAttempts

Pending(n) == n \notin sent /\ attempts[n] < MaxAttempts

(* s: the positions of the first Batch pending rows, oldest first.         *)
Due(k, s) ==
  /\ \A i \in 1..k : Pending(rows[s[i]]) /\ \A j \in 1..(i - 1) : s[j] < s[i]
  /\ \A p \in DOMAIN rows : Pending(rows[p]) =>
       (\E i \in 1..k : s[i] = p) \/ (k = Batch /\ s[k] < p)

Poll ==
  /\ work = << >>
  /\ \E k \in 1..Batch : \E s \in [1..k -> DOMAIN rows] :
       /\ Due(k, s)
       /\ work' = [i \in 1..k |-> <<rows[s[i]], attempts[rows[s[i]]]>>]
  /\ UNCHANGED <<table, registry, clients, cur, delivered, tokenless, aborts>>

This == Head(work)[1]
ActiveTokens(u) == {t \in Tokens : <<u, t>> \in active}

(* read_user_prefs asks user_notif_prefs for a column, calls, that the     *)
(* table does not have; the statement fails and nothing is withheld.       *)
WantsPush(u) == TRUE

(* Reads the preferences and the tokens for the first row of the batch.    *)
Look ==
  /\ work # << >> /\ cur.at = "idle"
  /\ LET u == Recipient[This]  ts == ActiveTokens(u) IN
       cur' = [Idle EXCEPT !.at = IF ~WantsPush(u) THEN "skip"
                                  ELSE IF ts = {} THEN "empty" ELSE "send",
                           !.todo = ts]
  /\ UNCHANGED <<table, registry, clients, work, delivered, tokenless, aborts>>

Deliver(t, k) ==
  delivered' = [delivered EXCEPT ![This][t] = @ + k]

(* One message to FCM: accepted, refused for good, or failed in between,   *)
(* as when the answer times out after the message was accepted.            *)
SendToToken(t) ==
  /\ cur.at = "send" /\ t \in cur.todo
  /\ \/ /\ t \in live /\ Deliver(t, 1)
        /\ cur' = [cur EXCEPT !.todo = @ \ {t}, !.hope = TRUE]
     \/ /\ t \notin live /\ UNCHANGED delivered
        /\ cur' = [cur EXCEPT !.todo = @ \ {t}, !.dead = @ \cup {t}, !.failed = TRUE]
     \/ /\ \E k \in IF t \in live THEN {0, 1} ELSE {0} : Deliver(t, k)
        /\ cur' = [cur EXCEPT !.todo = @ \ {t}, !.hope = TRUE, !.failed = TRUE]
  /\ raced' = {r \in raced : r[2] # t \/ r \in inactive}
  /\ UNCHANGED <<table, active, inactive, condemned, clients, work, tokenless, aborts>>

(* A plausible slip: the update names the user and not the token.          *)
DeactivateUser(t) ==
  /\ cur.at = "send" /\ cur.todo = {} /\ t \in cur.dead
  /\ LET hit == {r \in active : r[1] = Recipient[This]} IN
       /\ active' = active \ hit /\ inactive' = inactive \cup hit
       /\ condemned' = condemned \cup ({r \in hit : r[2] = t} \ raced)
  /\ cur' = [cur EXCEPT !.dead = @ \ {t}]
  /\ UNCHANGED <<table, raced, clients, work, delivered, tokenless, aborts>>

(* The UPDATE of deactivate_token, for every user of the token.            *)
DeactivateToken(t) ==
  /\ cur.at = "send" /\ cur.todo = {} /\ t \in cur.dead
  /\ LET hit == {r \in active : r[2] = t} IN
       /\ active' = active \ hit /\ inactive' = inactive \cup hit
       /\ condemned' = condemned \cup (hit \ raced)
  /\ cur' = [cur EXCEPT !.dead = @ \ {t}]
  /\ UNCHANGED <<table, raced, clients, work, delivered, tokenless, aborts>>

Finish == work' = Tail(work) /\ cur' = Idle

(* A plausible slip: a failed attempt is not counted.                      *)
NextAttemptsUncounted(n) == IF cur.failed THEN n ELSE n + 1

NextAttempts(n) == n + 1

(* A plausible slip: one accepted message is enough for the row.           *)
GivesUpOnFirstSuccess(n) == ~cur.failed \/ cur.hope \/ NextAttempts(n) >= MaxAttempts

(* No token is left to try, nothing failed, or this was the last attempt.  *)
GivesUp(n) == ~cur.hope \/ ~cur.failed \/ NextAttempts(n) >= MaxAttempts

(* mark_done, mark_done_with_error or mark_retry.                          *)
Mark ==
  /\ cur.at = "send" /\ cur.todo = {} /\ cur.dead = {}
  /\ attempts' = [attempts EXCEPT ![This] = NextAttempts(Head(work)[2])]
  /\ sent' = IF GivesUp(Head(work)[2]) THEN sent \cup {This} ELSE sent
  /\ error' = [error EXCEPT ![This] = IF ~cur.hope THEN "all tokens dead"
                                      ELSE IF cur.failed THEN "failure" ELSE "none"]
  /\ Finish
  /\ UNCHANGED <<rows, registry, clients, delivered, tokenless, aborts>>

(* A plausible slip: a row without a token is left to be polled again.     *)
MarkUnsentPending ==
  /\ cur.at \in {"empty", "skip"}
  /\ attempts' = [attempts EXCEPT ![This] = IF cur.at = "empty" THEN @ + 1 ELSE @]
  /\ tokenless' = IF cur.at = "empty" THEN tokenless \cup {This} ELSE tokenless
  /\ Finish
  /\ UNCHANGED <<rows, sent, error, registry, clients, delivered, aborts>>

(* mark_done without a token, or mark_skip, which counts no attempt.       *)
MarkUnsent ==
  /\ cur.at \in {"empty", "skip"}
  /\ sent' = sent \cup {This}
  /\ attempts' = [attempts EXCEPT ![This] = IF cur.at = "empty" THEN @ + 1 ELSE @]
  /\ error' = [error EXCEPT ![This] =
       IF cur.at = "empty" THEN "none" ELSE "user preference"]
  /\ tokenless' = IF cur.at = "empty" THEN tokenless \cup {This} ELSE tokenless
  /\ Finish
  /\ UNCHANGED <<rows, registry, clients, delivered, aborts>>

Work == \/ Poll \/ Look \/ Mark \/ MarkUnsent
        \/ \E t \in Tokens : SendToToken(t) \/ DeactivateToken(t)

(* The process dies, or a mark fails and with it the pass.                 *)
Abort ==
  /\ work # << >> /\ aborts < MaxAborts
  /\ aborts' = aborts + 1
  /\ work' = << >> /\ cur' = Idle
  /\ UNCHANGED <<table, registry, clients, delivered, tokenless>>

Next ==
  \/ \E n \in Notifs : Notify(n)
  \/ \E u \in Users, t \in Tokens : RegisterPush(u, t) \/ UnregisterPush(u, t)
  \/ \E u \in Users : SetPauseAll(u)
  \/ \E t \in Tokens : Reinstall(t)
  \/ Work \/ Abort

Spec == Init /\ [][Next]_vars

(* The worker is a loop on a timer, and FCM answers or times out in 15 s.  *)
FairSpec == Spec /\ WF_vars(Work)

-----------------------------------------------------------------------------
(* Properties.                                                             *)

(* A row that was marked sent without an error had every message accepted, *)
(* at least one, unless there was no active token; a row that is not sent  *)
(* has attempts left, so that some later pass takes it up (worker.rs:      *)
(* MAX_ATTEMPTS, mark_done, mark_done_with_error).                         *)
NoSilentLoss ==
  \A n \in Notifs :
    /\ n \in sent /\ error[n] = "none" /\ n \notin tokenless
         => \E t \in Tokens : delivered[n][t] > 0
    /\ error[n] = "failure" /\ n \in sent => attempts[n] = MaxAttempts
    /\ n \notin sent => attempts[n] < MaxAttempts

(* A device is sent a notification no more than once for each attempt that *)
(* was counted, the one under way, and each pass that ended early.         *)
DuplicatesBounded ==
  \A n \in Notifs, t \in Tokens :
    delivered[n][t] <= attempts[n] + aborts
      + (IF work # << >> /\ This = n /\ cur.at = "send" THEN 1 ELSE 0)

(* A row is out of use only after FCM gave up on its token since it was    *)
(* last registered, unless it was registered again between that answer and *)
(* the update that deactivates it: the update compares only the token.     *)
DeactivatedForAReason == inactive \subseteq condemned \cup raced

(* Every notification is sent, given up or skipped, and none waits for     *)
(* ever behind others that keep failing.                                   *)
EveryNotificationSettles ==
  \A n \in Notifs : (\E i \in DOMAIN rows : rows[i] = n) ~> n \in sent

(* RUNBOOK_FCM.md: "The user_notif_prefs row drives the worker's per-kind  *)
(* gate"; tests/push.rs: "user_pause_all_marks_notifications_skipped".     *)
(* A notification of a user who has paused everything reaches no device.   *)
PauseAllRespected ==
  \A n \in quiet, t \in Tokens : delivered[n][t] = 0

(* Notifications are a queue with retries too: a mark, though made from a  *)
(* row that was read before the sends, counts one try of a notification    *)
(* that is still pending, whatever clients, FCM and aborted passes do.     *)
Fate(n) ==
  IF \A i \in DOMAIN rows : rows[i] # n THEN "none"
  ELSE IF n \notin sent THEN "pending"
  ELSE IF error[n] = "failure" THEN "spent"
  ELSE IF error[n] = "none" /\ n \notin tokenless THEN "done"
  ELSE "dropped"
Fates == [n \in Notifs |-> Fate(n)]
Reached == {n \in Notifs : \E t \in Tokens : delivered[n][t] > 0}

Queue == INSTANCE RetryQueue WITH
  Jobs <- Notifs, MaxTries <- MaxAttempts,
  state <- Fates, tries <- attempts, reached <- Reached

ImplementsRetryQueue == Queue!RetrySpec
=============================================================================
