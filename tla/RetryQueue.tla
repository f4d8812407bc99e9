------------------------------ MODULE RetryQueue ------------------------------
(***************************************************************************)
(* What the two background queues promise, whatever their workers read,    *)
(* call and write, and in which pieces. A job is tried no more often than  *)
(* allowed and settled once. It is done only if its effect was reached,    *)
(* spent only when no try is left, and once settled neither tried again    *)
(* nor reached again.                                                      *)
(***************************************************************************)
EXTENDS Naturals

CONSTANTS Jobs, MaxTries

VARIABLES
  state,   (* [Jobs -> {"none", "pending", "done", "spent", "dropped"}]    *)
  tries,   (* [Jobs -> Nat]                                                *)
  reached  (* the jobs whose effect the outside world has seen             *)

queue == <<state, tries, reached>>

(* A queue may have a past: jobs that were done at the first try.          *)
RetryInit ==
  \E past \in SUBSET Jobs :
    /\ state = [j \in Jobs |-> IF j \in past THEN "done" ELSE "none"]
    /\ tries = [j \in Jobs |-> IF j \in past THEN 1 ELSE 0]
    /\ reached = past

Become(j, to) == state' = [state EXCEPT ![j] = to]

Submit(j) == state[j] = "none" /\ Become(j, "pending") /\ UNCHANGED <<tries, reached>>

(* The effect takes place, perhaps again; the try is not yet counted, and  *)
(* never will be if its worker dies.                                       *)
Reach(j) == state[j] = "pending" /\ reached' = reached \cup {j} /\ UNCHANGED <<state, tries>>

(* A try is counted, and decides.                                          *)
Try(j) ==
  /\ state[j] = "pending" /\ tries[j] < MaxTries
  /\ tries' = [tries EXCEPT ![j] = @ + 1]
  /\ \/ Become(j, "pending") /\ tries[j] + 1 < MaxTries
     \/ Become(j, "done") /\ j \in reached
     \/ Become(j, "spent") /\ tries[j] + 1 = MaxTries
     \/ Become(j, "dropped")
  /\ UNCHANGED reached

(* Nothing is to be done for a job.                                        *)
Skip(j) == state[j] = "pending" /\ Become(j, "dropped") /\ UNCHANGED <<tries, reached>>

RetryNext == \E j \in Jobs : Submit(j) \/ Reach(j) \/ Try(j) \/ Skip(j)

RetrySpec == RetryInit /\ [][RetryNext]_queue
=============================================================================
