------------------------------- MODULE Pinning -------------------------------
(***************************************************************************)
(* The pin_jobs queue and the worker that drains it (src/src/pinning):     *)
(* requests to a remote pinning service, retried up to MaxAttempts times.  *)
(*                                                                         *)
(* The worker reads a batch through the read pool, then, job by job, calls *)
(* the service and posts the result to the writer. enqueue runs beside it, *)
(* from create_post, media announce and live chunks.                       *)
(***************************************************************************)
EXTENDS Naturals, Sequences, SequencesExt

CONSTANTS
  Cids,         (* content identifiers, the UNIQUE key of pin_jobs          *)
  MaxAttempts,  (* MAX_ATTEMPTS                                             *)
  Batch         (* BATCH: jobs read in one pass                             *)

ASSUME PinningAssumption == MaxAttempts \in Nat \ {0} /\ Batch \in Nat \ {0}

VARIABLES
  jobs,     (* cids of pin_jobs in the order of created_at                  *)
  status,   (* [Cids -> ...], "none" for a cid without a job                *)
  attempts, (* the column of that name                                      *)
  work,     (* the worker's batch: <<cid, attempts as read>>, first is next *)
  answer,   (* the service's answer for the first of work, until written    *)
  remote    (* history: cids that the service has accepted                  *)

pinTable == <<jobs, status, attempts>>
pinWorker == <<work, answer, remote>>
pinVars == <<pinTable, pinWorker>>

PinningTypeOK ==
  /\ jobs \in Seq(Cids)
  /\ status \in [Cids -> {"none", "pending", "pinned", "failed"}]
  /\ attempts \in [Cids -> 0..MaxAttempts]
  /\ work \in Seq(Cids \X (0..(MaxAttempts - 1)))
  /\ answer \in {"none", "ok", "error"}
  /\ remote \subseteq Cids

(* The table of a server that has pinned these already, at the first try.  *)
PinnedInit(cids) ==
  /\ jobs = SetToSeq(cids)
  /\ status = [c \in Cids |-> IF c \in cids THEN "pinned" ELSE "none"]
  /\ attempts = [c \in Cids |-> IF c \in cids THEN 1 ELSE 0]
  /\ work = << >> /\ answer = "none" /\ remote = cids

PinningInit == PinnedInit({})

(* A plausible slip: INSERT OR REPLACE, which begins the job again.        *)
EnqueueReplacing(c) ==
  /\ jobs' = IF status[c] = "none" THEN Append(jobs, c) ELSE jobs
  /\ status' = [status EXCEPT ![c] = "pending"]
  /\ attempts' = [attempts EXCEPT ![c] = 0]
  /\ UNCHANGED pinWorker

(* The job of enqueue: INSERT OR IGNORE, keyed by cid.                     *)
Enqueue(c) ==
  /\ jobs' = IF status[c] = "none" THEN Append(jobs, c) ELSE jobs
  /\ status' = IF status[c] = "none" THEN [status EXCEPT ![c] = "pending"] ELSE status
  /\ UNCHANGED <<attempts, pinWorker>>

(* A plausible slip: the batch is not limited to jobs with attempts left.  *)
EligibleAnyStatus(c) == status[c] # "none"

Eligible(c) == status[c] = "pending" /\ attempts[c] < MaxAttempts

(* A pass begins: the oldest pending jobs, at most Batch of them; s gives  *)
(* their positions.                                                        *)
Due(k, s) ==
  /\ \A i \in 1..k : Eligible(jobs[s[i]]) /\ \A j \in 1..(i - 1) : s[j] < s[i]
  /\ \A p \in DOMAIN jobs : Eligible(jobs[p]) =>
       (\E i \in 1..k : s[i] = p) \/ (k = Batch /\ s[k] < p)

Poll ==
  /\ work = << >>
  /\ \E k \in 1..Batch : \E s \in [1..k -> DOMAIN jobs] :
       /\ Due(k, s)
       /\ work' = [i \in 1..k |-> <<jobs[s[i]], attempts[jobs[s[i]]]>>]
  /\ UNCHANGED <<pinTable, answer, remote>>

(* pin_by_cid: accepted, refused, or timed out though it was accepted.     *)
PinByCid ==
  /\ work # << >> /\ answer = "none"
  /\ \/ answer' = "ok" /\ remote' = remote \cup {Head(work)[1]}
     \/ answer' = "error" /\ remote' \in {remote, remote \cup {Head(work)[1]}}
  /\ UNCHANGED <<pinTable, work>>

(* A plausible slip: a job fails only after one attempt too many.          *)
NextStatusLate(n) ==
  IF answer = "ok" THEN "pinned" ELSE IF n > MaxAttempts THEN "failed" ELSE "pending"

NextStatus(n) ==
  IF answer = "ok" THEN "pinned" ELSE IF n >= MaxAttempts THEN "failed" ELSE "pending"

(* The write-back: attempts is the value read with the batch, plus one.    *)
WriteBack ==
  /\ answer # "none"
  /\ LET c == Head(work)[1]  n == Head(work)[2] + 1 IN
       /\ attempts' = [attempts EXCEPT ![c] = n]
       /\ status' = [status EXCEPT ![c] = NextStatus(n)]
  /\ work' = Tail(work) /\ answer' = "none"
  /\ UNCHANGED <<jobs, remote>>

(* The process dies: the batch is forgotten, the table and the service     *)
(* keep what they have.                                                    *)
PinningCrash == work' = << >> /\ answer' = "none" /\ UNCHANGED <<pinTable, remote>>

PinWorker == Poll \/ PinByCid \/ WriteBack

-----------------------------------------------------------------------------
(* Properties.                                                             *)

(* A job marked pinned was accepted by the service, a failed one used all  *)
(* its attempts, a pending one has attempts left and will be polled again, *)
(* and what the worker read with its batch is still what the table holds.  *)
JobsConsistent ==
  /\ \A c \in Cids :
       /\ status[c] = "pinned" => c \in remote
       /\ status[c] = "failed" => attempts[c] = MaxAttempts
       /\ status[c] = "pending" => attempts[c] < MaxAttempts
       /\ status[c] # "none" <=> \E i \in 1..Len(jobs) : jobs[i] = c
  /\ \A i \in 1..Len(work) : LET c == work[i][1] IN
       status[c] = "pending" /\ attempts[c] = work[i][2]

(* The pins are a queue with retries: a write-back, though it is made from *)
(* a row that was read before the call, counts one try of a job that is    *)
(* still pending, however enqueues and deaths of the process fall.         *)
Outcome == [c \in Cids |-> CASE status[c] = "pinned" -> "done"
                             [] status[c] = "failed" -> "spent"
                             [] OTHER -> status[c]]

Queue == INSTANCE RetryQueue WITH
  Jobs <- Cids, MaxTries <- MaxAttempts,
  state <- Outcome, tries <- attempts, reached <- remote

PinsImplementRetryQueue == Queue!RetrySpec
=============================================================================
