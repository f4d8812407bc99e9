-------------------------- MODULE PushWorker_proofs --------------------------
(***************************************************************************)
(* What holds of push delivery for any notifications, users, tokens, batch *)
(* size and number of attempts: state typing, no notification given up     *)
(* without a cause, the bound on repeated sends, and that tokens go out of *)
(* use only on FCM's word. The inductive invariant ties the worker's batch,*)
(* read before the awaits, to the rows as they are when it writes back.    *)
(***************************************************************************)
EXTENDS PushWorker, TLAPS

(* A notification has one row, and no batch holds a row twice.             *)
RowsOnce ==
  /\ \A i, j \in DOMAIN rows : rows[i] = rows[j] => i = j
  /\ \A i, j \in DOMAIN work : work[i][1] = work[j][1] => i = j

(* No handler marks a notification sent or counts an attempt: what the     *)
(* worker read of a row is true until it has marked that row.              *)
BatchTrue ==
  \A i \in DOMAIN work :
    work[i][1] \notin sent /\ work[i][2] = attempts[work[i][1]]

(* Between two passes nothing is being sent.                               *)
IdleBetween == work = << >> => cur = Idle

(* The worker is past token t with notification n, not yet marked.         *)
PastIt(n, t) ==
  work # << >> /\ This = n /\ cur.at = "send" /\ t \notin cur.todo

(* DuplicatesBounded, with the attempt under way counted for a device only *)
(* once its message may have gone out.                                     *)
SendsCounted ==
  \A n \in Notifs, t \in Tokens :
    delivered[n][t] <= attempts[n] + aborts + (IF PastIt(n, t) THEN 1 ELSE 0)

(* No failure and a token that is not dead: some device was sent it.       *)
HopeIsFounded ==
  cur.at = "send" /\ cur.hope /\ ~cur.failed
    => \E t \in Tokens : delivered[This][t] > 0

IInv ==
  /\ TypeOK /\ RowsOnce /\ BatchTrue /\ IdleBetween
  /\ SendsCounted /\ HopeIsFounded /\ NoSilentLoss

-----------------------------------------------------------------------------
(* The worker's batch and its head.                                        *)

(* The head and the tail of a sequence that is not empty.                  *)
LEMMA HeadAndTail ==
  ASSUME NEW E, NEW s \in Seq(E), s # << >>
  PROVE  /\ 1 \in DOMAIN s /\ Head(s) = s[1] /\ s[1] \in E
         /\ Tail(s) \in Seq(E)
         /\ \A i \in DOMAIN Tail(s) :
              /\ i \in Nat /\ i + 1 # 1
              /\ i + 1 \in DOMAIN s /\ Tail(s)[i] = s[i + 1]
<1>1. Len(s) \in Nat \ {0} /\ DOMAIN s = 1..Len(s)
  OBVIOUS
<1>2. Tail(s) \in Seq(E) /\ Len(Tail(s)) = Len(s) - 1
  BY <1>1
<1>3. \A i \in 1..(Len(s) - 1) : Tail(s)[i] = s[i + 1]
  BY <1>1
<1>4. DOMAIN Tail(s) = 1..(Len(s) - 1)
  BY <1>2
<1>. QED  BY <1>1, <1>2, <1>3, <1>4

Entries == Notifs \X (0..(MaxAttempts - 1))

(* The first of the batch is a pending notification, as it was read.       *)
LEMMA HeadOfBatch ==
  ASSUME TypeOK, BatchTrue, work # << >>
  PROVE  /\ This \in Notifs /\ This \notin sent
         /\ Head(work)[2] = attempts[This]
         /\ attempts[This] \in 0..(MaxAttempts - 1)
<1>1. work \in Seq(Entries)
  BY DEF TypeOK, Entries
<1>2. 1 \in DOMAIN work /\ Head(work) = work[1] /\ work[1] \in Entries
  BY <1>1, HeadAndTail
<1>3. work[1][1] \in Notifs /\ work[1][2] \in 0..(MaxAttempts - 1)
  BY <1>2 DEF Entries
<1>4. work[1][1] \notin sent /\ work[1][2] = attempts[work[1][1]]
  BY <1>2 DEF BatchTrue
<1>. QED  BY <1>2, <1>3, <1>4 DEF This

(* What is left of the batch when the head has been marked.                *)
LEMMA RestOfBatch ==
  ASSUME TypeOK, RowsOnce, work # << >>
  PROVE  /\ Tail(work) \in Seq(Entries)
         /\ \A i \in DOMAIN Tail(work) :
              /\ i + 1 \in DOMAIN work /\ Tail(work)[i] = work[i + 1]
              /\ Tail(work)[i][1] # This
         /\ \A i, j \in DOMAIN Tail(work) :
              Tail(work)[i][1] = Tail(work)[j][1] => i = j
<1>1. work \in Seq(Entries)
  BY DEF TypeOK, Entries
<1>2. 1 \in DOMAIN work /\ Head(work) = work[1]
  BY <1>1, HeadAndTail
<1>3. \A i \in DOMAIN Tail(work) :
        i \in Nat /\ i + 1 # 1 /\ i + 1 \in DOMAIN work /\ Tail(work)[i] = work[i + 1]
  BY <1>1, HeadAndTail
<1>4. \A i \in DOMAIN Tail(work) : Tail(work)[i][1] # This
  BY <1>2, <1>3 DEF RowsOnce, This
<1>5. \A i, j \in DOMAIN Tail(work) :
        Tail(work)[i][1] = Tail(work)[j][1] => i = j
  BY <1>3 DEF RowsOnce
<1>6. Tail(work) \in Seq(Entries)
  BY <1>1, HeadAndTail
<1>. QED  BY <1>3, <1>4, <1>5, <1>6

(* What is counted are natural numbers.                                    *)
LEMMA Counts ==
  ASSUME TypeOK
  PROVE  /\ \A n \in Notifs : attempts[n] \in Nat
         /\ \A n \in Notifs, t \in Tokens : delivered[n][t] \in Nat
         /\ aborts \in Nat /\ aborts <= MaxAborts
<1>1. MaxAttempts \in Nat /\ MaxAborts \in Nat /\ MaxAttempts + MaxAborts \in Nat
  BY PushAssumption
<1>2. delivered \in [Notifs -> [Tokens -> 0..(MaxAttempts + MaxAborts)]]
  BY DEF TypeOK
<1>3. \A n \in Notifs, t \in Tokens : delivered[n][t] \in 0..(MaxAttempts + MaxAborts)
  BY <1>2
<1>4. attempts \in [Notifs -> 0..MaxAttempts] /\ aborts \in 0..MaxAborts
  BY DEF TypeOK
<1>. QED  BY <1>1, <1>3, <1>4

(* A step that leaves the rows, the worker and FCM's deliveries alone.     *)
LEMMA Bystander ==
  ASSUME IInv, UNCHANGED <<table, work, cur, delivered, tokenless, aborts>>
  PROVE  /\ RowsOnce' /\ BatchTrue' /\ IdleBetween'
         /\ SendsCounted' /\ HopeIsFounded' /\ NoSilentLoss'
  BY DEF IInv, table, RowsOnce, BatchTrue, IdleBetween, SendsCounted, PastIt,
         This, HopeIsFounded, NoSilentLoss, Idle

-----------------------------------------------------------------------------
(* Handlers and clients.                                                   *)

(* A new notification has a row of its own and has been sent to no one.    *)
LEMMA NotifyKeeps ==
  ASSUME IInv, NEW n \in Notifs, Notify(n)
  PROVE  IInv'
<1>1. rows \in Seq(Notifs) /\ rows' = Append(rows, n)
  BY DEF IInv, TypeOK, Notify
<1>2. /\ rows' \in Seq(Notifs) /\ Len(rows) \in Nat
      /\ DOMAIN rows' = DOMAIN rows \cup {Len(rows) + 1}
      /\ \A i \in DOMAIN rows : rows'[i] = rows[i]
      /\ rows'[Len(rows) + 1] = n
  BY <1>1
<1>3. TypeOK'
  BY <1>2 DEF IInv, TypeOK, Notify, registry
<1>4. RowsOnce'
  <2>1. \A i, j \in DOMAIN rows' : rows'[i] = rows'[j] => i = j
    BY <1>2 DEF IInv, RowsOnce, Notify
  <2>. QED  BY <2>1 DEF IInv, RowsOnce, Notify
<1>5. BatchTrue' /\ IdleBetween' /\ SendsCounted' /\ HopeIsFounded' /\ NoSilentLoss'
  BY DEF IInv, Notify, BatchTrue, IdleBetween, Idle, SendsCounted, PastIt, This,
         HopeIsFounded, NoSilentLoss
<1>. QED  BY <1>3, <1>4, <1>5 DEF IInv

(* Clients touch the registry of tokens and their preferences only.        *)
LEMMA ClientsKeep ==
  ASSUME IInv, Change, UNCHANGED <<table, work, cur, delivered, tokenless, aborts>>,
         active' \subseteq Users \X Tokens, inactive' \subseteq Users \X Tokens,
         active' \cap inactive' = {},
         condemned' \subseteq Users \X Tokens, raced' \subseteq Users \X Tokens,
         paused' \subseteq Users, live' \subseteq Tokens, quiet' \subseteq Notifs
  PROVE  IInv'
<1>1. changes' \in 0..MaxChanges
  <2>1. changes \in 0..MaxChanges
    BY DEF IInv, TypeOK
  <2>. QED  BY <2>1, PushAssumption DEF Change
<1>2. TypeOK'
  BY <1>1 DEF IInv, TypeOK, table
<1>. QED  BY <1>2, Bystander DEF IInv

LEMMA RegisterKeeps ==
  ASSUME IInv, NEW u \in Users, NEW t \in Tokens, RegisterPush(u, t)
  PROVE  IInv'
<1>1. /\ Change /\ UNCHANGED <<table, work, cur, delivered, tokenless, aborts>>
      /\ active' = active \cup {<<u, t>>} /\ inactive' = inactive \ {<<u, t>>}
      /\ condemned' = condemned \ {<<u, t>>} /\ UNCHANGED <<paused, live, quiet>>
      /\ raced' = raced \cup {<<u, t>>} \/ raced' = raced \ {<<u, t>>}
  BY DEF RegisterPush
<1>2. <<u, t>> \in Users \X Tokens
  OBVIOUS
<1>3. /\ active' \subseteq Users \X Tokens /\ inactive' \subseteq Users \X Tokens
      /\ active' \cap inactive' = {}
      /\ condemned' \subseteq Users \X Tokens /\ raced' \subseteq Users \X Tokens
      /\ paused' \subseteq Users /\ live' \subseteq Tokens /\ quiet' \subseteq Notifs
  BY <1>1, <1>2 DEF IInv, TypeOK
<1>. QED  BY <1>1, <1>3, ClientsKeep

LEMMA UnregisterKeeps ==
  ASSUME IInv, NEW u \in Users, NEW t \in Tokens, UnregisterPush(u, t)
  PROVE  IInv'
<1>1. /\ Change /\ UNCHANGED <<table, work, cur, delivered, tokenless, aborts>>
      /\ active' \subseteq active /\ inactive' \subseteq inactive
      /\ condemned' \subseteq condemned /\ raced' \subseteq raced
      /\ UNCHANGED <<paused, live, quiet>>
  BY DEF UnregisterPush
<1>2. /\ active' \subseteq Users \X Tokens /\ inactive' \subseteq Users \X Tokens
      /\ active' \cap inactive' = {}
      /\ condemned' \subseteq Users \X Tokens /\ raced' \subseteq Users \X Tokens
      /\ paused' \subseteq Users /\ live' \subseteq Tokens /\ quiet' \subseteq Notifs
  BY <1>1 DEF IInv, TypeOK
<1>. QED  BY <1>1, <1>2, ClientsKeep

LEMMA PauseKeeps ==
  ASSUME IInv, NEW u \in Users, SetPauseAll(u)
  PROVE  IInv'
<1>1. /\ Change /\ UNCHANGED <<table, work, cur, delivered, tokenless, aborts>>
      /\ UNCHANGED <<active, inactive, condemned, raced, live>>
      /\ paused' \subseteq paused \cup {u} /\ quiet' \subseteq quiet
  BY DEF SetPauseAll, registry
<1>2. /\ active' \subseteq Users \X Tokens /\ inactive' \subseteq Users \X Tokens
      /\ active' \cap inactive' = {}
      /\ condemned' \subseteq Users \X Tokens /\ raced' \subseteq Users \X Tokens
      /\ paused' \subseteq Users /\ live' \subseteq Tokens /\ quiet' \subseteq Notifs
  BY <1>1 DEF IInv, TypeOK
<1>. QED  BY <1>1, <1>2, ClientsKeep

LEMMA ReinstallKeeps ==
  ASSUME IInv, NEW t \in Tokens, Reinstall(t)
  PROVE  IInv'
<1>1. /\ Change /\ UNCHANGED <<table, work, cur, delivered, tokenless, aborts>>
      /\ UNCHANGED <<active, inactive, condemned, raced, paused, quiet>>
      /\ live' \subseteq live \cup {t}
  BY DEF Reinstall, registry
<1>2. /\ active' \subseteq Users \X Tokens /\ inactive' \subseteq Users \X Tokens
      /\ active' \cap inactive' = {}
      /\ condemned' \subseteq Users \X Tokens /\ raced' \subseteq Users \X Tokens
      /\ paused' \subseteq Users /\ live' \subseteq Tokens /\ quiet' \subseteq Notifs
  BY <1>1 DEF IInv, TypeOK
<1>. QED  BY <1>1, <1>2, ClientsKeep

-----------------------------------------------------------------------------
(* The worker.                                                             *)

(* The batch holds pending rows, each once, as they are now.               *)
LEMMA PollKeeps ==
  ASSUME IInv, Poll
  PROVE  IInv'
<1>0. PICK k \in 1..Batch : \E s \in [1..k -> DOMAIN rows] :
        /\ Due(k, s)
        /\ work' = [i \in 1..k |-> <<rows[s[i]], attempts[rows[s[i]]]>>]
  BY DEF Poll
<1>1. PICK s \in [1..k -> DOMAIN rows] :
        /\ Due(k, s)
        /\ work' = [i \in 1..k |-> <<rows[s[i]], attempts[rows[s[i]]]>>]
  BY <1>0
<1>2. /\ k \in Nat \ {0} /\ DOMAIN work' = 1..k
      /\ \A i \in 1..k : /\ work'[i] = <<rows[s[i]], attempts[rows[s[i]]]>>
                         /\ work'[i][1] = rows[s[i]]
                         /\ work'[i][2] = attempts[rows[s[i]]]
  BY <1>1, PushAssumption
<1>3. rows \in Seq(Notifs) /\ attempts \in [Notifs -> 0..MaxAttempts]
  BY DEF IInv, TypeOK
<1>4. \A i \in 1..k :
        /\ s[i] \in DOMAIN rows /\ rows[s[i]] \in Notifs
        /\ rows[s[i]] \notin sent /\ attempts[rows[s[i]]] \in 0..(MaxAttempts - 1)
  <2>1. TAKE i \in 1..k
  <2>2. s[i] \in DOMAIN rows /\ rows[s[i]] \in Notifs
    BY <1>3
  <2>3. Pending(rows[s[i]])
    BY <1>1 DEF Due
  <2>. QED  BY <1>3, <2>2, <2>3, PushAssumption DEF Pending
<1>5. \A i, j \in 1..k : s[i] = s[j] => i = j
  <2>1. TAKE i, j \in 1..k
  <2>2. /\ \A h \in 1..(i - 1) : s[h] < s[i]
        /\ \A h \in 1..(j - 1) : s[h] < s[j]
    BY <1>1 DEF Due
  <2>3. s[i] \in Nat /\ s[j] \in Nat
    BY <1>3, <1>4
  <2>. QED  BY <1>2, <2>2, <2>3
<1>6. TypeOK'
  <2>1. work' \in Seq(Entries)
    BY <1>1, <1>2, <1>4 DEF Entries
  <2>. QED  BY <2>1 DEF IInv, TypeOK, Entries, Poll, table, registry, clients
<1>7. RowsOnce'
  <2>1. \A i, j \in DOMAIN work' : work'[i][1] = work'[j][1] => i = j
    BY <1>2, <1>4, <1>5 DEF IInv, RowsOnce
  <2>. QED  BY <2>1 DEF IInv, RowsOnce, Poll, table
<1>8. BatchTrue'
  BY <1>2, <1>4 DEF BatchTrue, Poll, table
<1>9. work' # << >>
  BY <1>2
<1>10. cur = Idle /\ cur' = Idle
  BY DEF Poll, IInv, IdleBetween
<1>11. SendsCounted' /\ HopeIsFounded' /\ IdleBetween'
  BY <1>9, <1>10
     DEF IInv, SendsCounted, PastIt, HopeIsFounded, IdleBetween, Idle, Poll, table
<1>12. NoSilentLoss'
  BY DEF IInv, NoSilentLoss, Poll, table
<1>. QED  BY <1>6, <1>7, <1>8, <1>11, <1>12 DEF IInv

LEMMA LookKeeps ==
  ASSUME IInv, Look
  PROVE  IInv'
<1>. DEFINE ts == ActiveTokens(Recipient[This])
<1>1. /\ cur.at = "idle"
      /\ cur' = [Idle EXCEPT !.at = IF ts = {} THEN "empty" ELSE "send", !.todo = ts]
  BY DEF Look, WantsPush
<1>2. /\ cur'.at \in {"empty", "send"} /\ cur'.todo = ts /\ cur'.dead = {}
      /\ cur'.hope = FALSE /\ cur'.failed = FALSE
      /\ cur' \in [at : {"idle", "skip", "empty", "send"}, todo : SUBSET Tokens,
                   dead : SUBSET Tokens, hope : BOOLEAN, failed : BOOLEAN]
  <2>1. ts \subseteq Tokens
    BY DEF ActiveTokens
  <2>. HIDE DEF ts
  <2>. QED  BY <1>1, <2>1 DEF Idle
<1>3. TypeOK'
  BY <1>2 DEF IInv, TypeOK, Look, table, registry, clients
<1>4. RowsOnce' /\ BatchTrue' /\ IdleBetween' /\ NoSilentLoss'
  BY DEF IInv, RowsOnce, BatchTrue, IdleBetween, NoSilentLoss, Look, table
<1>5. HopeIsFounded'
  BY <1>2 DEF HopeIsFounded
<1>6. SendsCounted'
  <2>1. \A n \in Notifs, t \in Tokens :
          delivered[n][t] \in Nat /\ attempts[n] \in Nat /\ aborts \in Nat
    BY Counts DEF IInv
  <2>2. \A n \in Notifs, t \in Tokens : ~PastIt(n, t)
    BY <1>1 DEF PastIt
  <2>3. \A n \in Notifs, t \in Tokens : delivered[n][t] <= attempts[n] + aborts
    BY <2>1, <2>2 DEF IInv, SendsCounted
  <2>4. UNCHANGED <<delivered, attempts, aborts>>
    BY DEF Look, table
  <2>. QED  BY <2>1, <2>3, <2>4 DEF SendsCounted
<1>. QED  BY <1>3, <1>4, <1>5, <1>6 DEF IInv

LEMMA SendKeeps ==
  ASSUME IInv, NEW t \in Tokens, SendToToken(t)
  PROVE  IInv'
<1>1. /\ cur.at = "send" /\ t \in cur.todo /\ work # << >>
      /\ UNCHANGED <<table, active, inactive, condemned, clients, work, tokenless, aborts>>
  BY DEF SendToToken, IInv, IdleBetween, Idle
<1>2. This \in Notifs /\ attempts[This] \in 0..(MaxAttempts - 1)
  BY <1>1, HeadOfBatch DEF IInv
<1>3. PICK k \in {0, 1} :
        /\ delivered' = [delivered EXCEPT ![This][t] = @ + k]
        /\ \/ k = 1 /\ cur' = [cur EXCEPT !.todo = @ \ {t}, !.hope = TRUE]
           \/ cur' = [cur EXCEPT !.todo = @ \ {t}, !.dead = @ \cup {t}, !.failed = TRUE]
           \/ cur' = [cur EXCEPT !.todo = @ \ {t}, !.hope = TRUE, !.failed = TRUE]
  <2>1. CASE t \in live /\ Deliver(t, 1)
             /\ cur' = [cur EXCEPT !.todo = @ \ {t}, !.hope = TRUE]
    BY <2>1 DEF Deliver
  <2>2. CASE t \notin live /\ UNCHANGED delivered
             /\ cur' = [cur EXCEPT !.todo = @ \ {t}, !.dead = @ \cup {t}, !.failed = TRUE]
    <3>1. delivered \in [Notifs -> [Tokens -> Nat]]
      BY Counts DEF IInv, TypeOK
    <3>2. delivered = [delivered EXCEPT ![This][t] = @ + 0]
      BY <3>1, <1>2
    <3>. QED  BY <2>2, <3>2
  <2>3. CASE (\E k \in IF t \in live THEN {0, 1} ELSE {0} : Deliver(t, k))
             /\ cur' = [cur EXCEPT !.todo = @ \ {t}, !.hope = TRUE, !.failed = TRUE]
    BY <2>3 DEF Deliver
  <2>. QED  BY <2>1, <2>2, <2>3 DEF SendToToken
<1>4. cur \in [at : {"idle", "skip", "empty", "send"}, todo : SUBSET Tokens,
               dead : SUBSET Tokens, hope : BOOLEAN, failed : BOOLEAN]
  BY DEF IInv, TypeOK
<1>5. /\ cur'.at = "send" /\ cur'.todo = cur.todo \ {t}
      /\ cur' \in [at : {"idle", "skip", "empty", "send"}, todo : SUBSET Tokens,
                   dead : SUBSET Tokens, hope : BOOLEAN, failed : BOOLEAN]
      /\ cur'.failed = TRUE \/ k = 1
  <2>1. CASE k = 1 /\ cur' = [cur EXCEPT !.todo = @ \ {t}, !.hope = TRUE]
    BY <1>1, <1>4, <2>1
  <2>2. CASE cur' = [cur EXCEPT !.todo = @ \ {t}, !.dead = @ \cup {t}, !.failed = TRUE]
    BY <1>1, <1>4, <2>2
  <2>3. CASE cur' = [cur EXCEPT !.todo = @ \ {t}, !.hope = TRUE, !.failed = TRUE]
    BY <1>1, <1>4, <2>3
  <2>. QED  BY <1>3, <2>1, <2>2, <2>3
<1>6. /\ \A n \in Notifs, d \in Tokens : delivered[n][d] \in Nat
      /\ \A n \in Notifs : attempts[n] \in Nat
      /\ aborts \in Nat /\ aborts <= MaxAborts /\ k \in Nat
  BY Counts, <1>3 DEF IInv
<1>7. \A n \in Notifs, d \in Tokens :
        delivered'[n][d] = delivered[n][d] + (IF n = This /\ d = t THEN k ELSE 0)
  <2>. DEFINE R == 0..(MaxAttempts + MaxAborts)
  <2>1. delivered \in [Notifs -> [Tokens -> R]]
    BY DEF IInv, TypeOK
  <2>. HIDE DEF R
  <2>2. delivered' = [delivered EXCEPT ![This][t] = @ + k]
    BY <1>3
  <2>. QED  BY <1>2, <1>6, <2>1, <2>2
<1>8. ~PastIt(This, t)
  BY <1>1 DEF PastIt
<1>9. \A n \in Notifs, d \in Tokens : PastIt(n, d) => PastIt(n, d)'
  BY <1>1, <1>5 DEF PastIt, This
<1>10. PastIt(This, t)'
  BY <1>1, <1>5 DEF PastIt, This
<1>11. This' = This
  BY <1>1 DEF This
<1>12. SendsCounted'
  <2>. SUFFICES ASSUME NEW n \in Notifs, NEW d \in Tokens
                PROVE  delivered'[n][d] <= attempts[n] + aborts
                         + (IF PastIt(n, d)' THEN 1 ELSE 0)
    BY <1>1 DEF SendsCounted, table
  <2>1. delivered[n][d] <= attempts[n] + aborts + (IF PastIt(n, d) THEN 1 ELSE 0)
    BY DEF IInv, SendsCounted
  <2>2. CASE n = This /\ d = t
    <3>1. delivered'[n][d] = delivered[n][d] + k
      BY <1>7, <2>2
    <3>2. ~PastIt(n, d) /\ PastIt(n, d)'
      BY <1>8, <1>10, <1>11, <2>2
    <3>. QED  BY <1>6, <2>1, <3>1, <3>2
  <2>3. CASE ~(n = This /\ d = t)
    <3>1. delivered'[n][d] = delivered[n][d]
      BY <1>6, <1>7, <2>3
    <3>. QED  BY <1>6, <1>9, <2>1, <3>1
  <2>. QED  BY <2>2, <2>3

<1>13. delivered' \in [Notifs -> [Tokens -> 0..(MaxAttempts + MaxAborts)]]
  <2>1. \A n \in Notifs, d \in Tokens : delivered'[n][d] \in 0..(MaxAttempts + MaxAborts)
    <3>. SUFFICES ASSUME NEW n \in Notifs, NEW d \in Tokens
                  PROVE  delivered'[n][d] \in 0..(MaxAttempts + MaxAborts)
      OBVIOUS
    <3>1. delivered'[n][d] \in Nat
      BY <1>6, <1>7
    <3>2. attempts[n] + (IF PastIt(n, d)' THEN 1 ELSE 0) <= MaxAttempts
      <4>1. attempts[n] \in 0..MaxAttempts /\ MaxAttempts \in Nat
        BY PushAssumption DEF IInv, TypeOK
      <4>2. PastIt(n, d)' => n = This
        BY <1>11 DEF PastIt
      <4>. QED  BY <1>2, <4>1, <4>2
    <3>3. delivered'[n][d] <= attempts[n] + aborts + (IF PastIt(n, d)' THEN 1 ELSE 0)
      BY <1>1, <1>12 DEF SendsCounted, table
    <3>. QED  BY <1>6, <3>1, <3>2, <3>3, PushAssumption
  <2>2. delivered \in [Notifs -> [Tokens -> 0..(MaxAttempts + MaxAborts)]]
    BY DEF IInv, TypeOK
  <2>3. /\ delivered' = [n \in Notifs |-> delivered'[n]]
        /\ \A n \in Notifs : delivered'[n] = [d \in Tokens |-> delivered'[n][d]]
    BY <1>3, <2>2
  <2>. QED  BY <2>1, <2>3
<1>14. raced' \subseteq raced
  BY DEF SendToToken
<1>15. TypeOK'
  BY <1>1, <1>5, <1>13, <1>14 DEF IInv, TypeOK, table, clients
<1>16. RowsOnce' /\ BatchTrue' /\ IdleBetween'
  BY <1>1 DEF IInv, RowsOnce, BatchTrue, IdleBetween, table
<1>17. NoSilentLoss'
  BY <1>1, <1>6, <1>7 DEF IInv, NoSilentLoss, table
<1>18. HopeIsFounded'
  <2>1. CASE k = 1
    BY <1>2, <1>6, <1>7, <1>11, <2>1 DEF HopeIsFounded
  <2>2. CASE cur'.failed = TRUE
    BY <2>2 DEF HopeIsFounded
  <2>. QED  BY <1>5, <2>1, <2>2
<1>. QED  BY <1>12, <1>15, <1>16, <1>17, <1>18 DEF IInv

LEMMA DeactivateKeeps ==
  ASSUME IInv, NEW t \in Tokens, DeactivateToken(t)
  PROVE  IInv'
<1>1. /\ work # << >> /\ cur.at = "send"
      /\ UNCHANGED <<table, raced, clients, work, delivered, tokenless, aborts>>
  BY DEF DeactivateToken, IInv, IdleBetween, Idle
<1>2. cur' = [cur EXCEPT !.dead = @ \ {t}]
  BY DEF DeactivateToken
<1>3. /\ cur'.at = cur.at /\ cur'.todo = cur.todo
      /\ cur'.hope = cur.hope /\ cur'.failed = cur.failed
      /\ cur' \in [at : {"idle", "skip", "empty", "send"}, todo : SUBSET Tokens,
                   dead : SUBSET Tokens, hope : BOOLEAN, failed : BOOLEAN]
  BY <1>2 DEF IInv, TypeOK
<1>4. TypeOK'
  <2>1. /\ active' \subseteq Users \X Tokens /\ inactive' \subseteq Users \X Tokens
        /\ active' \cap inactive' = {} /\ condemned' \subseteq Users \X Tokens
    BY DEF IInv, TypeOK, DeactivateToken
  <2>. QED  BY <1>1, <1>3, <2>1 DEF IInv, TypeOK, table, clients
<1>5. RowsOnce' /\ BatchTrue' /\ IdleBetween' /\ NoSilentLoss'
  BY <1>1 DEF IInv, RowsOnce, BatchTrue, IdleBetween, NoSilentLoss, table
<1>6. SendsCounted' /\ HopeIsFounded'
  BY <1>1, <1>3 DEF IInv, SendsCounted, PastIt, This, HopeIsFounded, table
<1>. QED  BY <1>4, <1>5, <1>6 DEF IInv

(* What Mark and MarkUnsent do alike: the row has m attempts and the       *)
(* worker goes on to the next.                                             *)
Marked(m) ==
  /\ Finish
  /\ attempts' = [attempts EXCEPT ![This] = m]
  /\ attempts[This] <= m /\ (cur.at = "send" => m = attempts[This] + 1)
  /\ sent' = sent \/ sent' = sent \cup {This}
  /\ tokenless' \subseteq Notifs
  /\ error' \in [Notifs -> {"none", "failure", "all tokens dead", "user preference"}]
  /\ UNCHANGED <<rows, registry, clients, delivered, aborts>>

(* Whichever mark ends the work on a row, the rest of the batch is as it   *)
(* was read, and what this row was sent is under what it has counted.      *)
LEMMA MarkedKeeps ==
  ASSUME IInv, work # << >>, NEW m \in 0..MaxAttempts, Marked(m)
  PROVE  TypeOK' /\ RowsOnce' /\ BatchTrue' /\ IdleBetween' /\ SendsCounted' /\ HopeIsFounded'
<1>1. work' = Tail(work) /\ cur' = Idle
  BY DEF Marked, Finish
<1>2. /\ work' \in Seq(Entries)
      /\ \A i \in DOMAIN work' : /\ i + 1 \in DOMAIN work /\ work'[i] = work[i + 1]
                                 /\ work'[i][1] # This
      /\ \A i, j \in DOMAIN work' : work'[i][1] = work'[j][1] => i = j
  BY <1>1, RestOfBatch DEF IInv
<1>3. This \in Notifs /\ attempts[This] \in 0..(MaxAttempts - 1)
  BY HeadOfBatch DEF IInv
<1>4. attempts \in [Notifs -> 0..MaxAttempts]
  BY DEF IInv, TypeOK
<1>5. /\ attempts' \in [Notifs -> 0..MaxAttempts] /\ attempts'[This] = m
      /\ \A n \in Notifs : n # This => attempts'[n] = attempts[n]
  <2>1. attempts' = [attempts EXCEPT ![This] = m]
    BY DEF Marked
  <2>. QED  BY <1>3, <1>4, <2>1
<1>6. TypeOK'
  <2>1. sent' \subseteq Notifs
    BY <1>3 DEF IInv, TypeOK, Marked
  <2>2. cur' \in [at : {"idle", "skip", "empty", "send"}, todo : SUBSET Tokens,
                  dead : SUBSET Tokens, hope : BOOLEAN, failed : BOOLEAN]
    BY <1>1 DEF Idle
  <2>. QED  BY <1>2, <1>5, <2>1, <2>2 DEF IInv, TypeOK, Entries, Marked, registry, clients
<1>7. RowsOnce' /\ IdleBetween' /\ HopeIsFounded'
  BY <1>1, <1>2 DEF IInv, RowsOnce, IdleBetween, HopeIsFounded, Idle, Marked
<1>8. BatchTrue'
  <2>1. \A i \in DOMAIN work' : work'[i] \in Entries
    BY <1>2
  <2>2. \A i \in DOMAIN work' : work'[i][1] \in Notifs
    BY <2>1 DEF Entries
  <2>3. \A i \in DOMAIN work' :
          work'[i][1] \notin sent /\ work'[i][2] = attempts[work'[i][1]]
    BY <1>2 DEF IInv, BatchTrue
  <2>4. \A i \in DOMAIN work' : work'[i][1] \notin sent'
    BY <1>2, <2>3 DEF Marked
  <2>. QED  BY <1>2, <1>5, <2>2, <2>3, <2>4 DEF BatchTrue
<1>9. SendsCounted'
  <2>. SUFFICES ASSUME NEW n \in Notifs, NEW t \in Tokens
                PROVE  delivered[n][t] <= attempts'[n] + aborts
    <3>1. UNCHANGED <<delivered, aborts>>
      BY DEF Marked
    <3>2. \A n \in Notifs, t \in Tokens : ~PastIt(n, t)'
      BY <1>1 DEF PastIt, Idle
    <3>3. \A n \in Notifs : attempts'[n] \in Nat
      BY <1>5
    <3>4. aborts \in Nat
      BY Counts DEF IInv
    <3>. QED  BY <3>1, <3>2, <3>3, <3>4 DEF SendsCounted
  <2>1. /\ delivered[n][t] \in Nat /\ attempts[n] \in Nat /\ aborts \in Nat
        /\ attempts'[n] \in Nat /\ m \in Nat
    BY <1>5, Counts DEF IInv
  <2>2. delivered[n][t] <= attempts[n] + aborts + (IF PastIt(n, t) THEN 1 ELSE 0)
    BY DEF IInv, SendsCounted
  <2>3. CASE n = This
    <3>1. PastIt(n, t) => m = attempts[This] + 1
      BY DEF PastIt, Marked
    <3>2. attempts'[n] = m /\ attempts[n] <= m
      BY <1>5, <2>3 DEF Marked
    <3>. QED  BY <2>1, <2>2, <2>3, <3>1, <3>2
  <2>4. CASE n # This
    <3>1. ~PastIt(n, t)
      BY <2>4 DEF PastIt
    <3>2. attempts'[n] = attempts[n]
      BY <1>5, <2>4
    <3>. QED  BY <2>1, <2>2, <3>1, <3>2
  <2>. QED  BY <2>3, <2>4
<1>. QED  BY <1>6, <1>7, <1>8, <1>9

LEMMA MarkKeeps ==
  ASSUME IInv, Mark
  PROVE  IInv'
<1>1. cur.at = "send" /\ work # << >>
  <2>1. cur.at = "send"
    BY DEF Mark
  <2>. QED  BY <2>1 DEF IInv, IdleBetween, Idle
<1>. DEFINE m == attempts[This] + 1
            e == IF ~cur.hope THEN "all tokens dead"
                 ELSE IF cur.failed THEN "failure" ELSE "none"
<1>2. /\ This \in Notifs /\ This \notin sent
      /\ Head(work)[2] = attempts[This] /\ attempts[This] \in 0..(MaxAttempts - 1)
  BY <1>1, HeadOfBatch DEF IInv
<1>3. m \in 0..MaxAttempts /\ NextAttempts(Head(work)[2]) = m
  BY <1>2, PushAssumption DEF NextAttempts
<1>4. /\ attempts' = [attempts EXCEPT ![This] = m]
      /\ sent' = IF GivesUp(Head(work)[2]) THEN sent \cup {This} ELSE sent
      /\ error' = [error EXCEPT ![This] = e]
      /\ Finish /\ UNCHANGED <<rows, registry, clients, delivered, tokenless, aborts>>
  BY <1>3 DEF Mark
<1>5. GivesUp(Head(work)[2]) <=> ~cur.hope \/ ~cur.failed \/ m >= MaxAttempts
  BY <1>3 DEF GivesUp
<1>6. /\ e \in {"none", "failure", "all tokens dead", "user preference"}
      /\ e = "none" => cur.hope /\ ~cur.failed
      /\ e = "failure" => cur.hope /\ cur.failed
  OBVIOUS
<1>. HIDE DEF e
<1>7. /\ error' \in [Notifs -> {"none", "failure", "all tokens dead", "user preference"}]
      /\ error'[This] = e
      /\ \A n \in Notifs : n # This => error'[n] = error[n]
  BY <1>2, <1>4, <1>6 DEF IInv, TypeOK
<1>8. Marked(m)
  <2>1. tokenless' \subseteq Notifs
    BY <1>4 DEF IInv, TypeOK
  <2>2. attempts[This] <= m
    BY <1>2
  <2>3. sent' = sent \/ sent' = sent \cup {This}
    BY <1>4
  <2>4. UNCHANGED <<rows, registry, clients, delivered, aborts>> /\ Finish
    BY <1>4
  <2>. QED  BY <1>4, <1>7, <2>1, <2>2, <2>3, <2>4 DEF Marked
<1>9. attempts'[This] = m /\ \A n \in Notifs : n # This => attempts'[n] = attempts[n]
  BY <1>2, <1>4 DEF IInv, TypeOK
<1>. HIDE DEF m
<1>10. NoSilentLoss'
  <2>. SUFFICES ASSUME NEW n \in Notifs
                PROVE  /\ n \in sent' /\ error'[n] = "none" /\ n \notin tokenless
                            => \E t \in Tokens : delivered[n][t] > 0
                       /\ error'[n] = "failure" /\ n \in sent' => attempts'[n] = MaxAttempts
                       /\ n \notin sent' => attempts'[n] < MaxAttempts
    BY <1>4 DEF NoSilentLoss
  <2>1. CASE n = This
    <3>1. attempts'[n] = m /\ error'[n] = e
      BY <1>7, <1>9, <2>1
    <3>2. error'[n] = "none" => cur.hope /\ ~cur.failed
      BY <1>6, <3>1
    <3>3. error'[n] = "failure" => cur.hope /\ cur.failed
      BY <1>6, <3>1
    <3>4. n \in sent' <=> ~cur.hope \/ ~cur.failed \/ m >= MaxAttempts
      BY <1>2, <1>4, <1>5, <2>1
    <3>5. m \in Nat /\ m <= MaxAttempts /\ MaxAttempts \in Nat
      BY <1>3, PushAssumption
    <3>6. cur.hope /\ ~cur.failed => \E t \in Tokens : delivered[n][t] > 0
      BY <1>1, <2>1 DEF IInv, HopeIsFounded
    <3>. QED  BY <3>1, <3>2, <3>3, <3>4, <3>5, <3>6
  <2>2. CASE n # This
    <3>1. attempts'[n] = attempts[n] /\ error'[n] = error[n] /\ (n \in sent' <=> n \in sent)
      BY <1>4, <1>7, <1>9, <2>2
    <3>. QED  BY <3>1 DEF IInv, NoSilentLoss
  <2>. QED  BY <2>1, <2>2
<1>. QED  BY <1>1, <1>3, <1>8, <1>10, MarkedKeeps DEF IInv

LEMMA MarkUnsentKeeps ==
  ASSUME IInv, MarkUnsent
  PROVE  IInv'
<1>1. cur.at \in {"empty", "skip"} /\ work # << >>
  <2>1. cur.at \in {"empty", "skip"}
    BY DEF MarkUnsent
  <2>. QED  BY <2>1 DEF IInv, IdleBetween, Idle
<1>. DEFINE m == IF cur.at = "empty" THEN attempts[This] + 1 ELSE attempts[This]
            e == IF cur.at = "empty" THEN "none" ELSE "user preference"
<1>2. /\ This \in Notifs /\ attempts[This] \in 0..(MaxAttempts - 1)
  BY <1>1, HeadOfBatch DEF IInv
<1>3. m \in 0..MaxAttempts /\ attempts[This] <= m
  BY <1>2, PushAssumption
<1>4. /\ attempts' = [attempts EXCEPT ![This] = m]
      /\ error' = [error EXCEPT ![This] = e]
      /\ sent' = sent \cup {This}
      /\ tokenless' = IF cur.at = "empty" THEN tokenless \cup {This} ELSE tokenless
      /\ Finish /\ UNCHANGED <<rows, registry, clients, delivered, aborts>>
  BY <1>2 DEF MarkUnsent, IInv, TypeOK
<1>5. /\ error' \in [Notifs -> {"none", "failure", "all tokens dead", "user preference"}]
      /\ error'[This] # "failure" /\ (error'[This] = "none" => cur.at = "empty")
      /\ \A n \in Notifs : n # This => error'[n] = error[n]
  <2>1. /\ e \in {"none", "failure", "all tokens dead", "user preference"}
        /\ e # "failure" /\ (e = "none" => cur.at = "empty")
    OBVIOUS
  <2>. HIDE DEF e
  <2>. QED  BY <1>2, <1>4, <2>1 DEF IInv, TypeOK
<1>6. tokenless' \subseteq Notifs
  BY <1>2, <1>4 DEF IInv, TypeOK
<1>7. Marked(m)
  <2>. HIDE DEF m
  <2>. QED  BY <1>1, <1>3, <1>4, <1>5, <1>6 DEF Marked
<1>8. NoSilentLoss'
  <2>. HIDE DEF m
  <2>. SUFFICES ASSUME NEW n \in Notifs
                PROVE  /\ n \in sent' /\ error'[n] = "none" /\ n \notin tokenless'
                            => \E t \in Tokens : delivered[n][t] > 0
                       /\ error'[n] = "failure" /\ n \in sent' => attempts'[n] = MaxAttempts
                       /\ n \notin sent' => attempts'[n] < MaxAttempts
    BY <1>4 DEF NoSilentLoss
  <2>1. CASE n = This
    <3>1. error'[n] # "failure" /\ n \in sent'
      BY <1>4, <1>5, <2>1
    <3>2. error'[n] = "none" => n \in tokenless'
      BY <1>4, <1>5, <2>1
    <3>. QED  BY <3>1, <3>2
  <2>2. CASE n # This
    <3>1. error'[n] = error[n] /\ (n \in sent' <=> n \in sent)
      BY <1>4, <1>5, <2>2
    <3>3. attempts'[n] = attempts[n]
      <4>1. attempts' = [attempts EXCEPT ![This] = m]
        BY <1>4
      <4>. QED  BY <1>2, <2>2, <4>1 DEF IInv, TypeOK
    <3>2. n \notin tokenless' => n \notin tokenless
      BY <1>4
    <3>. QED  BY <3>1, <3>2, <3>3 DEF IInv, NoSilentLoss
  <2>. QED  BY <2>1, <2>2
<1>. HIDE DEF m
<1>. QED  BY <1>1, <1>3, <1>7, <1>8, MarkedKeeps DEF IInv

(* A pass that ends early forgets its batch; what it may have sent without *)
(* counting an attempt is under the count of such passes.                  *)
LEMMA AbortKeeps ==
  ASSUME IInv, Abort
  PROVE  IInv'
<1>1. /\ work' = << >> /\ cur' = Idle /\ aborts' = aborts + 1 /\ aborts < MaxAborts
      /\ UNCHANGED <<table, registry, clients, delivered, tokenless>>
  BY DEF Abort
<1>2. TypeOK'
  <2>1. aborts' \in 0..MaxAborts
    <3>1. aborts \in 0..MaxAborts
      BY DEF IInv, TypeOK
    <3>. QED  BY <1>1, <3>1, PushAssumption
  <2>2. cur' \in [at : {"idle", "skip", "empty", "send"}, todo : SUBSET Tokens,
                  dead : SUBSET Tokens, hope : BOOLEAN, failed : BOOLEAN]
    BY <1>1 DEF Idle
  <2>3. work' \in Seq(Entries)
    BY <1>1
  <2>. QED  BY <1>1, <2>1, <2>2, <2>3 DEF IInv, TypeOK, Entries, table, registry, clients
<1>3. DOMAIN work' = {}
  BY <1>1
<1>4. RowsOnce' /\ BatchTrue' /\ IdleBetween'
  BY <1>1, <1>3 DEF IInv, RowsOnce, BatchTrue, IdleBetween, table
<1>5. HopeIsFounded' /\ NoSilentLoss'
  BY <1>1 DEF IInv, HopeIsFounded, NoSilentLoss, Idle, table
<1>6. SendsCounted'
  <2>. SUFFICES ASSUME NEW n \in Notifs, NEW t \in Tokens
                PROVE  delivered[n][t] <= attempts[n] + (aborts + 1)
    <3>1. \A n \in Notifs, t \in Tokens : ~PastIt(n, t)'
      BY <1>1 DEF PastIt
    <3>2. UNCHANGED <<delivered, attempts>>
      BY <1>1 DEF table
    <3>3. \A n \in Notifs : attempts[n] \in Nat /\ aborts \in Nat
      BY Counts DEF IInv
    <3>. QED  BY <1>1, <3>1, <3>2, <3>3 DEF SendsCounted
  <2>1. delivered[n][t] \in Nat /\ attempts[n] \in Nat /\ aborts \in Nat
    BY Counts DEF IInv
  <2>2. delivered[n][t] <= attempts[n] + aborts + (IF PastIt(n, t) THEN 1 ELSE 0)
    BY DEF IInv, SendsCounted
  <2>. QED  BY <2>1, <2>2
<1>. QED  BY <1>2, <1>4, <1>5, <1>6 DEF IInv

-----------------------------------------------------------------------------
LEMMA InitHolds ==
  ASSUME Init
  PROVE  IInv
<1>. USE DEF Init
<1>1. TypeOK
  <2>1. \A k \in Nat : 0 \in 0..k
    OBVIOUS
  <2>2. /\ 0 \in 0..MaxAttempts /\ 0 \in 0..(MaxAttempts + MaxAborts)
        /\ 0 \in 0..MaxChanges /\ 0 \in 0..MaxAborts
    BY <2>1, PushAssumption
  <2>3. work \in Seq(Entries) /\ rows \in Seq(Notifs)
    OBVIOUS
  <2>. QED  BY <2>2, <2>3 DEF TypeOK, Idle, Entries
<1>2. DOMAIN rows = {} /\ DOMAIN work = {}
  OBVIOUS
<1>3. RowsOnce /\ BatchTrue /\ IdleBetween
  BY <1>2 DEF RowsOnce, BatchTrue, IdleBetween
<1>4. SendsCounted
  BY DEF SendsCounted, PastIt
<1>5. HopeIsFounded /\ NoSilentLoss
  BY PushAssumption DEF HopeIsFounded, NoSilentLoss, Idle
<1>. QED  BY <1>1, <1>3, <1>4, <1>5 DEF IInv

LEMMA StepHolds ==
  ASSUME IInv, [Next]_vars
  PROVE  IInv'
<1>1. CASE \E n \in Notifs : Notify(n)
  BY <1>1, NotifyKeeps
<1>2. CASE \E u \in Users, t \in Tokens : RegisterPush(u, t) \/ UnregisterPush(u, t)
  BY <1>2, RegisterKeeps, UnregisterKeeps
<1>3. CASE \E u \in Users : SetPauseAll(u)
  BY <1>3, PauseKeeps
<1>4. CASE \E t \in Tokens : Reinstall(t)
  BY <1>4, ReinstallKeeps
<1>5. CASE Work
  BY <1>5, PollKeeps, LookKeeps, MarkKeeps, MarkUnsentKeeps, SendKeeps,
     DeactivateKeeps DEF Work
<1>6. CASE Abort
  BY <1>6, AbortKeeps
<1>7. CASE UNCHANGED vars
  BY <1>7, Bystander DEF IInv, TypeOK, vars, table, registry, clients
<1>. QED  BY <1>1, <1>2, <1>3, <1>4, <1>5, <1>6, <1>7 DEF Next

(* The strengthening from which the theorems below follow: a batch tells   *)
(* the truth of its rows, and a pass still at work has a reason to hope.   *)
THEOREM Invariance == Spec => []IInv
<1>. QED  BY InitHolds, StepHolds, PTL DEF Spec

(* The worker's batch, the rows, the registry of tokens and FCM's          *)
(* deliveries are of their types in every behaviour; a device is sent a    *)
(* notification no more than MaxAttempts + MaxAborts times.                *)
THEOREM TypeCorrect == Spec => []TypeOK
<1>1. IInv => TypeOK
  BY DEF IInv
<1>. QED  BY <1>1, Invariance, PTL

(* What run_once marks sent without an error was delivered to a device, or *)
(* had none; what is not sent has attempts left.                           *)
THEOREM NothingLostSilently == Spec => []NoSilentLoss
<1>1. IInv => NoSilentLoss
  BY DEF IInv
<1>. QED  BY <1>1, Invariance, PTL

(* A device is sent a notification at most once for each counted attempt,  *)
(* the one under way, and each pass that ended early.                      *)
THEOREM RepeatsAreBounded == Spec => []DuplicatesBounded
<1>1. IInv => DuplicatesBounded
  <2>. SUFFICES ASSUME IInv, NEW n \in Notifs, NEW t \in Tokens
                PROVE  delivered[n][t] <= attempts[n] + aborts
                         + (IF work # << >> /\ This = n /\ cur.at = "send" THEN 1 ELSE 0)
    BY DEF DuplicatesBounded
  <2>1. delivered[n][t] \in Nat /\ attempts[n] \in Nat /\ aborts \in Nat
    BY Counts DEF IInv
  <2>2. delivered[n][t] <= attempts[n] + aborts + (IF PastIt(n, t) THEN 1 ELSE 0)
    BY DEF IInv, SendsCounted
  <2>3. PastIt(n, t) => work # << >> /\ This = n /\ cur.at = "send"
    BY DEF PastIt
  <2>. QED  BY <2>1, <2>2, <2>3
<1>. QED  BY <1>1, Invariance, PTL

(* deactivate_token puts a row out of use only on FCM's verdict on its     *)
(* token, or when the row was registered again while the answer was on its *)
(* way to the update.                                                      *)
THEOREM TokensKeptWithoutVerdict == Spec => []DeactivatedForAReason
<1>. USE DEF DeactivatedForAReason
<1>1. Init => DeactivatedForAReason
  BY DEF Init
<1>2. ASSUME DeactivatedForAReason, [Next]_vars
      PROVE  DeactivatedForAReason'
  <2>1. CASE \E u \in Users, t \in Tokens : RegisterPush(u, t)
    BY <1>2, <2>1 DEF RegisterPush
  <2>2. CASE \E u \in Users, t \in Tokens : UnregisterPush(u, t)
    BY <1>2, <2>2 DEF UnregisterPush
  <2>3. CASE \E t \in Tokens : SendToToken(t)
    BY <1>2, <2>3 DEF SendToToken
  <2>4. CASE \E t \in Tokens : DeactivateToken(t)
    BY <1>2, <2>4 DEF DeactivateToken
  <2>5. CASE UNCHANGED registry
    BY <1>2, <2>5 DEF registry
  <2>6. \/ \E u \in Users, t \in Tokens : RegisterPush(u, t) \/ UnregisterPush(u, t)
        \/ \E t \in Tokens : SendToToken(t) \/ DeactivateToken(t)
        \/ UNCHANGED registry
    BY <1>2 DEF Next, vars, Work, Notify, SetPauseAll, Reinstall, Poll, Look, Mark,
                MarkUnsent, Abort
  <2>. QED  BY <2>1, <2>2, <2>3, <2>4, <2>5, <2>6
<1>. QED  BY <1>1, <1>2, PTL DEF Spec

(* What is marked sent is closed: no later pass sends it or counts it      *)
(* again, and no attempt is ever uncounted, although every mark writes     *)
(* from a row that was read before the awaits (worker.rs: run_once).       *)
SentIsClosed ==
  [][/\ \A n \in sent : /\ n \in sent' /\ attempts'[n] = attempts[n]
                        /\ error'[n] = error[n] /\ delivered'[n] = delivered[n]
     /\ \A n \in Notifs : attempts[n] <= attempts'[n]]_vars

(* Whatever clients, FCM and aborted passes do: what was sent is closed.   *)
THEOREM SentStaysClosed == Spec => SentIsClosed
<1>. DEFINE Closed ==
       /\ \A n \in sent : /\ n \in sent' /\ attempts'[n] = attempts[n]
                          /\ error'[n] = error[n] /\ delivered'[n] = delivered[n]
       /\ \A n \in Notifs : attempts[n] <= attempts'[n]
<1>1. ASSUME IInv, Next PROVE Closed
  <2>1. TypeOK /\ BatchTrue /\ IdleBetween
    BY <1>1 DEF IInv
  <2>2. \A n \in Notifs : attempts[n] \in Nat
    BY <2>1, Counts
  <2>3. /\ sent \subseteq Notifs /\ DOMAIN attempts = Notifs /\ DOMAIN delivered = Notifs
        /\ \A e : \A n \in Notifs \ {This} : [error EXCEPT ![This] = e][n] = error[n]
    BY <2>1, Zenon DEF TypeOK
  <2>0. ASSUME UNCHANGED <<sent, attempts, error, delivered>> PROVE Closed
    BY <2>0, <2>2
  <2>4. CASE Mark \/ MarkUnsent
    <3>1. work # << >>
      <4>1. cur.at \in {"send", "empty", "skip"}
        BY <2>4, Zenon DEF Mark, MarkUnsent
      <4>. QED  BY <2>1, <4>1 DEF IdleBetween, Idle
    <3>2. This \in Notifs /\ This \notin sent /\ Head(work)[2] = attempts[This]
      BY <2>1, <3>1, HeadOfBatch
    <3>3. sent \subseteq sent' /\ delivered' = delivered
      BY <2>4, Zenon DEF Mark, MarkUnsent
    <3>4. attempts' = [attempts EXCEPT ![This] = attempts[This] + 1] \/ attempts' = attempts
      <4>1. CASE Mark
        BY <3>2, <4>1, Zenon DEF Mark, NextAttempts
      <4>2. CASE MarkUnsent /\ cur.at = "empty"
        BY <4>2, Zenon DEF MarkUnsent
      <4>3. CASE MarkUnsent /\ cur.at # "empty"
        <5>1. attempts' = [attempts EXCEPT ![This] = attempts[This]]
          BY <4>3, Zenon DEF MarkUnsent
        <5>2. attempts \in [Notifs -> 0..MaxAttempts]
          BY <2>1, Zenon DEF TypeOK
        <5>. QED  BY <5>1, <5>2
      <4>. QED  BY <2>4, <4>1, <4>2, <4>3
    <3>5. \E e : error' = [error EXCEPT ![This] = e]
      BY <2>4, Zenon DEF Mark, MarkUnsent
    <3>6. \A n \in Notifs \ {This} : error'[n] = error[n]
      BY <2>3, <3>5, Zenon
    <3>7. \A n \in Notifs \ {This} : attempts'[n] = attempts[n]
      BY <2>3, <3>4
    <3>8. attempts'[This] \in {attempts[This], attempts[This] + 1}
      BY <2>3, <3>2, <3>4
    <3>9. \A n \in Notifs : attempts[n] <= attempts'[n]
      BY <2>2, <3>2, <3>7, <3>8
    <3>. QED  BY <2>3, <3>2, <3>3, <3>6, <3>7, <3>9
  <2>5. ASSUME NEW t \in Tokens, SendToToken(t) PROVE Closed
    <3>1. work # << >> /\ UNCHANGED <<sent, attempts, error>>
      BY <2>1, <2>5 DEF SendToToken, IdleBetween, Idle, table
    <3>2. This \notin sent
      BY <2>1, <3>1, HeadOfBatch
    <3>3. \A n \in Notifs : n # This => delivered'[n] = delivered[n]
      BY <2>3, <2>5 DEF SendToToken, Deliver
    <3>. QED  BY <2>2, <2>3, <3>1, <3>2, <3>3
  <2>6. CASE \/ \E n \in Notifs : Notify(n)
             \/ \E u \in Users, t \in Tokens : RegisterPush(u, t) \/ UnregisterPush(u, t)
             \/ \E u \in Users : SetPauseAll(u)
             \/ \E t \in Tokens : Reinstall(t)
    <3>1. UNCHANGED <<sent, attempts, error, delivered>>
      BY <2>6 DEF Notify, RegisterPush, UnregisterPush, SetPauseAll, Reinstall, table
    <3>. QED  BY <2>0, <3>1
  <2>7. CASE Poll \/ Look \/ (\E t \in Tokens : DeactivateToken(t)) \/ Abort
    <3>1. UNCHANGED <<sent, attempts, error, delivered>>
      BY <2>7 DEF Poll, Look, DeactivateToken, Abort, table
    <3>. QED  BY <2>0, <3>1
  <2>. QED  BY <1>1, <2>4, <2>5, <2>6, <2>7 DEF Next, Work
<1>. QED  BY <1>1, Invariance, PTL DEF Spec, SentIsClosed

-----------------------------------------------------------------------------
(* A queue with retries.                                                   *)

Queued(n) == \E j \in DOMAIN rows : rows[j] = n

(* The worker's batch and the settled notifications are of the table.      *)
OnlyQueued ==
  /\ \A i \in DOMAIN work : Queued(work[i][1])
  /\ \A n \in sent : Queued(n)

LEMMA OnlyQueuedStays ==
  ASSUME IInv, OnlyQueued, [Next]_vars
  PROVE  OnlyQueued'
<1>1. TypeOK /\ RowsOnce /\ BatchTrue /\ IdleBetween
  BY DEF IInv
<1>2. rows \in Seq(Notifs)
  BY <1>1, Zenon DEF TypeOK
<1>3. CASE UNCHANGED <<rows, work, sent>>
  BY <1>3 DEF OnlyQueued, Queued
<1>4. ASSUME NEW n \in Notifs, Notify(n) PROVE OnlyQueued'
  <2>1. rows' = Append(rows, n) /\ UNCHANGED <<work, sent>>
    BY <1>4 DEF Notify
  <2>2. \A j \in DOMAIN rows : j \in DOMAIN rows' /\ rows'[j] = rows[j]
    BY <1>2, <2>1
  <2>3. \A m : Queued(m) => Queued(m)'
    BY <2>2 DEF Queued
  <2>. QED  BY <2>1, <2>3 DEF OnlyQueued
<1>5. CASE Poll
  <2>1. UNCHANGED <<rows, sent>>
    BY <1>5 DEF Poll, table
  <2>2. PICK k \in 1..Batch : \E s \in [1..k -> DOMAIN rows] :
          work' = [i \in 1..k |-> <<rows[s[i]], attempts[rows[s[i]]]>>]
    BY <1>5 DEF Poll
  <2>3. PICK s \in [1..k -> DOMAIN rows] :
          work' = [i \in 1..k |-> <<rows[s[i]], attempts[rows[s[i]]]>>]
    BY <2>2
  <2>4. \A i \in DOMAIN work' : s[i] \in DOMAIN rows /\ work'[i][1] = rows[s[i]]
    BY <2>3
  <2>. QED  BY <2>1, <2>4 DEF OnlyQueued, Queued
<1>6. CASE Mark \/ MarkUnsent
  <2>1. work # << >>
    <3>1. cur.at \in {"send", "empty", "skip"}
      BY <1>6, Zenon DEF Mark, MarkUnsent
    <3>. QED  BY <1>1, <3>1 DEF IdleBetween, Idle
  <2>2. rows' = rows /\ work' = Tail(work) /\ sent' \subseteq sent \cup {This}
    BY <1>6, Zenon DEF Mark, MarkUnsent, Finish
  <2>3. work \in Seq(Entries)
    BY <1>1, Zenon DEF TypeOK, Entries
  <2>4. 1 \in DOMAIN work /\ This = work[1][1]
    BY <2>1, <2>3, HeadAndTail DEF This
  <2>5. \A i \in DOMAIN Tail(work) : i + 1 \in DOMAIN work /\ Tail(work)[i] = work[i + 1]
    BY <1>1, <2>1, RestOfBatch
  <2>. QED  BY <2>2, <2>4, <2>5 DEF OnlyQueued, Queued
<1>7. CASE Abort
  <2>1. work' = << >> /\ UNCHANGED <<rows, sent>>
    BY <1>7 DEF Abort, table
  <2>. QED  BY <2>1 DEF OnlyQueued, Queued
<1>8. ASSUME \/ \E u \in Users, t \in Tokens : RegisterPush(u, t) \/ UnregisterPush(u, t)
             \/ \E u \in Users : SetPauseAll(u)
             \/ \E t \in Tokens : Reinstall(t) \/ SendToToken(t) \/ DeactivateToken(t)
             \/ Look
      PROVE  UNCHANGED <<rows, work, sent>>
  BY <1>8, Zenon DEF RegisterPush, UnregisterPush, SetPauseAll, Reinstall, SendToToken,
                     DeactivateToken, Look, table
<1>9. CASE UNCHANGED vars
  BY <1>3, <1>9 DEF vars, table
<1>. QED  BY <1>3, <1>4, <1>5, <1>6, <1>7, <1>8, <1>9 DEF Next, Work

(* Nothing happens to the queue.                                           *)
LEMMA QueueRests ==
  ASSUME UNCHANGED <<rows, sent, attempts, error, delivered, tokenless>>
  PROVE  UNCHANGED <<Fates, attempts, Reached>>
<1>1. \A n : Fate(n)' = Fate(n)
  BY DEF Fate
<1>2. Reached' = Reached
  BY DEF Reached
<1>. QED  BY <1>1, <1>2 DEF Fates

(* A mark is one try of the first notification of the batch, or skips it.  *)
LEMMA MarkTries ==
  ASSUME IInv, OnlyQueued, Mark \/ MarkUnsent, NEW n \in Notifs, n = This
  PROVE  Queue!RetryNext
<1>1. TypeOK /\ BatchTrue /\ IdleBetween
  BY DEF IInv
<1>2. work # << >>
  <2>1. cur.at \in {"send", "empty", "skip"}
    BY Zenon DEF Mark, MarkUnsent
  <2>. QED  BY <1>1, <2>1 DEF IdleBetween, Idle
<1>3. /\ n \notin sent /\ Head(work)[2] = attempts[n]
      /\ attempts[n] \in 0..(MaxAttempts - 1) /\ MaxAttempts \in Nat
  BY <1>1, <1>2, HeadOfBatch, PushAssumption
<1>4. /\ DOMAIN attempts = Notifs /\ DOMAIN error = Notifs
      /\ attempts \in [Notifs -> 0..MaxAttempts]
  BY <1>1, Zenon DEF TypeOK
<1>5. Queued(n)
  <2>1. work \in Seq(Entries)
    BY <1>1, Zenon DEF TypeOK, Entries
  <2>2. 1 \in DOMAIN work /\ This = work[1][1]
    BY <1>2, <2>1, HeadAndTail DEF This
  <2>. QED  BY <2>2 DEF OnlyQueued
<1>6. Fates[n] = "pending"
  BY <1>3, <1>5 DEF Fates, Fate, Queued
<1>7. UNCHANGED <<rows, delivered>>
  BY Zenon DEF Mark, MarkUnsent
<1>8. Reached' = Reached
  BY <1>7 DEF Reached
<1>9. /\ \E e : error' = [error EXCEPT ![n] = e]
      /\ sent \subseteq sent' /\ sent' \subseteq sent \cup {n}
      /\ tokenless \subseteq tokenless' /\ tokenless' \subseteq tokenless \cup {n}
  BY Zenon DEF Mark, MarkUnsent
<1>10. ASSUME NEW m \in Notifs, m # n
       PROVE  Fate(m)' = Fate(m)
  <2>1. error'[m] = error[m]
    <3>1. PICK e : error' = [error EXCEPT ![n] = e]
      BY <1>9
    <3>. QED  BY <1>4, <1>10, <3>1
  <2>. QED  BY <1>7, <1>9, <1>10, <2>1 DEF Fate
<1>11. Fates' = [Fates EXCEPT ![n] = Fate(n)']
  BY <1>3, <1>10 DEF Fates
<1>12. ASSUME NEW to, Fate(n)' = to
       PROVE  Queue!Become(n, to)
  BY <1>11, <1>12 DEF Queue!Become
<1>13. Queued(n)'
  BY <1>5, <1>7 DEF Queued
<1>14. CASE Mark
  <2>1. attempts' = [attempts EXCEPT ![n] = attempts[n] + 1]
    BY <1>3, <1>14, Zenon DEF Mark, NextAttempts
  <2>2. /\ sent' = IF GivesUp(attempts[n]) THEN sent \cup {n} ELSE sent
        /\ UNCHANGED tokenless
    BY <1>3, <1>14, Zenon DEF Mark
  <2>3. PICK e : /\ error' = [error EXCEPT ![n] = e]
                 /\ cur.hope /\ cur.failed => e = "failure"
                 /\ cur.hope /\ ~cur.failed => e = "none"
                 /\ ~cur.hope => e # "failure" /\ e # "none"
    <3>1. CASE cur.hope /\ cur.failed
      <4>1. error' = [error EXCEPT ![n] = "failure"]
        BY <1>14, <3>1, Zenon DEF Mark
      <4>. QED  BY <3>1, <4>1, Zenon
    <3>2. CASE cur.hope /\ ~cur.failed
      <4>1. error' = [error EXCEPT ![n] = "none"]
        BY <1>14, <3>2, Zenon DEF Mark
      <4>. QED  BY <3>2, <4>1, Zenon
    <3>3. CASE ~cur.hope
      <4>1. error' = [error EXCEPT ![n] = "all tokens dead"]
        BY <1>14, <3>3, Zenon DEF Mark
      <4>2. "all tokens dead" # "failure" /\ "all tokens dead" # "none"
        BY Zenon
      <4>. QED  BY <3>3, <4>1, <4>2, Zenon
    <3>. QED  BY <3>1, <3>2, <3>3
  <2>4. error'[n] = e
    BY <1>3, <1>4, <2>3
  <2>5. CASE ~cur.hope
    <3>1. n \in sent'
      BY <2>2, <2>5 DEF GivesUp
    <3>2. Fate(n)' = "dropped"
      BY <1>13, <2>3, <2>4, <2>5, <3>1 DEF Fate, Queued
    <3>3. Queue!Try(n)
      BY <1>3, <1>6, <1>8, <1>12, <2>1, <3>2 DEF Queue!Try
    <3>. QED  BY <1>3, <3>3 DEF Queue!RetryNext
  <2>6. CASE cur.hope /\ ~cur.failed
    <3>1. n \in sent'
      BY <2>2, <2>6 DEF GivesUp
    <3>2. Fate(n)' \in {"done", "dropped"}
      BY <1>13, <2>3, <2>4, <2>6, <3>1 DEF Fate, Queued
    <3>3. n \in Reached
      <4>1. cur.at = "send"
        BY <1>14, Zenon DEF Mark
      <4>. QED  BY <1>3, <2>6, <4>1 DEF IInv, HopeIsFounded, Reached
    <3>4. Queue!Try(n)
      BY <1>3, <1>6, <1>8, <1>12, <2>1, <3>2, <3>3 DEF Queue!Try
    <3>. QED  BY <1>3, <3>4 DEF Queue!RetryNext
  <2>7. CASE cur.hope /\ cur.failed
    <3>1. n \in sent' <=> attempts[n] + 1 >= MaxAttempts
      BY <1>3, <2>2, <2>7 DEF GivesUp, NextAttempts
    <3>2. Fate(n)' = IF attempts[n] + 1 >= MaxAttempts THEN "spent" ELSE "pending"
      BY <1>13, <2>3, <2>4, <2>7, <3>1 DEF Fate, Queued
    <3>3. Queue!Try(n)
      BY <1>3, <1>6, <1>8, <1>12, <2>1, <3>2 DEF Queue!Try
    <3>. QED  BY <1>3, <3>3 DEF Queue!RetryNext
  <2>. QED  BY <2>5, <2>6, <2>7
<1>15. CASE MarkUnsent
  <2>1. n \in sent'
    BY <1>15, Zenon DEF MarkUnsent
  <2>2. PICK e : /\ error' = [error EXCEPT ![n] = e] /\ e # "failure"
                 /\ e = "none" => cur.at = "empty"
    BY <1>15, Zenon DEF MarkUnsent
  <2>3. error'[n] = e
    BY <1>3, <1>4, <2>2
  <2>4. CASE cur.at = "empty"
    <3>1. attempts' = [attempts EXCEPT ![n] = attempts[n] + 1] /\ n \in tokenless'
      BY <1>15, <2>4, Zenon DEF MarkUnsent
    <3>2. Fate(n)' = "dropped"
      BY <1>13, <2>1, <2>2, <2>3, <3>1 DEF Fate, Queued
    <3>3. Queue!Try(n)
      BY <1>3, <1>6, <1>8, <1>12, <3>1, <3>2 DEF Queue!Try
    <3>. QED  BY <1>3, <3>3 DEF Queue!RetryNext
  <2>5. CASE cur.at # "empty"
    <3>1. attempts' = [attempts EXCEPT ![n] = attempts[n]]
      BY <1>15, <2>5, Zenon DEF MarkUnsent
    <3>2. attempts' = attempts
      BY <1>4, <3>1
    <3>3. Fate(n)' = "dropped"
      BY <1>13, <2>1, <2>2, <2>3, <2>5 DEF Fate, Queued
    <3>4. Queue!Skip(n)
      BY <1>6, <1>8, <1>12, <3>2, <3>3 DEF Queue!Skip
    <3>. QED  BY <1>3, <3>4 DEF Queue!RetryNext
  <2>. QED  BY <2>4, <2>5
<1>. QED  BY <1>14, <1>15

LEMMA SendReaches ==
  ASSUME IInv, OnlyQueued, NEW t \in Tokens, SendToToken(t)
  PROVE  [Queue!RetryNext]_<<Fates, attempts, Reached>>
<1>1. TypeOK /\ BatchTrue /\ IdleBetween
  BY DEF IInv
<1>2. work # << >> /\ UNCHANGED <<rows, sent, attempts, error, tokenless>>
  BY <1>1 DEF SendToToken, IdleBetween, Idle, table
<1>3. This \in Notifs /\ This \notin sent
  BY <1>1, <1>2, HeadOfBatch
<1>4. Queued(This)
  <2>1. work \in Seq(Entries)
    BY <1>1, Zenon DEF TypeOK, Entries
  <2>2. 1 \in DOMAIN work /\ This = work[1][1]
    BY <1>2, <2>1, HeadAndTail DEF This
  <2>. QED  BY <2>2 DEF OnlyQueued
<1>5. Fates[This] = "pending"
  BY <1>3, <1>4 DEF Fates, Fate, Queued
<1>6. Fates' = Fates
  <2>1. \A n : Fate(n)' = Fate(n)
    BY <1>2 DEF Fate
  <2>. QED  BY <2>1 DEF Fates
<1>7. \E k \in {0, 1} : delivered' = [delivered EXCEPT ![This] = [delivered[This] EXCEPT ![t] = delivered[This][t] + k]]
      \/ delivered' = delivered
  BY DEF SendToToken, Deliver
<1>8. PICK k \in {0, 1} : \/ delivered' = delivered
                          \/ delivered' = [delivered EXCEPT ![This] =
                               [delivered[This] EXCEPT ![t] = delivered[This][t] + k]]
  BY <1>7
<1>9. /\ DOMAIN delivered = Notifs /\ DOMAIN delivered[This] = Tokens
      /\ \A u \in Tokens : delivered[This][u] \in Nat
  <2>1. delivered \in [Notifs -> [Tokens -> 0..(MaxAttempts + MaxAborts)]]
    BY <1>1, Zenon DEF TypeOK
  <2>. QED  BY <1>1, <1>3, <2>1, Counts
<1>10. \A n \in Notifs : n # This => delivered'[n] = delivered[n]
  BY <1>8, <1>9
<1>11. \A u \in Tokens : delivered[This][u] > 0 => delivered'[This][u] > 0
  BY <1>3, <1>8, <1>9
<1>12. Reached' = Reached \/ Reached' = Reached \cup {This}
  BY <1>3, <1>10, <1>11 DEF Reached
<1>13. CASE Reached' = Reached \cup {This}
  <2>1. Queue!Reach(This)
    BY <1>2, <1>5, <1>6, <1>13 DEF Queue!Reach
  <2>. QED  BY <1>3, <2>1 DEF Queue!RetryNext
<1>. QED  BY <1>2, <1>6, <1>12, <1>13

LEMMA NotifySubmits ==
  ASSUME IInv, OnlyQueued, NEW n \in Notifs, Notify(n)
  PROVE  Queue!RetryNext
<1>1. rows \in Seq(Notifs)
  BY Zenon DEF IInv, TypeOK
<1>2. /\ \A i \in DOMAIN rows : rows[i] # n
      /\ rows' = Append(rows, n) /\ UNCHANGED <<sent, attempts, error, delivered, tokenless>>
  BY DEF Notify
<1>3. /\ DOMAIN rows = 1..Len(rows) /\ DOMAIN rows' = 1..(Len(rows) + 1)
      /\ \A i \in 1..Len(rows) : rows'[i] = rows[i]
      /\ rows'[Len(rows) + 1] = n /\ Len(rows) + 1 \in DOMAIN rows'
  BY <1>1, <1>2
<1>4. n \notin sent
  BY <1>2 DEF OnlyQueued, Queued
<1>5. Fates[n] = "none" /\ Fate(n)' = "pending"
  BY <1>2, <1>3, <1>4 DEF Fates, Fate
<1>6. ASSUME NEW m \in Notifs, m # n
      PROVE  Fate(m)' = Fate(m)
  <2>1. (\A i \in DOMAIN rows' : rows'[i] # m) <=> (\A i \in DOMAIN rows : rows[i] # m)
    <3>1. \A i \in DOMAIN rows' : i \in DOMAIN rows \/ i = Len(rows) + 1
      BY <1>3
    <3>. QED  BY <1>3, <1>6, <3>1
  <2>. QED  BY <1>2, <2>1 DEF Fate
<1>7. Fates' = [Fates EXCEPT ![n] = "pending"]
  BY <1>5, <1>6 DEF Fates
<1>8. Reached' = Reached
  BY <1>2 DEF Reached
<1>9. Queue!Submit(n)
  BY <1>2, <1>5, <1>7, <1>8 DEF Queue!Submit, Queue!Become
<1>. QED  BY <1>9 DEF Queue!RetryNext

(* Every step of the push worker and its clients is a step of RetryQueue   *)
(* or a stutter.                                                           *)
LEMMA RetryStep ==
  ASSUME IInv, OnlyQueued, [Next]_vars
  PROVE  [Queue!RetryNext]_<<Fates, attempts, Reached>>
<1>1. CASE Mark \/ MarkUnsent
  <2>1. work # << >>
    <3>1. cur.at \in {"send", "empty", "skip"}
      BY <1>1, Zenon DEF Mark, MarkUnsent
    <3>. QED  BY <3>1 DEF IInv, IdleBetween, Idle
  <2>2. This \in Notifs
    BY <2>1, HeadOfBatch DEF IInv
  <2>. QED  BY <1>1, <2>2, MarkTries
<1>2. ASSUME NEW t \in Tokens, SendToToken(t)
      PROVE  [Queue!RetryNext]_<<Fates, attempts, Reached>>
  BY <1>2, SendReaches
<1>3. ASSUME NEW n \in Notifs, Notify(n) PROVE Queue!RetryNext
  BY <1>3, NotifySubmits
<1>4. ASSUME \/ \E u \in Users, t \in Tokens : RegisterPush(u, t) \/ UnregisterPush(u, t)
             \/ \E u \in Users : SetPauseAll(u)
             \/ \E t \in Tokens : Reinstall(t) \/ DeactivateToken(t)
             \/ Poll \/ Look \/ Abort \/ UNCHANGED vars
      PROVE  UNCHANGED <<Fates, attempts, Reached>>
  <2>1. UNCHANGED <<rows, sent, attempts, error, delivered, tokenless>>
    BY <1>4 DEF RegisterPush, UnregisterPush, SetPauseAll, Reinstall, DeactivateToken,
                Poll, Look, Abort, vars, table
  <2>. QED  BY <2>1, QueueRests
<1>. QED  BY <1>1, <1>2, <1>3, <1>4 DEF Next, Work

(* For any notifications, devices, attempts and aborted passes, the push   *)
(* worker implements the queue with retries: no mark counts a try of a     *)
(* notification that is settled, and none is done that reached no device.  *)
THEOREM PushImplementsRetryQueue == Spec => ImplementsRetryQueue
<1>1. Init => OnlyQueued
  BY DEF Init, OnlyQueued
<1>2. Init => Queue!RetryInit
  <2>. SUFFICES ASSUME Init PROVE Queue!RetryInit
    OBVIOUS
  <2>1. /\ rows = << >> /\ attempts = [n \in Notifs |-> 0]
        /\ delivered = [n \in Notifs |-> [t \in Tokens |-> 0]]
    BY DEF Init
  <2>2. Fates = [n \in Notifs |-> "none"] /\ Reached = {}
    BY <2>1 DEF Fates, Fate, Reached
  <2>3. {} \in SUBSET Notifs
    OBVIOUS
  <2>. QED  BY <2>1, <2>2, <2>3 DEF Queue!RetryInit
<1>3. IInv /\ OnlyQueued /\ [Next]_vars =>
        OnlyQueued' /\ [Queue!RetryNext]_<<Fates, attempts, Reached>>
  BY OnlyQueuedStays, RetryStep
<1>4. [Queue!RetryNext]_<<Fates, attempts, Reached>> => [Queue!RetryNext]_Queue!queue
  BY DEF Queue!queue
<1>. QED  BY <1>1, <1>2, <1>3, <1>4, Invariance, PTL
          DEF Spec, ImplementsRetryQueue, Queue!RetrySpec
===============================================================================
