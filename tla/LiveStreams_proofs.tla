-------------------------- MODULE LiveStreams_proofs --------------------------
(***************************************************************************)
(* What holds of live streams for any streams, users, connections and      *)
(* chunks: the history that tasks, chunks and outboxes keep together, and  *)
(* the properties of LiveStreams that follow from it.                      *)
(***************************************************************************)
EXTENDS LiveStreams, FiniteSetTheorems, TLAPS

Kinds == {"create", "chunk", "end"}
Pcs == {"job", "pin", "fanout", "send", "join", "close", "done", "refused", "cut"}

(* What a request can be at, by its kind.                                  *)
KindsOK ==
  \A t \in DOMAIN tasks : LET r == tasks[t] IN
    /\ r.kind = "chunk" <=> r.seq # 0
    /\ r.kind = "chunk" => r.pc \notin {"join", "close"}
    /\ r.kind # "chunk" => r.pc # "pin"
    /\ r.kind = "create" => r.by = Host[r.s]
    /\ r.pc = "join" => r.kind = "create"

Stored(t, s, q) ==
  /\ t \in DOMAIN tasks
  /\ tasks[t].kind = "chunk" /\ tasks[t].s = s /\ tasks[t].seq = q
  /\ tasks[t].pc \in {"pin", "fanout", "send", "done", "cut"}

(* A chunk row names the task that stored it, and only that one goes on.   *)
StorersOK ==
  /\ \A t \in DOMAIN tasks : LET r == tasks[t] IN
       r.kind = "chunk" /\ r.pc \in {"pin", "fanout", "send"} => chunks[r.s][r.seq] = t
  /\ \A s \in Rooms, q \in Seqs : chunks[s][q] # 0 => Stored(chunks[s][q], s, q)
  /\ \A s \in Rooms : first[s] # 0 => chunks[s][first[s]] # 0

(* Whoever has been told of a chunk is not among those still to be told.   *)
ToldOK ==
  \A c \in Conns : \A i \in DOMAIN outbox[c] : LET m == outbox[c][i] IN
    m[2] # 0 => /\ Storer(m) # 0
                /\ tasks[Storer(m)].pc \in {"send", "done", "cut"}
                /\ Owner[c] \notin tasks[Storer(m)].to

(* A socket's earlier requests are over when it makes another.             *)
OneAtATime ==
  \A t, u \in DOMAIN tasks :
    t < u /\ tasks[t].via = tasks[u].via /\ tasks[t].via \in Conns => Finished(t)

HistoryIInv == TypeOK /\ KindsOK /\ StorersOK /\ ToldOK /\ OneAtATime /\ ChunkOnce /\ WsInOrder

(* Who is counted among an audience has a connection.                      *)
AudienceOnline == \A m \in audience : Online(m[2])

RoomsIInv == AudienceOnline /\ AudienceKept /\ RoomsHoldListeners

-----------------------------------------------------------------------------
(* Types.                                                                  *)

(* What a step of a request changes of it.                                 *)
LEMMA StepFields ==
  ASSUME tasks \in Seq(Task), NEW t \in DOMAIN tasks, NEW pc \in Pcs,
         NEW to \in SUBSET Users, Step(t, pc, to)
  PROVE  /\ tasks' \in Seq(Task) /\ Len(tasks') = Len(tasks) /\ DOMAIN tasks' = DOMAIN tasks
         /\ \A x \in DOMAIN tasks : x # t => tasks'[x] = tasks[x]
         /\ tasks'[t].pc = pc /\ tasks'[t].to = to
         /\ tasks'[t].kind = tasks[t].kind /\ tasks'[t].s = tasks[t].s
         /\ tasks'[t].by = tasks[t].by /\ tasks'[t].via = tasks[t].via
         /\ tasks'[t].seq = tasks[t].seq
<1>1. tasks[t] \in Task
  OBVIOUS
<1>2. [[tasks[t] EXCEPT !.pc = pc] EXCEPT !.to = to] \in Task
  BY <1>1 DEF Task, Pcs
<1>3. tasks' = [tasks EXCEPT ![t] = [[tasks[t] EXCEPT !.pc = pc] EXCEPT !.to = to]]
  BY DEF Step
<1>4. tasks' \in Seq(Task) /\ Len(tasks') = Len(tasks) /\ DOMAIN tasks' = DOMAIN tasks
  BY <1>2, <1>3
<1> QED
  BY <1>1, <1>3, <1>4 DEF Task

Made(k, s, u, via, q) ==
  [kind |-> k, s |-> s, by |-> u, via |-> via, seq |-> q, pc |-> "job", to |-> {}]

(* What a request adds.                                                    *)
LEMMA StartAdds ==
  ASSUME tasks \in Seq(Task), NEW k \in Kinds, NEW s \in Rooms, NEW u \in Users,
         NEW via \in Conns \cup {"rest"}, NEW q \in Seqs \cup {0}, Start(k, s, u, via, q)
  PROVE  /\ tasks' = Append(tasks, Made(k, s, u, via, q)) /\ Made(k, s, u, via, q) \in Task
         /\ Len(tasks) + 1 <= MaxTasks
<1>1. Len(tasks) \in Nat
  OBVIOUS
<1> QED
  BY <1>1, LiveAssumption DEF Start, Made, Task, Kinds

LEMMA Appended ==
  ASSUME tasks \in Seq(Task), NEW r \in Task, tasks' = Append(tasks, r)
  PROVE  /\ tasks' \in Seq(Task) /\ Len(tasks') = Len(tasks) + 1
         /\ \A x \in DOMAIN tasks : x \in DOMAIN tasks' /\ tasks'[x] = tasks[x] /\ x # Len(tasks')
         /\ \A x \in DOMAIN tasks' : x \in DOMAIN tasks \/ (x = Len(tasks') /\ tasks'[x] = r)
OBVIOUS

LEMMA InitTypes == Init => TypeOK
<1> SUFFICES ASSUME Init PROVE TypeOK
  OBVIOUS
<1>1. jobs = << >>
  <2>1. jobs = SetToSeq({})
    BY DEF Init, PinningInit, PinnedInit
  <2>2. Cardinality({}) = 0
    BY FS_EmptySet
  <2>3. << >> \in [1..0 -> {}] /\ IsInjective(<< >>)
    BY DEF IsInjective
  <2>4. \A f \in [1..0 -> {}] : f = << >>
    OBVIOUS
  <2>5. jobs \in [1..0 -> {}]
    BY <2>1, <2>2, <2>3 DEF SetToSeq
  <2> QED
    BY <2>4, <2>5
<1>2. PinningTypeOK
  <2>1. 0 \in 0..MaxAttempts
    BY PinningAssumption
  <2>2. /\ status = [c \in Cids |-> "none"] /\ attempts = [c \in Cids |-> 0]
        /\ work = << >> /\ answer = "none" /\ remote = {}
    BY DEF Init, PinningInit, PinnedInit
  <2> QED
    BY <1>1, <2>1, <2>2 DEF PinningTypeOK
<1>3. tasks \in Seq(Task) /\ Len(tasks) <= MaxTasks /\ DOMAIN tasks = {}
  BY LiveAssumption DEF Init
<1> QED
  BY <1>2, <1>3, LiveAssumption DEF Init, TypeOK, HubInit

LEMMA EnqueueTypes ==
  ASSUME PinningTypeOK, NEW c \in Cids, Enqueue(c)
  PROVE  PinningTypeOK' /\ status'[c] # "none"
         /\ \A d \in Cids : status[d] # "none" => status'[d] = status[d]
BY DEF PinningTypeOK, Enqueue, pinWorker

LEMMA RequestTypes ==
  ASSUME TypeOK, NEW k \in Kinds, NEW s \in Rooms, NEW u \in Users,
         NEW via \in Conns \cup {"rest"}, NEW q \in Seqs \cup {0}, Start(k, s, u, via, q)
  PROVE  TypeOK'
<1> DEFINE r == Made(k, s, u, via, q)
<1>a. tasks \in Seq(Task) /\ r \in Task /\ tasks' = Append(tasks, r) /\ Len(tasks) + 1 <= MaxTasks
  BY StartAdds DEF TypeOK
<1>b. r.pc = "job" /\ r.to = {}
  BY DEF Made
<1> HIDE DEF r
<1>1. \A t \in DOMAIN tasks' : tasks'[t].pc = "send" <=> tasks'[t].to # {}
  BY <1>a, <1>b, Appended DEF TypeOK
<1>2. tasks' \in Seq(Task) /\ Len(tasks') <= MaxTasks
  BY <1>a, Appended
<1> QED
  BY <1>1, <1>2 DEF TypeOK, PinningTypeOK, Start, hubVars, pinVars, pinTable, pinWorker

LEMMA TaskTypes ==
  ASSUME TypeOK, KindsOK, NEW t \in DOMAIN tasks, RunTask(t)
  PROVE  TypeOK'
<1> USE LiveAssumption
<1>1. tasks[t] \in Task /\ t \in 1..MaxTasks /\ t \in 0..MaxTasks
  BY DEF TypeOK
<1>2. ASSUME NEW pc \in Pcs, NEW to \in SUBSET Users, Step(t, pc, to), pc = "send" <=> to # {}
      PROVE  /\ tasks' \in Seq(Task) /\ Len(tasks') <= MaxTasks
             /\ \A x \in DOMAIN tasks' : tasks'[x].pc = "send" <=> tasks'[x].to # {}
  <2>1. /\ tasks' \in Seq(Task) /\ Len(tasks') = Len(tasks) /\ DOMAIN tasks' = DOMAIN tasks
        /\ \A x \in DOMAIN tasks : x # t => tasks'[x] = tasks[x]
        /\ tasks'[t].pc = pc /\ tasks'[t].to = to
    BY <1>2, StepFields DEF TypeOK
  <2>2. ASSUME NEW x \in DOMAIN tasks PROVE tasks'[x].pc = "send" <=> tasks'[x].to # {}
    BY <1>2, <2>1 DEF TypeOK
  <2> QED
    BY <2>1, <2>2 DEF TypeOK
<1> DEFINE TasksFine == /\ tasks' \in Seq(Task) /\ Len(tasks') <= MaxTasks
                        /\ \A x \in DOMAIN tasks' : tasks'[x].pc = "send" <=> tasks'[x].to # {}
<1>3. ASSUME NEW to \in SUBSET Users, to = {},
             \/ Step(t, "join", to) \/ Step(t, "refused", to) \/ Step(t, "done", to)
             \/ Step(t, "pin", to) \/ Step(t, "fanout", to) \/ Step(t, "close", to)
             \/ Step(t, "cut", to)
      PROVE  TasksFine
  BY <1>2, <1>3 DEF Pcs
<1> HIDE DEF TasksFine
<1>4. CASE CreateJob(t)
  <2>1. TasksFine
    BY <1>3, <1>4 DEF CreateJob
  <2> QED
    BY <1>1, <1>4, <2>1 DEF TypeOK, Task, CreateJob, TasksFine, hubVars, pinVars, pinTable,
                            pinWorker, PinningTypeOK
<1>5. CASE ChunkJob(t)
  <2>1. TasksFine
    BY <1>3, <1>5 DEF ChunkJob, AfterChunk
  <2>2. tasks[t].seq \in Seqs /\ tasks[t].s \in Rooms
    BY <1>1, <1>5 DEF KindsOK, ChunkJob, Task
  <2>3. chunks' \in [Rooms -> [Seqs -> 0..MaxTasks]] /\ first' \in [Rooms -> Seqs \cup {0}]
    <3>1. [chunks EXCEPT ![tasks[t].s][tasks[t].seq] = t] \in [Rooms -> [Seqs -> 0..MaxTasks]]
      BY <1>1, <2>2 DEF TypeOK
    <3>2. [first EXCEPT ![tasks[t].s] = tasks[t].seq] \in [Rooms -> Seqs \cup {0}]
      BY <2>2 DEF TypeOK
    <3> QED
      BY <1>5, <3>1, <3>2 DEF ChunkJob, TypeOK
  <2> QED
    BY <1>5, <2>1, <2>3 DEF TypeOK, ChunkJob, TasksFine, hubVars, pinVars, pinTable,
                            pinWorker, PinningTypeOK
<1>6. CASE PinFirst(t)
  <2>1. TasksFine
    BY <1>3, <1>6 DEF PinFirst
  <2>2. CidOf[tasks[t].seq] \in Cids
    BY <1>1, <1>6 DEF KindsOK, PinFirst, Task
  <2>3. PinningTypeOK'
    BY <1>6, <2>2, EnqueueTypes DEF PinFirst, TypeOK
  <2> QED
    BY <1>6, <2>1, <2>3 DEF TypeOK, PinFirst, TasksFine, hubVars
<1>7. CASE EndJob(t)
  <2>1. TasksFine
    BY <1>3, <1>7 DEF EndJob
  <2> QED
    BY <1>1, <1>7, <2>1 DEF TypeOK, Task, EndJob, TasksFine, hubVars, pinVars, pinTable,
                            pinWorker, PinningTypeOK
<1>8. CASE Fanout(t)
  <2>1. Recipients(t) \subseteq Users
    BY <1>1 DEF Recipients, TypeOK, Task
  <2>2. TasksFine
    BY <1>2, <1>8, <2>1 DEF Fanout, AfterSends, Pcs, TasksFine
  <2> QED
    BY <1>8, <2>2 DEF TypeOK, Fanout, TasksFine, hubVars, pinVars, pinTable, pinWorker,
                      PinningTypeOK
<1>9. ASSUME NEW u \in Users, Send(t, u) PROVE TypeOK'
  <2>1. tasks[t].to \subseteq Users /\ tasks[t].to \ {u} \subseteq Users
    BY <1>1 DEF Task
  <2>2. TasksFine
    <3>1. CASE tasks[t].to = {u}
      <4>1. tasks[t].to \ {u} = {} /\ {} \subseteq Users
        BY <3>1
      <4> QED
        BY <1>3, <1>9, <3>1, <4>1 DEF Send, AfterSends
    <3>2. CASE tasks[t].to # {u}
      BY <1>2, <1>9, <2>1, <3>2 DEF Send, Pcs, TasksFine
    <3> QED
      BY <3>1, <3>2
  <2>3. <<tasks[t].s, tasks[t].seq>> \in Message
    BY <1>1 DEF Task, Message
  <2>4. outbox' \in [Conns -> Seq(Message)]
    BY <1>9, <2>3 DEF TypeOK, Send, SendToUser
  <2> QED
    BY <1>9, <2>2, <2>4 DEF TypeOK, Send, SendToUser, TasksFine, pinVars, pinTable, pinWorker,
                            PinningTypeOK
<1>10. CASE HostJoins(t)
  <2>1. TasksFine
    BY <1>3, <1>10 DEF HostJoins
  <2> QED
    BY <1>1, <1>10, <2>1 DEF TypeOK, Task, HostJoins, JoinRoom, TasksFine, pinVars, pinTable,
                             pinWorker, PinningTypeOK
<1>11. CASE Close(t)
  <2>1. TasksFine
    BY <1>3, <1>11 DEF Close
  <2> QED
    BY <1>1, <1>11, <2>1 DEF TypeOK, Task, Close, CloseRoom, TasksFine, pinVars, pinTable,
                             pinWorker, PinningTypeOK
<1>12. CASE HangUp(t)
  <2>1. TasksFine
    BY <1>3, <1>12 DEF HangUp
  <2> QED
    BY <1>12, <2>1 DEF TypeOK, HangUp, TasksFine, hubVars, pinVars, pinTable, pinWorker,
                       PinningTypeOK
<1> QED
  BY <1>4, <1>5, <1>6, <1>7, <1>8, <1>9, <1>10, <1>11, <1>12 DEF RunTask

LEMMA SessionTypes ==
  ASSUME TypeOK, NEW c \in Conns, RunSession(c)
  PROVE  TypeOK'
<1> USE HubAssumption DEF TypeOK, sessionOnly, hubVars, pinVars, pinTable, pinWorker,
                          PinningTypeOK
<1>1. CASE Connect(c)
  BY <1>1 DEF Connect, Register
<1>2. CASE Disconnect(c)
  BY <1>2 DEF Disconnect, Unregister
<1>3. CASE Sweep(c)
  BY <1>3 DEF Sweep, SweepRooms
<1>4. ASSUME NEW s \in Rooms, Join(c, s) PROVE TypeOK'
  BY <1>4 DEF Join, JoinRoom
<1>5. ASSUME NEW s \in Rooms, Leave(c, s) PROVE TypeOK'
  BY <1>5 DEF Leave, LeaveRoom
<1> QED
  BY <1>1, <1>2, <1>3, <1>4, <1>5 DEF RunSession

(* What the end of the process leaves of the requests.                     *)
LEMMA CrashFields ==
  ASSUME tasks \in Seq(Task), Crash
  PROVE  /\ tasks' \in Seq(Task) /\ Len(tasks') = Len(tasks) /\ DOMAIN tasks' = DOMAIN tasks
         /\ \A t \in DOMAIN tasks :
              \/ Finished(t) /\ tasks'[t] = tasks[t]
              \/ /\ ~Finished(t)
                 /\ tasks'[t].pc = "cut" /\ tasks'[t].to = {}
                 /\ tasks'[t].kind = tasks[t].kind /\ tasks'[t].s = tasks[t].s
                 /\ tasks'[t].by = tasks[t].by /\ tasks'[t].via = tasks[t].via
                 /\ tasks'[t].seq = tasks[t].seq
<1> DEFINE gone(t) == [tasks[t] EXCEPT !.pc = "cut", !.to = {}]
<1>1. tasks' = [t \in DOMAIN tasks |-> IF Finished(t) THEN tasks[t] ELSE gone(t)]
  BY DEF Crash
<1>2. ASSUME NEW t \in DOMAIN tasks
      PROVE  /\ tasks[t] \in Task /\ gone(t) \in Task
             /\ gone(t).pc = "cut" /\ gone(t).to = {}
             /\ gone(t).kind = tasks[t].kind /\ gone(t).s = tasks[t].s
             /\ gone(t).by = tasks[t].by /\ gone(t).via = tasks[t].via
             /\ gone(t).seq = tasks[t].seq
  <2>1. tasks[t] \in Task
    OBVIOUS
  <2> QED
    BY <2>1 DEF Task
<1> HIDE DEF gone
<1>3. tasks' \in Seq(Task) /\ Len(tasks') = Len(tasks) /\ DOMAIN tasks' = DOMAIN tasks
  BY <1>1, <1>2
<1> QED
  BY <1>1, <1>2, <1>3

LEMMA CrashTypes ==
  ASSUME TypeOK, Crash
  PROVE  TypeOK'
<1>1. tasks \in Seq(Task)
  BY DEF TypeOK
<1>2. \A t \in DOMAIN tasks' : tasks'[t].pc = "send" <=> tasks'[t].to # {}
  BY <1>1, CrashFields DEF TypeOK
<1>3. PinningTypeOK'
  <2>1. work' = << >> /\ answer' = "none" /\ UNCHANGED <<jobs, status, attempts, remote>>
    BY DEF Crash, PinningCrash, pinTable
  <2> QED
    BY <2>1 DEF TypeOK, PinningTypeOK
<1>4. tasks' \in Seq(Task) /\ Len(tasks') <= MaxTasks
  BY <1>1, CrashFields DEF TypeOK
<1>5. /\ crashes < MaxCrashes /\ crashes' = crashes + 1
      /\ session' = [c \in Conns |-> IF session[c] = "new" THEN "new" ELSE "closed"]
      /\ clients' = {} /\ rooms' = [s \in Rooms |-> {}] /\ audience' = {} /\ sweptLate' = {}
      /\ UNCHANGED <<stream, chunks, first, outbox>>
  BY DEF Crash
<1>6. crashes' \in 0..MaxCrashes
  BY <1>5, LiveAssumption DEF TypeOK
<1>7. clients' = {c \in Conns : session'[c] = "open"}
  BY <1>5 DEF TypeOK
<1> QED
  BY <1>2, <1>3, <1>4, <1>5, <1>6, <1>7 DEF TypeOK

-----------------------------------------------------------------------------
(* The history of chunks.                                                  *)

(* A request goes on: what it is about stays, and a chunk that was stored  *)
(* and told of stays so.                                                   *)
Onward(t) ==
  /\ tasks'[t].kind = tasks[t].kind /\ tasks'[t].s = tasks[t].s
  /\ tasks'[t].by = tasks[t].by /\ tasks'[t].via = tasks[t].via
  /\ tasks'[t].seq = tasks[t].seq
  /\ Finished(t) => tasks'[t].pc \in {"done", "refused", "cut"}
  /\ tasks[t].kind = "chunk" =>
       /\ tasks'[t].pc \notin {"join", "close"}
       /\ tasks'[t].pc \in {"pin", "fanout", "send"} => tasks[t].pc \in {"pin", "fanout", "send"}
       /\ tasks[t].pc \in {"pin", "fanout", "send", "done", "cut"} =>
            tasks'[t].pc \in {"pin", "fanout", "send", "done", "cut"}
       /\ tasks[t].pc \in {"send", "done", "cut"} =>
            tasks'[t].pc \in {"send", "done", "cut"} /\ tasks'[t].to \subseteq tasks[t].to
  /\ tasks[t].kind # "chunk" => tasks'[t].pc # "pin"
  /\ tasks'[t].pc = "join" => tasks[t].kind = "create"

LEMMA OnwardTasks ==
  ASSUME TypeOK, KindsOK, StorersOK, OneAtATime, UNCHANGED <<chunks, first>>,
         DOMAIN tasks' = DOMAIN tasks, \A t \in DOMAIN tasks : Onward(t)
  PROVE  KindsOK' /\ StorersOK' /\ OneAtATime'
<1>1. KindsOK'
  BY DEF KindsOK, Onward
<1>2. StorersOK'
  <2>1. ASSUME NEW t \in DOMAIN tasks, tasks'[t].kind = "chunk",
               tasks'[t].pc \in {"pin", "fanout", "send"}
        PROVE  chunks'[tasks'[t].s][tasks'[t].seq] = t
    BY <2>1 DEF StorersOK, Onward
  <2>2. ASSUME NEW s \in Rooms, NEW q \in Seqs, chunks[s][q] # 0
        PROVE  Stored(chunks[s][q], s, q)'
    BY <2>2 DEF StorersOK, Stored, Onward
  <2> QED
    BY <2>1, <2>2 DEF StorersOK
<1>3. OneAtATime'
  BY DEF OneAtATime, Onward, Finished
<1> QED
  BY <1>1, <1>2, <1>3

(* Who stored the chunk that a connection was told of.                     *)
LEMMA ToldBy ==
  ASSUME TypeOK, StorersOK, ToldOK, NEW c \in Conns, NEW i \in DOMAIN outbox[c],
         NEW m, m = outbox[c][i], m[2] # 0, NEW t, t = Storer(m)
  PROVE  /\ m[1] \in Rooms /\ m[2] \in Seqs
         /\ t \in DOMAIN tasks /\ tasks[t].kind = "chunk"
         /\ tasks[t].s = m[1] /\ tasks[t].seq = m[2]
         /\ tasks[t].pc \in {"send", "done", "cut"} /\ Owner[c] \notin tasks[t].to
<1>1. m \in Message
  BY DEF TypeOK
<1>2. m[1] \in Rooms /\ m[2] \in Seqs
  BY <1>1 DEF Message
<1>3. t # 0 /\ tasks[t].pc \in {"send", "done", "cut"} /\ Owner[c] \notin tasks[t].to
  BY DEF ToldOK
<1>4. Stored(t, m[1], m[2])
  BY <1>2, <1>3 DEF StorersOK, Storer
<1> QED
  BY <1>2, <1>3, <1>4 DEF Stored

LEMMA BoxesKeep ==
  ASSUME TypeOK, StorersOK, ToldOK, ChunkOnce, WsInOrder, UNCHANGED outbox,
         \A c \in Conns : \A i \in DOMAIN outbox[c] : outbox[c][i][2] # 0 =>
           /\ Storer(outbox[c][i])' = Storer(outbox[c][i])
           /\ Onward(Storer(outbox[c][i]))
  PROVE  ToldOK' /\ ChunkOnce' /\ WsInOrder'
<1>1. ASSUME NEW c \in Conns, NEW i \in DOMAIN outbox[c], outbox[c][i][2] # 0
      PROVE  LET t == Storer(outbox[c][i]) IN
               t \in DOMAIN tasks /\ tasks[t].kind = "chunk" /\ Onward(t)
                 /\ t = Storer(outbox[c][i])'
  BY <1>1, ToldBy
<1>2. ToldOK'
  BY <1>1 DEF Onward, ToldOK
<1>3. ChunkOnce'
  BY DEF ChunkOnce
<1>4. WsInOrder'
  BY <1>1 DEF Onward, WsInOrder
<1> QED
  BY <1>2, <1>3, <1>4

HistoryKept == KindsOK' /\ StorersOK' /\ ToldOK' /\ OneAtATime' /\ ChunkOnce' /\ WsInOrder'

LEMMA OnwardKeeps ==
  ASSUME HistoryIInv, UNCHANGED <<chunks, first, outbox>>,
         DOMAIN tasks' = DOMAIN tasks, \A t \in DOMAIN tasks : Onward(t)
  PROVE  HistoryKept
<1>1. KindsOK' /\ StorersOK' /\ OneAtATime'
  BY OnwardTasks DEF HistoryIInv
<1>2. ASSUME NEW c \in Conns, NEW i \in DOMAIN outbox[c], outbox[c][i][2] # 0
      PROVE  /\ Storer(outbox[c][i])' = Storer(outbox[c][i])
             /\ Onward(Storer(outbox[c][i]))
  BY <1>2, ToldBy DEF Storer, HistoryIInv
<1>3. ToldOK' /\ ChunkOnce' /\ WsInOrder'
  BY <1>2, BoxesKeep DEF HistoryIInv
<1> QED
  BY <1>1, <1>3 DEF HistoryKept

(* A request makes a step that stores nothing and tells nobody.            *)
LEMMA StepOnward ==
  ASSUME HistoryIInv, NEW t \in DOMAIN tasks, NEW pc \in Pcs, NEW to \in SUBSET Users,
         Step(t, pc, to), ~Finished(t),
         \/ tasks[t].kind = "chunk" /\ tasks[t].pc = "job" /\ pc \in {"done", "refused", "cut"}
         \/ tasks[t].kind = "chunk" /\ tasks[t].pc \in {"pin", "fanout"}
              /\ pc \in {"fanout", "send", "done", "cut"}
         \/ tasks[t].kind = "chunk" /\ tasks[t].pc = "send" /\ pc \in {"send", "done", "cut"}
              /\ to \subseteq tasks[t].to
         \/ tasks[t].kind # "chunk" /\ pc # "pin" /\ (pc = "join" => tasks[t].kind = "create")
  PROVE  DOMAIN tasks' = DOMAIN tasks /\ \A x \in DOMAIN tasks : Onward(x)
<1>1. /\ DOMAIN tasks' = DOMAIN tasks
      /\ \A x \in DOMAIN tasks : x # t => tasks'[x] = tasks[x]
      /\ tasks'[t].pc = pc /\ tasks'[t].to = to
      /\ tasks'[t].kind = tasks[t].kind /\ tasks'[t].s = tasks[t].s
      /\ tasks'[t].by = tasks[t].by /\ tasks'[t].via = tasks[t].via
      /\ tasks'[t].seq = tasks[t].seq
  BY StepFields DEF HistoryIInv, TypeOK
<1>2. Onward(t)
  BY <1>1 DEF Onward, Finished
<1>3. ASSUME NEW x \in DOMAIN tasks, x # t PROVE Onward(x)
  <2>1. tasks'[x] = tasks[x]
    BY <1>1, <1>3
  <2> QED
    BY <2>1 DEF Onward, Finished, HistoryIInv, KindsOK
<1> QED
  BY <1>1, <1>2, <1>3

(* The job that stores a chunk.                                            *)
LEMMA StoreKeeps ==
  ASSUME HistoryIInv, NEW t \in DOMAIN tasks, ChunkJob(t),
         NEW s \in Rooms, NEW q \in Seqs, s = tasks[t].s, q = tasks[t].seq,
         chunks[s][q] = 0, Host[s] = tasks[t].by, stream[s] = "live"
  PROVE  HistoryKept
<1> USE DEF HistoryIInv
<1> DEFINE pc == IF first[s] = 0 THEN "pin" ELSE "fanout"
<1>1. /\ tasks[t].kind = "chunk" /\ tasks[t].pc = "job" /\ ~Finished(t)
      /\ chunks' = [chunks EXCEPT ![s][q] = t]
      /\ first' = IF first[s] = 0 THEN [first EXCEPT ![s] = q] ELSE first
      /\ Step(t, pc, {}) /\ UNCHANGED outbox
  BY DEF ChunkJob, AfterChunk, Finished, hubVars
<1>2. pc \in {"pin", "fanout"} /\ pc \in Pcs
  BY DEF Pcs
<1> HIDE DEF pc
<1>3. /\ DOMAIN tasks' = DOMAIN tasks
      /\ \A x \in DOMAIN tasks : x # t => tasks'[x] = tasks[x]
      /\ tasks'[t].pc = pc
      /\ tasks'[t].kind = tasks[t].kind /\ tasks'[t].s = tasks[t].s
      /\ tasks'[t].by = tasks[t].by /\ tasks'[t].via = tasks[t].via
      /\ tasks'[t].seq = tasks[t].seq
  BY <1>1, <1>2, StepFields DEF TypeOK
<1>4. /\ chunks'[s][q] = t
      /\ \A r \in Rooms, p \in Seqs : <<r, p>> # <<s, q>> => chunks'[r][p] = chunks[r][p]
  BY <1>1 DEF TypeOK
<1>5. t # 0
  BY DEF TypeOK
<1>6. KindsOK'
  BY <1>1, <1>2, <1>3 DEF KindsOK
<1>7. StorersOK'
  <2>1. ASSUME NEW x \in DOMAIN tasks, tasks'[x].kind = "chunk",
               tasks'[x].pc \in {"pin", "fanout", "send"}
        PROVE  chunks'[tasks'[x].s][tasks'[x].seq] = x
    <3>1. CASE x = t
      BY <1>3, <1>4, <3>1
    <3>2. CASE x # t
      <4>a. tasks'[x] = tasks[x]
        BY <1>3, <3>2
      <4>1. tasks'[x] = tasks[x] /\ chunks[tasks[x].s][tasks[x].seq] = x
        BY <2>1, <4>a DEF StorersOK
      <4>2. tasks[x].s \in Rooms /\ tasks[x].seq \in Seqs /\ x # 0
        <5>1. tasks[x] \in Task /\ x # 0
          BY DEF TypeOK
        <5> QED
          BY <2>1, <4>1, <5>1 DEF Task, KindsOK
      <4>3. <<tasks[x].s, tasks[x].seq>> # <<s, q>>
        BY <4>1, <4>2
      <4>4. chunks'[tasks[x].s][tasks[x].seq] = chunks[tasks[x].s][tasks[x].seq]
        BY <1>4, <4>2, <4>3
      <4> QED
        BY <4>1, <4>4
    <3> QED
      BY <3>1, <3>2
  <2>2. ASSUME NEW r \in Rooms, NEW p \in Seqs, chunks'[r][p] # 0
        PROVE  Stored(chunks[r][p], r, p)'
    <3>1. CASE r = s /\ p = q
      BY <1>1, <1>2, <1>3, <1>4, <3>1 DEF Stored
    <3>2. CASE ~(r = s /\ p = q)
      <4>a. chunks'[r][p] = chunks[r][p]
        BY <1>4, <3>2
      <4>1. chunks'[r][p] = chunks[r][p] /\ Stored(chunks[r][p], r, p)
        BY <2>2, <4>a DEF StorersOK
      <4>2. chunks[r][p] # t
        BY <1>1, <4>1 DEF Stored
      <4> QED
        BY <1>3, <4>1, <4>2 DEF Stored
    <3> QED
      BY <3>1, <3>2
  <2>3. ASSUME NEW r \in Rooms, first'[r] # 0 PROVE chunks'[r][first'[r]] # 0
    <3>1. CASE first'[r] = first[r]
      <4>1. first[r] \in Seqs /\ chunks[r][first[r]] # 0
        BY <2>3, <3>1 DEF StorersOK, TypeOK
      <4> QED
        BY <1>4, <1>5, <3>1, <4>1
    <3>2. CASE first'[r] # first[r]
      <4>1. r = s /\ first'[r] = q
        BY <1>1, <3>2 DEF TypeOK
      <4> QED
        BY <1>4, <1>5, <4>1
    <3> QED
      BY <3>1, <3>2
  <2> QED
    BY <1>3, <2>1, <2>2, <2>3 DEF StorersOK
<1>8. OneAtATime'
  BY <1>1, <1>3 DEF OneAtATime, Finished
<1>9. ASSUME NEW c \in Conns, NEW i \in DOMAIN outbox[c], outbox[c][i][2] # 0
      PROVE  /\ Storer(outbox[c][i])' = Storer(outbox[c][i])
             /\ Onward(Storer(outbox[c][i]))
  <2> DEFINE m == outbox[c][i]
             u == Storer(m)
  <2>1. /\ m[1] \in Rooms /\ m[2] \in Seqs
        /\ u \in DOMAIN tasks /\ tasks[u].kind = "chunk"
        /\ tasks[u].s = m[1] /\ tasks[u].seq = m[2]
        /\ tasks[u].pc \in {"send", "done", "cut"}
    BY <1>9, ToldBy
  <2>2. u = chunks[m[1]][m[2]] /\ Storer(outbox[c][i])' = chunks'[m[1]][m[2]] /\ u # 0
    BY <1>1, <1>9 DEF Storer, ToldOK
  <2> HIDE DEF m, u
  <2>3. <<m[1], m[2]>> # <<s, q>>
    BY <2>2
  <2>4. u # t /\ tasks'[u] = tasks[u]
    BY <1>1, <1>3, <2>1
  <2>5. Storer(outbox[c][i])' = u
    BY <1>4, <2>1, <2>2, <2>3
  <2>6. Onward(u)
    BY <2>1, <2>4 DEF Onward, Finished
  <2> QED
    BY <2>5, <2>6 DEF u, m
<1>10. ToldOK' /\ ChunkOnce' /\ WsInOrder'
  BY <1>1, <1>9, BoxesKeep
<1> QED
  BY <1>6, <1>7, <1>8, <1>10 DEF HistoryKept

(* What a connection's outbox is after a message to user u.                *)
LEMMA Delivered ==
  ASSUME outbox \in [Conns -> Seq(Message)], NEW u \in Users, NEW m \in Message,
         SendToUser(u, m), NEW c \in Conns
  PROVE  /\ \A i \in DOMAIN outbox[c] : i \in DOMAIN outbox'[c] /\ outbox'[c][i] = outbox[c][i]
         /\ \A i \in DOMAIN outbox'[c] :
              \/ i \in DOMAIN outbox[c]
              \/ /\ Owner[c] = u /\ outbox'[c][i] = m
                 /\ \A j \in DOMAIN outbox'[c] : j # i => j \in DOMAIN outbox[c] /\ j < i
BY DEF SendToUser

LEMMA SendKeeps ==
  ASSUME HistoryIInv, NEW t \in DOMAIN tasks, NEW u \in Users, Send(t, u)
  PROVE  HistoryKept
<1> USE DEF HistoryIInv
<1> DEFINE m == <<tasks[t].s, tasks[t].seq>>
           pc == IF tasks[t].to = {u} THEN AfterSends(t) ELSE "send"
           to == tasks[t].to \ {u}
<1>1. /\ tasks[t].pc = "send" /\ u \in tasks[t].to /\ SendToUser(u, m) /\ Step(t, pc, to)
      /\ UNCHANGED <<chunks, first>>
  BY DEF Send
<1>2. tasks[t] \in Task
  BY DEF TypeOK
<1>3. /\ m \in Message /\ m[1] = tasks[t].s /\ m[2] = tasks[t].seq
      /\ to \subseteq tasks[t].to /\ to \in SUBSET Users /\ u \notin to
      /\ pc \in Pcs /\ pc \in {"send", "done", "close"}
      /\ tasks[t].kind = "chunk" => pc \in {"send", "done"}
  BY <1>2 DEF Task, Message, Pcs, AfterSends
<1> HIDE DEF m, pc, to
<1>4. DOMAIN tasks' = DOMAIN tasks /\ \A x \in DOMAIN tasks : Onward(x)
  <2>1. pc # "pin" /\ pc # "join" /\ ~Finished(t)
    BY <1>1, <1>3 DEF Finished
  <2> QED
    BY <1>1, <1>3, <2>1, StepOnward
<1>5. KindsOK' /\ StorersOK' /\ OneAtATime'
  BY <1>1, <1>4, OnwardTasks
<1>6. tasks'[t].pc = pc /\ tasks'[t].to = to
  BY <1>1, <1>3, StepFields DEF TypeOK
<1>7. m[2] # 0 => tasks[t].kind = "chunk" /\ Storer(m) = t /\ chunks'[m[1]][m[2]] = t /\ t # 0
  <2>1. m[2] # 0 => tasks[t].kind = "chunk"
    BY <1>3 DEF KindsOK
  <2>2. m[2] # 0 => chunks[m[1]][m[2]] = t
    BY <1>1, <1>3, <2>1 DEF StorersOK
  <2> QED
    BY <1>1, <2>1, <2>2 DEF Storer, TypeOK
<1>8. ASSUME NEW c \in Conns, NEW i \in DOMAIN outbox[c], outbox[c][i][2] # 0
      PROVE  LET x == Storer(outbox[c][i]) IN
               /\ x \in DOMAIN tasks /\ tasks[x].kind = "chunk" /\ Onward(x)
               /\ x # 0 /\ tasks[x].pc \in {"send", "done", "cut"} /\ Owner[c] \notin tasks[x].to
  <2> DEFINE x == Storer(outbox[c][i])
  <2>1. x # 0
    BY <1>8 DEF ToldOK
  <2>2. /\ x \in DOMAIN tasks /\ tasks[x].kind = "chunk"
        /\ tasks[x].pc \in {"send", "done", "cut"} /\ Owner[c] \notin tasks[x].to
    BY <1>8, ToldBy
  <2> QED
    BY <1>4, <2>1, <2>2
<1>9. outbox \in [Conns -> Seq(Message)]
  BY DEF TypeOK
<1>a. ASSUME NEW c \in Conns
      PROVE  /\ \A i \in DOMAIN outbox[c] : i \in DOMAIN outbox'[c] /\ outbox'[c][i] = outbox[c][i]
             /\ \A i \in DOMAIN outbox'[c] :
                  \/ i \in DOMAIN outbox[c]
                  \/ /\ Owner[c] = u /\ outbox'[c][i] = m
                     /\ \A j \in DOMAIN outbox'[c] : j # i => j \in DOMAIN outbox[c] /\ j < i
  BY <1>1, <1>3, <1>9, Delivered
<1>b. ASSUME NEW c \in Conns, NEW i \in DOMAIN outbox[c]
      PROVE  outbox'[c][i] = outbox[c][i] /\ Storer(outbox[c][i])' = Storer(outbox[c][i])
  BY <1>1, <1>a DEF Storer
<1>10. ASSUME NEW c \in Conns, NEW i \in DOMAIN outbox'[c]
       PROVE  \/ i \in DOMAIN outbox[c] /\ outbox'[c][i] = outbox[c][i]
              \/ /\ Owner[c] = u /\ outbox'[c][i] = m
                 /\ \A j \in DOMAIN outbox'[c] : j # i =>
                      j \in DOMAIN outbox[c] /\ outbox'[c][j] = outbox[c][j] /\ j < i
  BY <1>a
<1>11. ASSUME NEW c \in Conns, Owner[c] = u, NEW i \in DOMAIN outbox[c], outbox[c][i][2] # 0
       PROVE  Storer(outbox[c][i]) # t
  BY <1>1, <1>8, <1>11
<1>12. ToldOK'
  <2> SUFFICES ASSUME NEW c \in Conns, NEW i \in DOMAIN outbox'[c], outbox'[c][i][2] # 0
               PROVE  LET x == Storer(outbox[c][i])' IN
                        /\ x # 0 /\ tasks'[x].pc \in {"send", "done", "cut"}
                        /\ Owner[c] \notin tasks'[x].to
    BY DEF ToldOK
  <2>1. CASE i \in DOMAIN outbox[c] /\ outbox'[c][i] = outbox[c][i]
    BY <1>8, <1>b, <2>1 DEF Onward
  <2>2. CASE Owner[c] = u /\ outbox'[c][i] = m
    <3>1. Storer(outbox[c][i])' = t /\ t # 0 /\ tasks[t].kind = "chunk"
      BY <1>7, <2>2 DEF Storer
    <3> QED
      BY <1>3, <1>6, <2>2, <3>1
  <2> QED
    BY <1>10, <2>1, <2>2
<1>13. ChunkOnce'
  <2> SUFFICES ASSUME NEW c \in Conns, NEW i \in DOMAIN outbox'[c], NEW j \in DOMAIN outbox'[c],
                      i # j, outbox'[c][i][2] # 0, outbox'[c][i] = outbox'[c][j]
               PROVE  FALSE
    BY DEF ChunkOnce
  <2>1. CASE i \in DOMAIN outbox[c] /\ j \in DOMAIN outbox[c]
    BY <1>b, <2>1 DEF ChunkOnce
  <2>2. ASSUME NEW k \in DOMAIN outbox[c], k \in {i, j}, Owner[c] = u, outbox[c][k] = m
        PROVE  FALSE
    BY <1>7, <1>11, <2>2, <1>10
  <2> QED
    BY <1>10, <2>1, <2>2
<1>14. WsInOrder'
  <2> SUFFICES ASSUME NEW c \in Conns, NEW i \in DOMAIN outbox'[c], NEW j \in DOMAIN outbox'[c],
                      i < j, outbox'[c][i][2] # 0, outbox'[c][j][2] # 0,
                      tasks'[Storer(outbox[c][i])'].via = tasks'[Storer(outbox[c][j])'].via,
                      tasks'[Storer(outbox[c][i])'].via \in Conns
               PROVE  Storer(outbox[c][i])' < Storer(outbox[c][j])'
    BY DEF WsInOrder
  <2>1. i \in DOMAIN outbox[c] /\ outbox'[c][i] = outbox[c][i]
    <3>1. CASE \A k \in DOMAIN outbox'[c] : k # i => k < i
      <4>1. i \in Nat /\ j \in Nat
        BY <1>1, <1>3 DEF SendToUser, TypeOK
      <4> QED
        BY <3>1, <4>1
    <3> QED
      BY <1>10, <3>1
  <2> DEFINE x == Storer(outbox[c][i])
  <2>2. /\ x \in DOMAIN tasks /\ tasks'[x].via = tasks[x].via
        /\ Storer(outbox[c][i])' = x
    BY <1>8, <1>b, <2>1 DEF Onward
  <2>3. CASE j \in DOMAIN outbox[c] /\ outbox'[c][j] = outbox[c][j]
    <3>1. /\ Storer(outbox[c][j])' = Storer(outbox[c][j])
          /\ tasks'[Storer(outbox[c][j])].via = tasks[Storer(outbox[c][j])].via
      BY <1>8, <1>b, <2>3 DEF Onward
    <3> QED
      BY <2>1, <2>2, <2>3, <3>1 DEF WsInOrder
  <2>4. CASE Owner[c] = u /\ outbox'[c][j] = m
    <3>1. Storer(outbox[c][j])' = t /\ tasks'[t].via = tasks[t].via
      BY <1>4, <1>7, <2>4 DEF Storer, Onward
    <3>2. x # t
      BY <1>11, <2>1, <2>4
    <3>3. ~(t < x)
      BY <1>1, <2>2, <3>1 DEF OneAtATime, Finished
    <3>4. x \in Nat /\ t \in Nat
      BY <2>2 DEF TypeOK
    <3> HIDE DEF x
    <3> QED
      BY <2>2, <3>1, <3>2, <3>3, <3>4
  <2> QED
    BY <1>10, <2>3, <2>4
<1> QED
  BY <1>5, <1>12, <1>13, <1>14 DEF HistoryKept

LEMMA RequestKeeps ==
  ASSUME HistoryIInv, NEW k \in Kinds, NEW s \in Rooms, NEW u \in Users,
         NEW via \in Conns \cup {"rest"}, NEW q \in Seqs \cup {0}, Start(k, s, u, via, q),
         k = "chunk" <=> q # 0, k = "create" => u = Host[s], via \in Conns => ~Busy(via)
  PROVE  HistoryKept
<1> USE DEF HistoryIInv
<1> DEFINE r == Made(k, s, u, via, q)
           n == Len(tasks')
<1>1. tasks \in Seq(Task) /\ r \in Task /\ tasks' = Append(tasks, r)
  BY StartAdds DEF TypeOK
<1>2. r.pc = "job" /\ r.kind = k /\ r.s = s /\ r.by = u /\ r.via = via /\ r.seq = q
  BY DEF Made
<1>3. UNCHANGED <<chunks, first, outbox>>
  BY DEF Start, hubVars
<1> HIDE DEF r
<1>4. /\ \A x \in DOMAIN tasks : x \in DOMAIN tasks' /\ tasks'[x] = tasks[x] /\ x # n
      /\ \A x \in DOMAIN tasks' : x \in DOMAIN tasks \/ (x = n /\ tasks'[x] = r)
  BY <1>1, Appended
<1>5. KindsOK'
  BY <1>2, <1>4 DEF KindsOK
<1>6. StorersOK'
  <2>1. ASSUME NEW t \in DOMAIN tasks', tasks'[t].kind = "chunk",
               tasks'[t].pc \in {"pin", "fanout", "send"}
        PROVE  chunks'[tasks'[t].s][tasks'[t].seq] = t
    BY <1>2, <1>3, <1>4, <2>1 DEF StorersOK
  <2>2. ASSUME NEW p \in Rooms, NEW v \in Seqs, chunks[p][v] # 0
        PROVE  Stored(chunks[p][v], p, v)'
    BY <1>3, <1>4, <2>2 DEF StorersOK, Stored
  <2> QED
    BY <1>3, <2>1, <2>2 DEF StorersOK
<1>7. OneAtATime'
  <2> SUFFICES ASSUME NEW t \in DOMAIN tasks', NEW x \in DOMAIN tasks', t < x,
                      tasks'[t].via = tasks'[x].via, tasks'[t].via \in Conns
               PROVE  Finished(t)'
    BY DEF OneAtATime
  <2>1. t \in DOMAIN tasks
    BY <1>1
  <2>2. CASE x \in DOMAIN tasks
    BY <1>4, <2>1, <2>2 DEF OneAtATime, Finished
  <2>3. CASE tasks'[x] = r
    BY <1>2, <1>4, <2>1, <2>3 DEF Busy, Finished
  <2> QED
    BY <1>4, <2>2, <2>3
<1>8. ASSUME NEW c \in Conns, NEW i \in DOMAIN outbox[c], outbox[c][i][2] # 0
      PROVE  /\ Storer(outbox[c][i])' = Storer(outbox[c][i])
             /\ Onward(Storer(outbox[c][i]))
  <2> DEFINE x == Storer(outbox[c][i])
  <2>1. x \in DOMAIN tasks /\ tasks[x].kind = "chunk" /\ tasks[x].pc \in {"send", "done", "cut"}
    BY <1>8, ToldBy
  <2>2. Storer(outbox[c][i])' = x
    BY <1>3 DEF Storer
  <2> HIDE DEF x
  <2>3. Onward(x)
    BY <1>4, <2>1 DEF Onward, Finished
  <2> QED
    BY <2>2, <2>3 DEF x
<1>9. ToldOK' /\ ChunkOnce' /\ WsInOrder'
  BY <1>3, <1>8, BoxesKeep
<1> QED
  BY <1>5, <1>6, <1>7, <1>9 DEF HistoryKept

LEMMA RunTaskKeeps ==
  ASSUME HistoryIInv, NEW t \in DOMAIN tasks, RunTask(t)
  PROVE  HistoryKept
<1> USE DEF HistoryIInv
<1>1. tasks[t] \in Task /\ {} \in SUBSET Users
  BY DEF TypeOK
<1>2. CASE CreateJob(t)
  BY <1>1, <1>2, StepOnward, OnwardKeeps DEF CreateJob, Finished, Pcs, hubVars
<1>3. CASE ChunkJob(t)
  <2> DEFINE s == tasks[t].s
             q == tasks[t].seq
  <2>1. s \in Rooms /\ q \in Seqs
    BY <1>1, <1>3 DEF ChunkJob, Task, KindsOK
  <2>2. CASE chunks[s][q] = 0 /\ Host[s] = tasks[t].by /\ stream[s] = "live"
    BY <1>3, <2>1, <2>2, StoreKeeps
  <2>3. CASE ~(chunks[s][q] = 0 /\ Host[s] = tasks[t].by /\ stream[s] = "live")
    <3>1. /\ Step(t, "refused", {}) \/ Step(t, "done", {})
          /\ UNCHANGED <<chunks, first, outbox>>
          /\ tasks[t].kind = "chunk" /\ tasks[t].pc = "job" /\ ~Finished(t)
      BY <1>3, <2>3 DEF ChunkJob, AfterChunk, hubVars, Finished
    <3> QED
      BY <1>1, <3>1, StepOnward, OnwardKeeps DEF Pcs
  <2> QED
    BY <2>2, <2>3
<1>4. CASE PinFirst(t)
  <2>1. tasks[t].kind = "chunk"
    BY <1>4 DEF PinFirst, KindsOK
  <2> QED
    BY <1>1, <1>4, <2>1, StepOnward, OnwardKeeps DEF PinFirst, Finished, Pcs, hubVars
<1>5. CASE EndJob(t)
  BY <1>1, <1>5, StepOnward, OnwardKeeps DEF EndJob, Finished, Pcs, hubVars
<1>6. CASE Fanout(t)
  <2> DEFINE pc == IF Recipients(t) = {} THEN AfterSends(t) ELSE "send"
  <2>1. Recipients(t) \in SUBSET Users
    BY <1>1 DEF Recipients, TypeOK, Task
  <2>2. /\ pc \in {"send", "done", "close"} /\ pc \in Pcs /\ (tasks[t].kind = "chunk" => pc # "close")
        /\ Step(t, pc, Recipients(t)) /\ tasks[t].pc = "fanout" /\ ~Finished(t)
        /\ UNCHANGED <<chunks, first, outbox>>
    BY <1>6 DEF Fanout, AfterSends, Pcs, Finished, hubVars
  <2> HIDE DEF pc
  <2> QED
    BY <2>1, <2>2, StepOnward, OnwardKeeps
<1>7. ASSUME NEW u \in Users, Send(t, u) PROVE HistoryKept
  BY <1>7, SendKeeps
<1>8. CASE HostJoins(t)
  <2>1. tasks[t].kind # "chunk"
    BY <1>8 DEF HostJoins, KindsOK
  <2> QED
    BY <1>1, <1>8, <2>1, StepOnward, OnwardKeeps DEF HostJoins, JoinRoom, Finished, Pcs
<1>9. CASE Close(t)
  <2>1. tasks[t].kind # "chunk"
    BY <1>9 DEF Close, KindsOK
  <2> QED
    BY <1>1, <1>9, <2>1, StepOnward, OnwardKeeps DEF Close, CloseRoom, Finished, Pcs
<1>10. CASE HangUp(t)
  <2>1. /\ Step(t, "cut", {}) /\ ~Finished(t) /\ "cut" \in Pcs
        /\ UNCHANGED <<chunks, first, outbox>>
    BY <1>10 DEF HangUp, Pcs, hubVars
  <2>2. tasks[t].kind = "chunk" => tasks[t].pc \in {"job", "pin", "fanout", "send"}
    BY <1>1, <2>1 DEF Task, KindsOK, Finished
  <2> QED
    BY <1>1, <2>1, <2>2, StepOnward, OnwardKeeps
<1> QED
  BY <1>2, <1>3, <1>4, <1>5, <1>6, <1>7, <1>8, <1>9, <1>10 DEF RunTask

LEMMA StillKeeps ==
  ASSUME HistoryIInv, UNCHANGED <<tasks, chunks, first, outbox>>
  PROVE  HistoryKept
<1>1. \A t \in DOMAIN tasks : Onward(t)
  BY DEF Onward, Finished, HistoryIInv, KindsOK
<1> QED
  BY <1>1, OnwardKeeps

LEMMA CrashKeeps ==
  ASSUME HistoryIInv, Crash
  PROVE  HistoryKept
<1>1. tasks \in Seq(Task)
  BY DEF HistoryIInv, TypeOK
<1>2. ASSUME NEW t \in DOMAIN tasks PROVE Onward(t)
  <2>1. CASE Finished(t) /\ tasks'[t] = tasks[t]
    BY <2>1 DEF Onward, Finished, HistoryIInv, KindsOK
  <2>2. CASE ~(Finished(t) /\ tasks'[t] = tasks[t])
    BY <1>1, <2>2, CrashFields DEF Onward, Finished
  <2> QED
    BY <2>1, <2>2
<1>3. DOMAIN tasks' = DOMAIN tasks /\ UNCHANGED <<chunks, first, outbox>>
  BY <1>1, CrashFields DEF Crash
<1> QED
  BY <1>2, <1>3, OnwardKeeps

(* Every way to make a request starts one.                                 *)
Calls ==
  \/ \E s \in Rooms : CallCreate(s)
  \/ \E s \in Rooms, u \in Users : CallEnd(s, u)
  \/ \E s \in Rooms, u \in Users, q \in Seqs : CallChunk(s, u, q)
  \/ \E s \in Rooms, c \in Conns, q \in Seqs : WsChunk(c, s, q)

LEMMA CallsStart ==
  ASSUME TypeOK, Calls
  PROVE  \E k \in Kinds, s \in Rooms, u \in Users, via \in Conns \cup {"rest"}, q \in Seqs \cup {0} :
           /\ Start(k, s, u, via, q)
           /\ k = "chunk" <=> q # 0
           /\ k = "create" => u = Host[s]
           /\ via \in Conns => ~Busy(via)
<1> USE LiveAssumption, HubAssumption DEF Kinds
<1>1. ASSUME NEW s \in Rooms, CallCreate(s)
      PROVE  Start("create", s, Host[s], "rest", 0) /\ Host[s] \in Users
  BY <1>1 DEF CallCreate
<1>2. ASSUME NEW s \in Rooms, NEW u \in Users, CallEnd(s, u)
      PROVE  Start("end", s, u, "rest", 0)
  BY <1>2 DEF CallEnd
<1>3. ASSUME NEW s \in Rooms, NEW u \in Users, NEW q \in Seqs, CallChunk(s, u, q)
      PROVE  Start("chunk", s, u, "rest", q) /\ q # 0
  BY <1>3 DEF CallChunk
<1>4. ASSUME NEW s \in Rooms, NEW c \in Conns, NEW q \in Seqs, WsChunk(c, s, q)
      PROVE  Start("chunk", s, Owner[c], c, q) /\ q # 0 /\ ~Busy(c) /\ Owner[c] \in Users
  BY <1>4 DEF WsChunk
<1>5. CASE \E s \in Rooms : CallCreate(s)
  BY <1>1, <1>5
<1>6. CASE \E s \in Rooms, u \in Users : CallEnd(s, u)
  BY <1>2, <1>6
<1>7. CASE \E s \in Rooms, u \in Users, q \in Seqs : CallChunk(s, u, q)
  BY <1>3, <1>7
<1>8. CASE \E s \in Rooms, c \in Conns, q \in Seqs : WsChunk(c, s, q)
  BY <1>4, <1>8
<1> QED
  BY <1>5, <1>6, <1>7, <1>8 DEF Calls

LEMMA SessionsLeave ==
  ASSUME NEW c \in Conns, RunSession(c)
  PROVE  UNCHANGED <<stream, tasks, chunks, first, outbox, pinVars>>
BY DEF RunSession, Connect, Disconnect, Sweep, Join, Leave, sessionOnly, Register, Unregister,
       SweepRooms, JoinRoom, LeaveRoom

LEMMA HistoryStep ==
  ASSUME HistoryIInv, [Next]_vars
  PROVE  HistoryIInv'
<1> SUFFICES TypeOK' /\ HistoryKept
  BY DEF HistoryIInv, HistoryKept
<1> USE DEF HistoryIInv
<1>1. CASE UNCHANGED vars
  BY <1>1, StillKeeps DEF vars, liveVars, hubVars, pinVars, pinTable, pinWorker, TypeOK,
                          PinningTypeOK
<1>2. CASE Calls
  <2> PICK k \in Kinds, s \in Rooms, u \in Users, via \in Conns \cup {"rest"}, q \in Seqs \cup {0} :
        /\ Start(k, s, u, via, q)
        /\ k = "chunk" <=> q # 0
        /\ k = "create" => u = Host[s]
        /\ via \in Conns => ~Busy(via)
    BY <1>2, CallsStart
  <2> QED
    BY RequestTypes, RequestKeeps
<1>3. ASSUME NEW t \in DOMAIN tasks, RunTask(t) PROVE TypeOK' /\ HistoryKept
  BY <1>3, TaskTypes, RunTaskKeeps
<1>4. ASSUME NEW c \in Conns, RunSession(c) PROVE TypeOK' /\ HistoryKept
  BY <1>4, SessionTypes, SessionsLeave, StillKeeps
<1>5. CASE Crash
  BY <1>5, CrashTypes, CrashKeeps
<1> QED
  BY <1>1, <1>2, <1>3, <1>4, <1>5 DEF Next, Calls

LEMMA HistoryInit == Init => HistoryIInv
<1> SUFFICES ASSUME Init PROVE HistoryIInv
  OBVIOUS
<1>1. /\ tasks = << >> /\ DOMAIN tasks = {}
      /\ \A c \in Conns : outbox[c] = << >> /\ DOMAIN outbox[c] = {}
      /\ \A s \in Rooms : first[s] = 0 /\ \A q \in Seqs : chunks[s][q] = 0
  BY DEF Init, HubInit
<1>2. KindsOK /\ OneAtATime /\ ToldOK /\ ChunkOnce /\ WsInOrder
  BY <1>1 DEF KindsOK, OneAtATime, ToldOK, ChunkOnce, WsInOrder
<1>3. StorersOK
  BY <1>1 DEF StorersOK
<1> QED
  BY <1>2, <1>3, InitTypes DEF HistoryIInv

LEMMA History == Spec => []HistoryIInv
BY HistoryInit, HistoryStep, PTL DEF Spec

(* The variables stay in their types, and a request has somebody to send   *)
(* to exactly while it is sending.                                         *)
THEOREM TypeCorrect == Spec => []TypeOK
<1>1. HistoryIInv => TypeOK
  BY DEF HistoryIInv
<1> QED
  BY <1>1, History, PTL

(* However often and by whichever way a chunk is announced, whoever hangs  *)
(* up and whenever the process dies: no connection is told of it twice.    *)
THEOREM ChunksToldOnce == Spec => []ChunkOnce
<1>1. HistoryIInv => ChunkOnce
  BY DEF HistoryIInv
<1> QED
  BY <1>1, History, PTL

(* The chunks that come by one socket reach every viewer in the order in   *)
(* which they were sent.                                                   *)
THEOREM ChunksToldInOrder == Spec => []WsInOrder
<1>1. HistoryIInv => WsInOrder
  BY DEF HistoryIInv
<1> QED
  BY <1>1, History, PTL

-----------------------------------------------------------------------------
(* The pin of a stream's first chunk.                                      *)

LEMMA FirstChunkStep ==
  ASSUME HistoryIInv, FirstChunkPinnedOrCut, [Next]_vars
  PROVE  FirstChunkPinnedOrCut'
<1> USE DEF HistoryIInv
<1>a. ASSUME NEW s \in Rooms, first[s] # 0
      PROVE  /\ first[s] \in Seqs /\ CidOf[first[s]] \in Cids
             /\ Stored(chunks[s][first[s]], s, first[s])
  BY <1>a, LiveAssumption DEF TypeOK, StorersOK
<1>1. CASE UNCHANGED <<first, chunks, status>> /\ \A x \in DOMAIN tasks :
             x \in DOMAIN tasks' /\ (tasks[x].pc \in {"pin", "cut"} => tasks'[x].pc \in {"pin", "cut"})
  BY <1>1, <1>a DEF FirstChunkPinnedOrCut, Stored
<1>2. CASE UNCHANGED vars
  BY <1>1, <1>2 DEF vars, liveVars, pinVars, pinTable
<1>3. CASE Calls
  <2> PICK k \in Kinds, s \in Rooms, u \in Users, via \in Conns \cup {"rest"}, q \in Seqs \cup {0} :
        Start(k, s, u, via, q)
    BY <1>3, CallsStart
  <2>1. \A x \in DOMAIN tasks : x \in DOMAIN tasks' /\ tasks'[x] = tasks[x]
    BY StartAdds, Appended DEF TypeOK
  <2>2. UNCHANGED <<first, chunks, status>>
    BY DEF Start, pinVars, pinTable
  <2> QED
    BY <1>1, <2>1, <2>2
<1>4. ASSUME NEW t \in DOMAIN tasks, RunTask(t) PROVE FirstChunkPinnedOrCut'
  <2> tasks[t] \in Task /\ {} \in SUBSET Users
    BY DEF TypeOK
  <2>1. ASSUME NEW pc \in Pcs, NEW to \in SUBSET Users, Step(t, pc, to),
               UNCHANGED <<first, chunks, status>>, tasks[t].pc \notin {"pin", "cut"} \/ pc = "cut"
        PROVE  FirstChunkPinnedOrCut'
    <3>1. /\ DOMAIN tasks' = DOMAIN tasks /\ tasks'[t].pc = pc
          /\ \A x \in DOMAIN tasks : x # t => tasks'[x] = tasks[x]
      BY <2>1, StepFields DEF TypeOK
    <3>2. ASSUME NEW x \in DOMAIN tasks, tasks[x].pc \in {"pin", "cut"}
          PROVE  tasks'[x].pc \in {"pin", "cut"}
      BY <2>1, <3>1, <3>2
    <3> QED
      BY <1>1, <2>1, <3>1, <3>2
  <2>2. CASE CreateJob(t)
    BY <2>1, <2>2 DEF CreateJob, Pcs, pinVars, pinTable
  <2>3. CASE ChunkJob(t)
    <3> DEFINE s == tasks[t].s
               q == tasks[t].seq
    <3>1. s \in Rooms /\ q \in Seqs /\ tasks[t].pc = "job"
      BY <2>3 DEF ChunkJob, Task, KindsOK
    <3>2. CASE chunks[s][q] = 0 /\ Host[s] = tasks[t].by /\ stream[s] = "live"
      <4> DEFINE pc == IF first[s] = 0 THEN "pin" ELSE "fanout"
      <4>1. /\ chunks' = [chunks EXCEPT ![s][q] = t] /\ Step(t, pc, {}) /\ pc \in Pcs
            /\ first' = IF first[s] = 0 THEN [first EXCEPT ![s] = q] ELSE first
            /\ UNCHANGED status
        BY <2>3, <3>2 DEF ChunkJob, AfterChunk, pinVars, pinTable, Pcs
      <4>2. /\ tasks'[t].pc = pc /\ DOMAIN tasks' = DOMAIN tasks
            /\ \A x \in DOMAIN tasks : x # t => tasks'[x] = tasks[x]
        BY <4>1, StepFields DEF TypeOK
      <4>3. ASSUME NEW r \in Rooms, first'[r] # 0
            PROVE  \/ status'[CidOf[first'[r]]] # "none"
                   \/ tasks'[chunks'[r][first'[r]]].pc \in {"pin", "cut"}
        <5>1. CASE r = s /\ first[s] = 0
          BY <3>1, <4>1, <4>2, <5>1 DEF TypeOK
        <5>2. CASE ~(r = s /\ first[s] = 0)
          <6>1. first'[r] = first[r] /\ first[r] # 0
            BY <4>1, <4>3, <5>2, <3>1 DEF TypeOK
          <6>2. first[r] \in Seqs /\ Stored(chunks[r][first[r]], r, first[r])
            BY <1>a, <6>1
          <6>3. chunks[r][first[r]] # 0 /\ chunks[r][first[r]] # t
            BY <3>1, <6>1, <6>2 DEF Stored, StorersOK
          <6>4. chunks'[r][first[r]] = chunks[r][first[r]]
            BY <3>1, <3>2, <4>1, <6>2, <6>3 DEF TypeOK
          <6>5. tasks'[chunks[r][first[r]]] = tasks[chunks[r][first[r]]]
            BY <4>2, <6>2, <6>3 DEF Stored
          <6> QED
            BY <4>1, <6>1, <6>4, <6>5 DEF FirstChunkPinnedOrCut
        <5> QED
          BY <5>1, <5>2
      <4> QED
        BY <4>3 DEF FirstChunkPinnedOrCut
    <3>3. CASE ~(chunks[s][q] = 0 /\ Host[s] = tasks[t].by /\ stream[s] = "live")
      <4>1. /\ Step(t, "refused", {}) \/ Step(t, "done", {})
            /\ UNCHANGED <<chunks, first, status>>
        BY <2>3, <3>3 DEF ChunkJob, AfterChunk, pinVars, pinTable
      <4> QED
        BY <2>1, <3>1, <4>1 DEF Pcs
    <3> QED
      BY <3>2, <3>3
  <2>4. CASE PinFirst(t)
    <3> DEFINE q == tasks[t].seq
    <3>1. /\ q \in Seqs /\ CidOf[q] \in Cids /\ Enqueue(CidOf[q]) /\ Step(t, "fanout", {})
          /\ UNCHANGED <<chunks, first>>
      BY <2>4, LiveAssumption DEF PinFirst, Task, KindsOK
    <3>2. status'[CidOf[q]] # "none" /\ \A d \in Cids : status[d] # "none" => status'[d] # "none"
      BY <3>1, EnqueueTypes DEF TypeOK
    <3>3. \A x \in DOMAIN tasks : x # t => tasks'[x] = tasks[x]
      BY <3>1, StepFields DEF TypeOK, Pcs
    <3>4. ASSUME NEW s \in Rooms, first[s] # 0
          PROVE  \/ status'[CidOf[first[s]]] # "none"
                 \/ tasks'[chunks[s][first[s]]].pc \in {"pin", "cut"}
      <4>1. Stored(chunks[s][first[s]], s, first[s]) /\ CidOf[first[s]] \in Cids
        BY <1>a, <3>4
      <4>2. CASE chunks[s][first[s]] = t
        BY <3>2, <4>1, <4>2 DEF Stored
      <4>3. CASE chunks[s][first[s]] # t
        BY <3>2, <3>3, <3>4, <4>1, <4>3 DEF Stored, FirstChunkPinnedOrCut
      <4> QED
        BY <4>2, <4>3
    <3> QED
      BY <3>1, <3>4 DEF FirstChunkPinnedOrCut
  <2>5. CASE EndJob(t)
    BY <2>1, <2>5 DEF EndJob, Pcs, pinVars, pinTable
  <2>6. CASE Fanout(t)
    <3>1. Recipients(t) \in SUBSET Users
      BY DEF Recipients, TypeOK, Task
    <3> QED
      BY <2>1, <2>6, <3>1 DEF Fanout, AfterSends, Pcs, pinVars, pinTable
  <2>7. ASSUME NEW u \in Users, Send(t, u) PROVE FirstChunkPinnedOrCut'
    <3>1. tasks[t].to \ {u} \in SUBSET Users
      BY DEF Task
    <3> QED
      BY <2>1, <2>7, <3>1 DEF Send, AfterSends, Pcs, pinVars, pinTable
  <2>8. CASE HostJoins(t)
    BY <2>1, <2>8 DEF HostJoins, Pcs, pinVars, pinTable
  <2>9. CASE Close(t)
    BY <2>1, <2>9 DEF Close, Pcs, pinVars, pinTable
  <2>10. CASE HangUp(t)
    BY <2>1, <2>10 DEF HangUp, Pcs, pinVars, pinTable
  <2> QED
    BY <1>4, <2>2, <2>3, <2>4, <2>5, <2>6, <2>7, <2>8, <2>9, <2>10 DEF RunTask
<1>5. ASSUME NEW c \in Conns, RunSession(c) PROVE FirstChunkPinnedOrCut'
  BY <1>1, <1>5, SessionsLeave DEF pinVars, pinTable
<1>6. CASE Crash
  <2>1. UNCHANGED <<first, chunks, status>>
    BY <1>6 DEF Crash, PinningCrash, pinTable
  <2> QED
    BY <1>1, <1>6, <2>1, CrashFields DEF TypeOK, Finished
<1> QED
  BY <1>2, <1>3, <1>4, <1>5, <1>6 DEF Next, Calls

(* The cid of a stream's first chunk has its pin job, unless the task that *)
(* stored the chunk is about to make it, or was cut between its two jobs:  *)
(* a hang-up or a crash there is the only way to a stream without a pin.   *)
THEOREM FirstChunkPinnedOrCutAlways == Spec => []FirstChunkPinnedOrCut
<1>1. Init => FirstChunkPinnedOrCut
  BY DEF Init, FirstChunkPinnedOrCut
<1> QED
  BY <1>1, FirstChunkStep, History, PTL DEF Spec

-----------------------------------------------------------------------------
(* Rooms and audiences.                                                    *)

LEMMA RoomsStep ==
  ASSUME TypeOK, KindsOK, RoomsIInv, [Next]_vars
  PROVE  RoomsIInv'
<1> USE HubAssumption DEF RoomsIInv
<1>1. CASE UNCHANGED <<clients, rooms, audience, sweptLate, session>>
  BY <1>1 DEF AudienceOnline, AudienceKept, RoomsHoldListeners, Online
<1>2. CASE UNCHANGED vars \/ Calls
  BY <1>1, <1>2 DEF vars, liveVars, hubVars, Calls, CallCreate, CallEnd, CallChunk, WsChunk, Start
<1>3. ASSUME NEW t \in DOMAIN tasks, RunTask(t) PROVE RoomsIInv'
  <2>1. tasks[t] \in Task
    BY DEF TypeOK
  <2>2. CASE HostJoins(t)
    <3> DEFINE s == tasks[t].s
               u == tasks[t].by
    <3>1. /\ s \in Rooms /\ u = Host[s]
          /\ rooms' = [rooms EXCEPT ![s] = @ \cup {u}]
          /\ UNCHANGED <<clients, audience, sweptLate, session>>
      BY <2>1, <2>2 DEF HostJoins, JoinRoom, KindsOK, Task
    <3> HIDE DEF s, u
    <3>2. \A r \in Rooms : rooms[r] \subseteq rooms'[r]
                             /\ \A v \in rooms'[r] : v \in rooms[r] \/ v = Host[r]
      BY <3>1 DEF TypeOK
    <3>3. AudienceOnline' /\ AudienceKept'
      BY <3>1, <3>2 DEF AudienceOnline, AudienceKept, Online, TypeOK
    <3>4. RoomsHoldListeners'
      BY <3>1, <3>2 DEF RoomsHoldListeners, Online
    <3> QED
      BY <3>3, <3>4
  <2>3. CASE Close(t)
    <3> DEFINE s == tasks[t].s
    <3>1. /\ s \in Rooms /\ rooms' = [rooms EXCEPT ![s] = {}]
          /\ audience' = {m \in audience : m[1] # s}
          /\ UNCHANGED <<clients, sweptLate, session>>
      BY <2>1, <2>3 DEF Close, CloseRoom, Task
    <3> HIDE DEF s
    <3>2. AudienceOnline' /\ AudienceKept'
      BY <3>1 DEF AudienceOnline, AudienceKept, Online, TypeOK
    <3>3. \A r \in Rooms : rooms'[r] \subseteq rooms[r]
      BY <3>1 DEF TypeOK
    <3>4. RoomsHoldListeners'
      BY <3>1, <3>3 DEF RoomsHoldListeners, Online
    <3> QED
      BY <3>2, <3>4
  <2>4. CASE ~HostJoins(t) /\ ~Close(t)
    BY <1>1, <1>3, <2>4 DEF RunTask, CreateJob, ChunkJob, PinFirst, EndJob, Fanout, Send, HangUp,
                            SendToUser, hubVars
  <2> QED
    BY <2>2, <2>3, <2>4
<1>4. ASSUME NEW c \in Conns, RunSession(c) PROVE RoomsIInv'
  <2>1. CASE Connect(c)
    <3>1. /\ clients' = clients \cup {c} /\ session[c] = "new"
          /\ session' = [session EXCEPT ![c] = "open"]
          /\ UNCHANGED <<rooms, audience, sweptLate>>
      BY <2>1 DEF Connect, Register
    <3>2. \A d \in Conns : session[d] = "sweeping" => session'[d] = "sweeping"
      BY <3>1 DEF TypeOK
    <3>3. \A u : Online(u) => Online(u)'
      BY <3>1 DEF Online
    <3> QED
      BY <3>1, <3>2, <3>3 DEF AudienceOnline, AudienceKept, RoomsHoldListeners
  <2>2. CASE Disconnect(c)
    <3>1. /\ clients' = clients \ {c} /\ session[c] = "open" /\ c \in clients
          /\ session' = [session EXCEPT ![c] = IF Gone(c) THEN "sweeping" ELSE "closed"]
          /\ audience' = IF Gone(c) THEN {m \in audience : m[2] # Owner[c]} ELSE audience
          /\ UNCHANGED <<rooms, sweptLate>>
      BY <2>2 DEF Disconnect, Unregister, TypeOK
    <3>2. \A u : Online(u) => Online(u)' \/ (u = Owner[c] /\ Gone(c))
      BY <3>1 DEF Online, Gone
    <3>3. /\ \A d \in Conns : session[d] = "sweeping" => session'[d] = "sweeping"
          /\ Gone(c) => session'[c] = "sweeping"
      BY <3>1 DEF TypeOK
    <3>4. AudienceOnline' /\ AudienceKept'
      BY <3>1, <3>2 DEF AudienceOnline, AudienceKept
    <3>5. RoomsHoldListeners'
      BY <3>1, <3>2, <3>3 DEF RoomsHoldListeners
    <3> QED
      BY <3>4, <3>5
  <2>3. CASE Sweep(c)
    <3>1. /\ session[c] = "sweeping" /\ session' = [session EXCEPT ![c] = "closed"]
          /\ rooms' = [s \in Rooms |-> rooms[s] \ {Owner[c]}]
          /\ sweptLate' = IF Online(Owner[c])
                          THEN sweptLate \cup {m \in audience : m[2] = Owner[c]} ELSE sweptLate
          /\ UNCHANGED <<clients, audience>>
      BY <2>3 DEF Sweep, SweepRooms, sessionOnly
    <3>2. AudienceOnline'
      BY <3>1 DEF AudienceOnline, Online
    <3>3. AudienceKept'
      BY <3>1 DEF AudienceOnline, AudienceKept, TypeOK
    <3>4. \A d \in Conns : session[d] = "sweeping" => session'[d] = "sweeping" \/ d = c
      BY <3>1 DEF TypeOK
    <3>5. RoomsHoldListeners'
      BY <3>1, <3>4 DEF RoomsHoldListeners, Online
    <3> QED
      BY <3>2, <3>3, <3>5
  <2>4. ASSUME NEW s \in Rooms, Join(c, s) PROVE RoomsIInv'
    <3>1. /\ c \in clients /\ rooms' = [rooms EXCEPT ![s] = @ \cup {Owner[c]}]
          /\ audience' = audience \cup {<<s, Owner[c]>>}
          /\ sweptLate' = sweptLate \ {<<s, Owner[c]>>}
          /\ UNCHANGED <<clients, session>>
      BY <2>4 DEF Join, JoinRoom, TypeOK
    <3>2. Online(Owner[c])' /\ \A u : Online(u) => Online(u)'
      BY <3>1 DEF Online
    <3>3. \A r \in Rooms : /\ rooms[r] \subseteq rooms'[r]
                           /\ \A v \in rooms'[r] : v \in rooms[r] \/ v = Owner[c]
                           /\ r = s => Owner[c] \in rooms'[r]
      BY <3>1 DEF TypeOK
    <3>4. AudienceOnline'
      BY <3>1, <3>2 DEF AudienceOnline
    <3>5. AudienceKept'
      <4> SUFFICES ASSUME NEW m \in audience' PROVE m[2] \in rooms'[m[1]] \/ m \in sweptLate'
        BY DEF AudienceKept
      <4>1. CASE m = <<s, Owner[c]>>
        BY <3>3, <4>1
      <4>2. CASE m # <<s, Owner[c]>>
        <5>1. m \in audience /\ m[1] \in Rooms
          BY <3>1, <4>2 DEF TypeOK
        <5> QED
          BY <3>1, <3>3, <4>2, <5>1 DEF AudienceKept
      <4> QED
        BY <4>1, <4>2
    <3>6. RoomsHoldListeners'
      BY <3>1, <3>2, <3>3 DEF RoomsHoldListeners
    <3> QED
      BY <3>4, <3>5, <3>6
  <2>5. ASSUME NEW s \in Rooms, Leave(c, s) PROVE RoomsIInv'
    <3>1. /\ rooms' = [rooms EXCEPT ![s] = @ \ {Owner[c]}]
          /\ audience' = audience \ {<<s, Owner[c]>>}
          /\ UNCHANGED <<clients, session, sweptLate>>
      BY <2>5 DEF Leave, LeaveRoom, sessionOnly
    <3>2. \A r \in Rooms : /\ rooms'[r] \subseteq rooms[r]
                           /\ \A v \in rooms[r] : v \in rooms'[r] \/ (v = Owner[c] /\ r = s)
      BY <3>1 DEF TypeOK
    <3>3. AudienceOnline'
      BY <3>1 DEF AudienceOnline, Online
    <3>4. AudienceKept'
      <4> SUFFICES ASSUME NEW m \in audience' PROVE m[2] \in rooms'[m[1]] \/ m \in sweptLate'
        BY DEF AudienceKept
      <4>1. m \in audience /\ m # <<s, Owner[c]>> /\ m[1] \in Rooms /\ m = <<m[1], m[2]>>
        BY <3>1 DEF TypeOK
      <4> QED
        BY <3>1, <3>2, <4>1 DEF AudienceKept
    <3>5. RoomsHoldListeners'
      BY <3>1, <3>2 DEF RoomsHoldListeners, Online
    <3> QED
      BY <3>3, <3>4, <3>5
  <2> QED
    BY <1>4, <2>1, <2>2, <2>3, <2>4, <2>5 DEF RunSession
<1>5. CASE Crash
  <2>1. rooms' = [s \in Rooms |-> {}] /\ audience' = {}
    BY <1>5 DEF Crash
  <2> QED
    BY <2>1 DEF AudienceOnline, AudienceKept, RoomsHoldListeners
<1> QED
  BY <1>2, <1>3, <1>4, <1>5 DEF Next, Calls

LEMMA RoomsHistory == Spec => []RoomsIInv
<1>1. Init => RoomsIInv
  BY DEF Init, HubInit, RoomsIInv, AudienceOnline, AudienceKept, RoomsHoldListeners
<1>2. HistoryIInv => TypeOK /\ KindsOK
  BY DEF HistoryIInv
<1> QED
  BY <1>1, <1>2, RoomsStep, History, PTL DEF Spec

(* Who asked to join a room is in it until leaving, losing the last        *)
(* connection or the end of the stream, or is one whom the sweep of an     *)
(* earlier disconnection took out while another connection had joined.     *)
THEOREM AudienceStays == Spec => []AudienceKept
<1>1. RoomsIInv => AudienceKept
  BY DEF RoomsIInv
<1> QED
  BY <1>1, RoomsHistory, PTL

(* Rooms do not outlive their members' connections but for hosts, and      *)
(* members who are about to be swept.                                      *)
THEOREM RoomsHoldNobodyElse == Spec => []RoomsHoldListeners
<1>1. RoomsIInv => RoomsHoldListeners
  BY DEF RoomsIInv
<1> QED
  BY <1>1, RoomsHistory, PTL
===============================================================================
