----------------------------- MODULE LiveStreams -----------------------------
(***************************************************************************)
(* Live streams (src/src/api/live.rs) over the hub and the pinning queue.  *)
(*                                                                         *)
(* A host creates a stream, announces its chunks over its WebSocket or by  *)
(* REST, possibly more than once, and ends it. Each request is a task that *)
(* runs from one await to the next, beside every other task and the        *)
(* sessions of ws/session.rs. The pin worker runs in module Content.       *)
(* A WebSocket session handles its frames one at a time; a REST task ends  *)
(* where it is when its client hangs up; all end when the process dies.    *)
(***************************************************************************)
EXTENDS Hub, Pinning

CONSTANTS
  Host,      (* [Rooms -> Users]                                            *)
  Seqs,      (* chunk numbers                                               *)
  CidOf,     (* [Seqs -> Cids]: what a chunk holds                          *)
  Callers,   (* bound: the users who make requests in a run                 *)
  MaxTasks,  (* bound: requests in a run                                    *)
  MaxCrashes (* bound: restarts in a run                                    *)

ASSUME LiveAssumption ==
  /\ Host \in [Rooms -> Users] /\ Callers \subseteq Users
  /\ Seqs \subseteq Nat \ {0} /\ CidOf \in [Seqs -> Cids]
  /\ MaxTasks \in Nat /\ MaxCrashes \in Nat /\ "rest" \notin Conns

VARIABLES
  stream,    (* [Rooms -> "none" | "live" | "ended"]                        *)
  chunks,    (* live_chunks: the task that stored each seq, 0 for no row    *)
  first,     (* the first seq stored, 0 before                              *)
  tasks,     (* requests made so far, the oldest first                      *)
  session,   (* WebSocket sessions: what each connection is doing           *)
  audience,  (* history: <<s, u>> who asked to join and may expect chunks   *)
  sweptLate, (* history: those of them swept from the rooms while online    *)
  crashes

liveVars == <<stream, chunks, first, tasks, audience, sweptLate, crashes>>
vars == <<liveVars, session, hubVars, pinVars>>

Task == [kind : {"create", "chunk", "end"}, s : Rooms, by : Users,
         via : Conns \cup {"rest"}, seq : Seqs \cup {0},
         pc : {"job", "pin", "fanout", "send", "join", "close",
               "done", "refused", "cut"},
         to : SUBSET Users]

(* What the outboxes keep: live.chunk and live.end. Nothing is said here   *)
(* of live.start, live.joined and error replies, which change no state.    *)
Message == Rooms \X (Seqs \cup {0})

Finished(t) == tasks[t].pc \in {"done", "refused", "cut"}
Busy(c) == \E t \in DOMAIN tasks : tasks[t].via = c /\ ~Finished(t)

Init ==
  /\ HubInit /\ PinningInit
  /\ stream = [s \in Rooms |-> "none"]
  /\ chunks = [s \in Rooms |-> [q \in Seqs |-> 0]]
  /\ first = [s \in Rooms |-> 0]
  /\ tasks = << >> /\ crashes = 0
  /\ session = [c \in Conns |-> "new"]
  /\ audience = {} /\ sweptLate = {}

-----------------------------------------------------------------------------
(* Requests.                                                               *)

Start(k, s, u, via, q) ==
  /\ Len(tasks) < MaxTasks /\ u \in Callers
  /\ tasks' = Append(tasks, [kind |-> k, s |-> s, by |-> u, via |-> via,
                             seq |-> q, pc |-> "job", to |-> {}])
  /\ UNCHANGED <<stream, chunks, first, audience, sweptLate, crashes,
                 session, hubVars, pinVars>>

(* The id is drawn by the server: one create for each stream, and no other *)
(* request for it before create has answered.                              *)
Known(s) == \E t \in DOMAIN tasks :
  tasks[t].kind = "create" /\ tasks[t].s = s /\ tasks[t].pc = "done"

CallCreate(s) ==
  /\ \A t \in DOMAIN tasks : ~(tasks[t].kind = "create" /\ tasks[t].s = s)
  /\ Start("create", s, Host[s], "rest", 0)

CallEnd(s, u) == Known(s) /\ Start("end", s, u, "rest", 0)

CallChunk(s, u, q) == Known(s) /\ Start("chunk", s, u, "rest", q)

(* A plausible slip: frames of one socket are handled in tasks of their    *)
(* own.                                                                    *)
WsChunkSpawned(c, s, q) ==
  Known(s) /\ session[c] = "open" /\ Start("chunk", s, Owner[c], c, q)

WsChunk(c, s, q) ==
  /\ Known(s) /\ session[c] = "open" /\ ~Busy(c)
  /\ Start("chunk", s, Owner[c], c, q)

Step(t, pc, to) == tasks' = [tasks EXCEPT ![t].pc = pc, ![t].to = to]

CreateJob(t) ==
  /\ tasks[t].kind = "create" /\ tasks[t].pc = "job"
  /\ stream' = [stream EXCEPT ![tasks[t].s] = "live"]
  /\ Step(t, "join", {})
  /\ UNCHANGED <<chunks, first, audience, sweptLate, crashes, session, hubVars, pinVars>>

(* A plausible slip: the chunks are counted after the insert, not before.  *)
AfterChunkCountedLate(s, fresh) == IF fresh THEN "fanout" ELSE "done"

(* A plausible slip: a repeated announcement is broadcast again.           *)
AfterChunkRebroadcast(s, fresh) == IF first[s] = 0 THEN "pin" ELSE "fanout"

(* Whether to pin, broadcast, or only answer, once the job has run.        *)
AfterChunk(s, fresh) ==
  IF ~fresh THEN "done" ELSE IF first[s] = 0 THEN "pin" ELSE "fanout"

(* The job of announce_chunk_core: refused unless the caller hosts a live  *)
(* stream; a seq is stored once.                                           *)
ChunkJob(t) ==
  LET s == tasks[t].s  q == tasks[t].seq  fresh == chunks[s][q] = 0 IN
  /\ tasks[t].kind = "chunk" /\ tasks[t].pc = "job"
  /\ IF Host[s] # tasks[t].by \/ stream[s] # "live"
     THEN Step(t, "refused", {}) /\ UNCHANGED <<chunks, first>>
     ELSE /\ chunks' = IF fresh THEN [chunks EXCEPT ![s][q] = t] ELSE chunks
          /\ first' = IF fresh /\ first[s] = 0 THEN [first EXCEPT ![s] = q] ELSE first
          /\ Step(t, AfterChunk(s, fresh), {})
  /\ UNCHANGED <<stream, audience, sweptLate, crashes, session, hubVars, pinVars>>

(* The enqueue of the first chunk, a job of its own.                       *)
PinFirst(t) ==
  /\ tasks[t].pc = "pin"
  /\ Enqueue(CidOf[tasks[t].seq])
  /\ Step(t, "fanout", {})
  /\ UNCHANGED <<stream, chunks, first, audience, sweptLate, crashes, session, hubVars>>

EndJob(t) ==
  LET s == tasks[t].s  mine == Host[s] = tasks[t].by /\ stream[s] = "live" IN
  /\ tasks[t].kind = "end" /\ tasks[t].pc = "job"
  /\ stream' = IF mine THEN [stream EXCEPT ![s] = "ended"] ELSE stream
  /\ Step(t, IF mine THEN "fanout" ELSE "refused", {})
  /\ UNCHANGED <<chunks, first, audience, sweptLate, crashes, session, hubVars, pinVars>>

(* The recipients are copied first, and sent to one by one. The host of a  *)
(* chunk is not among them.                                                *)
Recipients(t) == IF tasks[t].kind = "chunk" THEN rooms[tasks[t].s] \ {tasks[t].by}
                                            ELSE rooms[tasks[t].s]

AfterSends(t) == IF tasks[t].kind = "chunk" THEN "done" ELSE "close"

Fanout(t) ==
  /\ tasks[t].pc = "fanout"
  /\ Step(t, IF Recipients(t) = {} THEN AfterSends(t) ELSE "send", Recipients(t))
  /\ UNCHANGED <<stream, chunks, first, audience, sweptLate, crashes,
                 session, hubVars, pinVars>>

Send(t, u) ==
  /\ tasks[t].pc = "send" /\ u \in tasks[t].to
  /\ SendToUser(u, <<tasks[t].s, tasks[t].seq>>)
  /\ Step(t, IF tasks[t].to = {u} THEN AfterSends(t) ELSE "send", tasks[t].to \ {u})
  /\ UNCHANGED <<stream, chunks, first, audience, sweptLate, crashes, session, pinVars>>

HostJoins(t) ==
  /\ tasks[t].pc = "join"
  /\ JoinRoom(tasks[t].s, tasks[t].by)
  /\ Step(t, "done", {})
  /\ UNCHANGED <<stream, chunks, first, audience, sweptLate, crashes, session, pinVars>>

Close(t) ==
  /\ tasks[t].pc = "close"
  /\ CloseRoom(tasks[t].s)
  /\ audience' = {m \in audience : m[1] # tasks[t].s}
  /\ Step(t, "done", {})
  /\ UNCHANGED <<stream, chunks, first, sweptLate, crashes, session, pinVars>>

(* The client of a REST request hangs up and its handler is dropped.       *)
HangUp(t) ==
  /\ tasks[t].via = "rest" /\ ~Finished(t)
  /\ Step(t, "cut", {})
  /\ UNCHANGED <<stream, chunks, first, audience, sweptLate, crashes,
                 session, hubVars, pinVars>>

RunTask(t) ==
  \/ CreateJob(t) \/ ChunkJob(t) \/ PinFirst(t) \/ EndJob(t) \/ Fanout(t)
  \/ (\E u \in Users : Send(t, u))
  \/ HostJoins(t) \/ Close(t) \/ HangUp(t)

-----------------------------------------------------------------------------
(* WebSocket sessions.                                                     *)

sessionOnly == <<stream, chunks, first, tasks, crashes, pinVars>>

Connect(c) ==
  /\ session[c] = "new"
  /\ Register(c)
  /\ session' = [session EXCEPT ![c] = "open"]
  /\ UNCHANGED <<sessionOnly, audience, sweptLate>>

(* live.join, whatever the stream's status.                                *)
Join(c, s) ==
  /\ session[c] = "open" /\ ~Busy(c)
  /\ JoinRoom(s, Owner[c])
  /\ audience' = audience \cup {<<s, Owner[c]>>}
  /\ sweptLate' = sweptLate \ {<<s, Owner[c]>>}
  /\ UNCHANGED <<sessionOnly, session>>

Leave(c, s) ==
  /\ session[c] = "open" /\ ~Busy(c) /\ Owner[c] \in rooms[s]
  /\ LeaveRoom(s, Owner[c])
  /\ audience' = audience \ {<<s, Owner[c]>>}
  /\ UNCHANGED <<sessionOnly, session, sweptLate>>

(* The read loop ends. The rooms are swept in a second step when this was  *)
(* the user's last connection, which by then it may no longer be.          *)
Disconnect(c) ==
  /\ session[c] = "open" /\ ~Busy(c)
  /\ Unregister(c)
  /\ session' = [session EXCEPT ![c] = IF Gone(c) THEN "sweeping" ELSE "closed"]
  /\ audience' = IF Gone(c) THEN {m \in audience : m[2] # Owner[c]} ELSE audience
  /\ UNCHANGED <<sessionOnly, sweptLate>>

(* A plausible slip: the rooms are left alone.                             *)
SweepNothing(c) ==
  /\ session[c] = "sweeping"
  /\ session' = [session EXCEPT ![c] = "closed"]
  /\ UNCHANGED <<sessionOnly, audience, sweptLate, hubVars>>

Sweep(c) ==
  /\ session[c] = "sweeping"
  /\ SweepRooms(Owner[c])
  /\ session' = [session EXCEPT ![c] = "closed"]
  /\ sweptLate' = IF Online(Owner[c])
                  THEN sweptLate \cup {m \in audience : m[2] = Owner[c]} ELSE sweptLate
  /\ UNCHANGED <<sessionOnly, audience>>

RunSession(c) ==
  \/ Connect(c) \/ Disconnect(c) \/ Sweep(c)
  \/ \E s \in Rooms : Join(c, s) \/ Leave(c, s)

-----------------------------------------------------------------------------
Crash ==
  /\ crashes < MaxCrashes
  /\ crashes' = crashes + 1
  /\ tasks' = [t \in DOMAIN tasks |->
       IF Finished(t) THEN tasks[t] ELSE [tasks[t] EXCEPT !.pc = "cut", !.to = {}]]
  /\ session' = [c \in Conns |-> IF session[c] = "new" THEN "new" ELSE "closed"]
  /\ clients' = {} /\ rooms' = [s \in Rooms |-> {}]
  /\ audience' = {} /\ sweptLate' = {}
  /\ PinningCrash
  /\ UNCHANGED <<stream, chunks, first, outbox>>

Next ==
  \/ \E s \in Rooms : CallCreate(s)
  \/ \E s \in Rooms, u \in Users : CallEnd(s, u)
  \/ \E s \in Rooms, u \in Users, q \in Seqs : CallChunk(s, u, q)
  \/ \E s \in Rooms, c \in Conns, q \in Seqs : WsChunk(c, s, q)
  \/ \E t \in DOMAIN tasks : RunTask(t)
  \/ \E c \in Conns : RunSession(c)
  \/ Crash

Spec == Init /\ [][Next]_vars

-----------------------------------------------------------------------------
(* Properties.                                                             *)

TypeOK ==
  /\ stream \in [Rooms -> {"none", "live", "ended"}]
  /\ chunks \in [Rooms -> [Seqs -> 0..MaxTasks]]
  /\ first \in [Rooms -> Seqs \cup {0}]
  /\ tasks \in Seq(Task) /\ Len(tasks) <= MaxTasks
  /\ \A t \in DOMAIN tasks : tasks[t].pc = "send" <=> tasks[t].to # {}
  /\ session \in [Conns -> {"new", "open", "sweeping", "closed"}]
  /\ clients = {c \in Conns : session[c] = "open"}
  /\ rooms \in [Rooms -> SUBSET Users]
  /\ outbox \in [Conns -> Seq(Message)]
  /\ audience \subseteq Rooms \X Users /\ sweptLate \subseteq Rooms \X Users
  /\ crashes \in 0..MaxCrashes
  /\ PinningTypeOK

(* However often a chunk is announced, over WebSocket, REST or both at     *)
(* once, no connection is told of it twice (live.rs: INSERT OR IGNORE).    *)
ChunkOnce ==
  \A c \in Conns : \A i, j \in DOMAIN outbox[c] :
    i # j /\ outbox[c][i][2] # 0 => outbox[c][i] # outbox[c][j]

Storer(m) == chunks[m[1]][m[2]]

(* The chunks that the host stores over one socket reach each viewer in    *)
(* the order in which they were sent (session.rs: one frame at a time).    *)
WsInOrder ==
  \A c \in Conns : \A i, j \in DOMAIN outbox[c] :
    (/\ i < j /\ outbox[c][i][2] # 0 /\ outbox[c][j][2] # 0
     /\ tasks[Storer(outbox[c][i])].via = tasks[Storer(outbox[c][j])].via
     /\ tasks[Storer(outbox[c][i])].via \in Conns)
    => Storer(outbox[c][i]) < Storer(outbox[c][j])

(* Who asked to join is a member until leaving, losing the last connection *)
(* or the end of the stream, unless the sweep of an earlier disconnection  *)
(* came after a new connection had joined: unregister gives up the lock on *)
(* clients before it takes the one on rooms (hub.rs).                      *)
AudienceKept ==
  \A m \in audience : m[2] \in rooms[m[1]] \/ m \in sweptLate

(* Rooms do not outlive their members' connections, but for a host who     *)
(* created the stream without one: a member who is not connected is about  *)
(* to be swept.                                                            *)
RoomsHoldListeners ==
  \A s \in Rooms : \A u \in rooms[s] :
    \/ Online(u) \/ u = Host[s]
    \/ \E c \in Conns : Owner[c] = u /\ session[c] = "sweeping"

(* The cid of a stream's first chunk has a pin job, or the task that       *)
(* stored the chunk is about to make it, or was cut before it could        *)
(* (live.rs: two jobs, the second after the answer to the first).          *)
FirstChunkPinnedOrCut ==
  \A s \in Rooms : first[s] # 0 =>
    LET t == chunks[s][first[s]] IN
    status[CidOf[first[s]]] # "none" \/ tasks[t].pc \in {"pin", "cut"}

(* live.rs says of announce_chunk_core that it "persists the chunk, pins   *)
(* the FIRST chunk": when the host has an answer for the first chunk, and  *)
(* nobody is still at it, the chunk has its pin job.                       *)
AnsweredChunksArePinned ==
  \A t \in DOMAIN tasks : LET s == tasks[t].s IN
    (/\ tasks[t].kind = "chunk" /\ tasks[t].pc = "done" /\ tasks[t].seq = first[s]
     /\ tasks[chunks[s][first[s]]].pc # "pin")
    => status[CidOf[first[s]]] # "none"
=============================================================================
