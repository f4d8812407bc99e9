---------------------------- MODULE DirectMessages ----------------------------
(***************************************************************************)
(* Direct messages and reactions (src/src/api/dm.rs, the dm.* frames of    *)
(* src/src/ws/session.rs) over the hub.                                    *)
(*                                                                         *)
(* A request runs from one await to the next beside all others: a writer   *)
(* job, a read of the pool and a send through the hub are separate steps.  *)
(* Sends and read marks come by REST or over a WebSocket, which handles    *)
(* its frames one at a time; the rest is REST. Message ids are ULIDs,      *)
(* whose order within a millisecond is random: any free id is taken.       *)
(* Emojis are keys after normalize_emoji; what it refuses starts nothing.  *)
(***************************************************************************)
EXTENDS Hub, FiniteSetsExt

CONSTANTS
  Emojis,
  MaxId,     (* bound: message ids are 1..MaxId                             *)
  MaxReqs,   (* bound: requests in a run                                    *)
  Contacts,  (* bound: <<u, v>> for whom u opens a thread with v, or tries  *)
  Strangers  (* bound: users who send to, or react in, threads not theirs   *)

ASSUME DirectAssumption ==
  /\ Users \subseteq Nat \ {0} /\ Strangers \subseteq Users
  /\ Contacts \subseteq Users \X Users
  /\ MaxId \in Nat /\ MaxReqs \in Nat
  /\ "none" \notin Emojis /\ "rest" \notin Conns

Ids == 1..MaxId
Nobody == 0

VARIABLES
  threads,   (* rows of dm_threads: [id, pair], id the request that made it *)
  message,   (* dm_messages by id: thread (0 for no row), sender, reader    *)
  reactions, (* dm_reactions: [Ids -> [Users -> Emojis or "none"]]          *)
  reqs,      (* requests made so far, the oldest first                      *)
  closed     (* connections that have ended                                 *)

vars == <<threads, message, reactions, reqs, closed, hubVars>>

Aggregates == [Users -> Emojis \cup {"none"}]
NoReactions == [u \in Users |-> "none"]

Request == [op : {"thread", "send", "read", "react", "clear"},
            by : Users, via : Conns \cup {"rest"},
            pc : {"open", "store", "push", "ack", "error", "mark", "receipt",
                  "toggle", "aggregate", "show", "done", "refused", "cut"},
            thread : 0..MaxReqs, other : Users \cup {Nobody}, msg : Ids \cup {0},
            emoji : Emojis \cup {"none"}, seen : Aggregates,
            (* history: connections at the job, what it marked, and whether *)
            (* no other reaction of this user to this message was under way *)
            online : SUBSET Conns, marked : SUBSET Ids, alone : BOOLEAN]

Over(r) == r.pc \in {"done", "refused", "cut"}
Busy(c) == \E n \in DOMAIN reqs : reqs[n].via = c /\ ~Over(reqs[n])
Stored(i) == message[i].thread # 0
Members(t) == UNION {{r.pair[1], r.pair[2]} : r \in {s \in threads : s.id = t}}

Init ==
  /\ HubInit
  /\ threads = {} /\ reqs = << >> /\ closed = {}
  /\ message = [i \in Ids |-> [thread |-> 0, sender |-> Nobody, reader |-> Nobody]]
  /\ reactions = [i \in Ids |-> NoReactions]

(* A plausible slip: the pair is stored as the request gives it.           *)
CanonicalPairAsGiven(u, v) == <<u, v>>

CanonicalPair(u, v) == IF u <= v THEN <<u, v>> ELSE <<v, u>>

(* A plausible slip: whoever is not user_a is taken for user_b.            *)
PeersUnchecked(t, u) ==
  {IF r.pair[1] = u THEN r.pair[2] ELSE r.pair[1] : r \in {s \in threads : s.id = t}}

(* thread_peer and message_peer: the other member; {} when there is no     *)
(* such thread or the caller is not in it.                                 *)
Peers(t, u) == IF u \in Members(t) THEN Members(t) \ {u} ELSE {}

Update(n, r) == reqs' = [reqs EXCEPT ![n] = r]
At(n, op, pc) == reqs[n].op \in op /\ reqs[n].pc = pc

(* An error answer: over the socket as a frame, by REST as a status.       *)
Refusal(via) == IF via = "rest" THEN "refused" ELSE "error"

-----------------------------------------------------------------------------
(* Arrival.                                                                *)

Arrive(op, u, via, pc, f) ==
  /\ Len(reqs) < MaxReqs
  /\ \/ via = "rest"
     \/ via \in clients /\ Owner[via] = u /\ ~Busy(via)
  /\ reqs' = Append(reqs,
       [op |-> op, by |-> u, via |-> via, pc |-> pc,
        thread |-> f.thread, other |-> f.other, msg |-> f.msg, emoji |-> f.emoji,
        seen |-> NoReactions, online |-> {}, marked |-> {},
        alone |-> \A n \in DOMAIN reqs :
                    At(n, {"react", "clear"}, reqs[n].pc) /\ reqs[n].by = u
                      /\ reqs[n].msg = f.msg => Over(reqs[n])])
  /\ UNCHANGED <<threads, message, reactions, closed, hubVars>>

Args(t, v, i, e) == [thread |-> t, other |-> v, msg |-> i, emoji |-> e]
ThreadIds == {r.id : r \in threads}

(* thread_create.                                                          *)
CreateThread(u, v) ==
  Arrive("thread", u, "rest", IF u = v THEN "refused" ELSE "open", Args(0, v, 0, "none"))

(* dm.new with to_user_id: opens the thread on its way.                    *)
SendTo(u, c, v) ==
  Arrive("send", u, c, IF u = v THEN "error" ELSE "open", Args(0, v, 0, "none"))

(* A payload that is not valid is refused first; then the peer is read.    *)
SendIn(u, via, t) ==
  \/ \E p \in Peers(t, u) : Arrive("send", u, via, "store", Args(t, p, 0, "none"))
  \/ Arrive("send", u, via, Refusal(via), Args(t, Nobody, 0, "none"))

MarkRead(u, via, t, upto) ==
  Arrive("read", u, via, "mark", Args(t, Nobody, upto, "none"))

React(u, i, e) == Arrive("react", u, "rest", "toggle", Args(0, Nobody, i, e))
ClearReaction(u, i) == Arrive("clear", u, "rest", "toggle", Args(0, Nobody, i, "none"))

-----------------------------------------------------------------------------
(* Steps of a request n.                                                   *)

Event(typ, n, t, i) ==
  [typ |-> typ, by |-> reqs[n].by, thread |-> t, msg |-> i, seen |-> reqs[n].seen]

(* Sends an event to user v, and goes on to pc.                            *)
Tell(n, v, event, pc) ==
  /\ SendToUser(v, event)
  /\ Update(n, [reqs[n] EXCEPT !.pc = pc])
  /\ UNCHANGED <<threads, message, reactions, closed>>

(* The job of get_or_create_thread: INSERT OR IGNORE on the pair, then     *)
(* whichever row has it.                                                   *)
OpenThread(n) ==
  LET r == reqs[n]  pair == CanonicalPair(r.by, r.other)
      rows == {s \in threads : s.pair = pair} IN
  /\ r.pc = "open"
  /\ threads' = IF rows = {} THEN threads \cup {[id |-> n, pair |-> pair]} ELSE threads
  /\ \E s \in {q \in threads' : q.pair = pair} :
       Update(n, [r EXCEPT !.thread = s.id,
                           !.pc = IF r.op = "send" THEN "store" ELSE "done"])
  /\ UNCHANGED <<message, reactions, closed, hubVars>>

Store(n) ==
  LET r == reqs[n] IN
  /\ r.pc = "store"
  /\ \E i \in {j \in Ids : ~Stored(j)} :
       /\ message' = [message EXCEPT ![i] =
            [thread |-> r.thread, sender |-> r.by, reader |-> Nobody]]
       /\ Update(n, [r EXCEPT !.msg = i, !.pc = "push", !.online = clients])
  /\ UNCHANGED <<threads, reactions, closed, hubVars>>

AfterPush(r) == IF r.via = "rest" THEN "done" ELSE "ack"

(* A plausible slip: dm.new goes back to the sender.                       *)
PushToSender(n) ==
  /\ reqs[n].pc = "push"
  /\ Tell(n, reqs[n].by, Event("dm.new", n, reqs[n].thread, reqs[n].msg), AfterPush(reqs[n]))

Push(n) ==
  /\ reqs[n].pc = "push"
  /\ Tell(n, reqs[n].other, Event("dm.new", n, reqs[n].thread, reqs[n].msg), AfterPush(reqs[n]))

Acknowledge(n) ==
  /\ reqs[n].pc = "ack"
  /\ Tell(n, reqs[n].by, Event("dm.ack", n, reqs[n].thread, reqs[n].msg), "done")

AnswerError(n) ==
  /\ reqs[n].pc = "error"
  /\ Tell(n, reqs[n].by, Event("error", n, 0, 0), "refused")

Marked(r, ms, peer, pc) ==
  [r EXCEPT !.marked = ms, !.other = peer, !.online = clients, !.pc = pc]

ReadBy(u, ms) == [i \in Ids |-> IF i \in ms THEN [message[i] EXCEPT !.reader = u]
                                            ELSE message[i]]

Unread(t, upto) ==
  {i \in 1..upto : Stored(i) /\ message[i].thread = t /\ message[i].reader = Nobody}

(* A plausible slip: a member's own messages are marked as well.           *)
MarkableOwn(r) == Unread(r.thread, r.msg)

(* What the UPDATE of mark_read_core matches.                              *)
Markable(r) == {i \in Unread(r.thread, r.msg) : message[i].sender # r.by}

(* A plausible slip: a receipt only for more than one message.             *)
AfterMarkOffByOne(ms) == IF Cardinality(ms) > 1 THEN "receipt" ELSE "done"

(* A receipt is sent only when something was marked.                       *)
AfterMark(ms) == IF ms # {} THEN "receipt" ELSE "done"

Mark(n) ==
  LET r == reqs[n] IN
  /\ r.pc = "mark"
  /\ \/ \E p \in Peers(r.thread, r.by) :
          /\ message' = ReadBy(r.by, Markable(r))
          /\ Update(n, Marked(r, Markable(r), p, AfterMark(Markable(r))))
     \/ /\ Peers(r.thread, r.by) = {}
        /\ Update(n, [r EXCEPT !.pc = "refused"]) /\ UNCHANGED message
  /\ UNCHANGED <<threads, reactions, closed, hubVars>>

Receipt(n) ==
  /\ reqs[n].pc = "receipt"
  /\ Tell(n, reqs[n].other, Event("dm.read", n, reqs[n].thread, reqs[n].msg), "done")

(* The row after a tap: the same emoji takes the reaction back, another    *)
(* one replaces it, and clear_my_reaction deletes whatever there is.       *)
Reacted(r) == IF r.op = "clear" \/ reactions[r.msg][r.by] = r.emoji THEN "none" ELSE r.emoji

(* A plausible slip: the aggregate is read before the tap is written.      *)
ToggleAggregatedFirst(n) ==
  LET r == reqs[n] IN
  /\ r.pc = "toggle"
  /\ \E p \in Peers(message[r.msg].thread, r.by) :
       /\ reactions' = [reactions EXCEPT ![r.msg][r.by] = Reacted(r)]
       /\ Update(n, [r EXCEPT !.other = p, !.online = clients, !.pc = "show",
                              !.seen = reactions[r.msg]])
  /\ UNCHANGED <<threads, message, closed, hubVars>>

(* The job of react_core and of clear_my_reaction.                         *)
Toggle(n) ==
  LET r == reqs[n] IN
  /\ r.pc = "toggle"
  /\ \/ \E p \in Peers(message[r.msg].thread, r.by) :
          /\ reactions' = [reactions EXCEPT ![r.msg][r.by] = Reacted(r)]
          /\ Update(n, [r EXCEPT !.other = p, !.online = clients, !.pc = "aggregate"])
     \/ /\ Peers(message[r.msg].thread, r.by) = {}
        /\ Update(n, [r EXCEPT !.pc = "refused"]) /\ UNCHANGED reactions
  /\ UNCHANGED <<threads, message, closed, hubVars>>

(* reaction_payload_for, on the read pool: what others have reacted since  *)
(* is in it. "mine" is set at the emoji of the request's own user.         *)
Aggregate(n) ==
  /\ reqs[n].pc = "aggregate"
  /\ Update(n, [reqs[n] EXCEPT !.seen = reactions[reqs[n].msg], !.pc = "show"])
  /\ UNCHANGED <<threads, message, reactions, closed, hubVars>>

Show(n) ==
  /\ reqs[n].pc = "show"
  /\ Tell(n, reqs[n].other,
          Event("dm.reaction", n, message[reqs[n].msg].thread, reqs[n].msg), "done")

(* The client of a REST request hangs up and its handler is dropped.       *)
HangUp(n) ==
  /\ reqs[n].via = "rest" /\ ~Over(reqs[n])
  /\ Update(n, [reqs[n] EXCEPT !.pc = "cut"])
  /\ UNCHANGED <<threads, message, reactions, closed, hubVars>>

Continue(n) ==
  \/ OpenThread(n) \/ Store(n) \/ Push(n) \/ Acknowledge(n) \/ AnswerError(n)
  \/ Mark(n) \/ Receipt(n) \/ Toggle(n) \/ Aggregate(n) \/ Show(n) \/ HangUp(n)

-----------------------------------------------------------------------------
(* Connections, and the end of the process. Rooms are LiveStreams' matter. *)

Connect(c) ==
  /\ c \notin clients \cup closed
  /\ Register(c)
  /\ UNCHANGED <<threads, message, reactions, reqs, closed>>

Disconnect(c) ==
  /\ c \in clients /\ ~Busy(c)
  /\ Unregister(c)
  /\ closed' = closed \cup {c}
  /\ UNCHANGED <<threads, message, reactions, reqs>>

Crash ==
  /\ reqs' = [n \in DOMAIN reqs |->
       IF Over(reqs[n]) THEN reqs[n] ELSE [reqs[n] EXCEPT !.pc = "cut"]]
  /\ clients' = {} /\ closed' = closed \cup clients
  /\ UNCHANGED <<threads, message, reactions, rooms, outbox>>

Vias(u) == {"rest"} \cup {c \in clients : Owner[c] = u}
Knowing(t) == Members(t) \cup Strangers
Known == {i \in Ids : Stored(i)}

Next ==
  \/ \E p \in Contacts : CreateThread(p[1], p[2])
  \/ \E p \in Contacts : \E c \in Vias(p[1]) \ {"rest"} : SendTo(p[1], c, p[2])
  \/ \E t \in ThreadIds : \E u \in Knowing(t) : \E w \in Vias(u) : SendIn(u, w, t)
  \/ \E t \in ThreadIds, i \in Known : \E u \in Knowing(t) : \E w \in Vias(u) :
       MarkRead(u, w, t, i)
  \/ \E i \in Known : \E u \in Knowing(message[i].thread) :
       (\E e \in Emojis : React(u, i, e)) \/ ClearReaction(u, i)
  \/ \E n \in DOMAIN reqs : Continue(n)
  \/ \E c \in Conns : Connect(c) \/ Disconnect(c)
  \/ Crash

Spec == Init /\ [][Next]_vars

-----------------------------------------------------------------------------
(* Properties.                                                             *)

(* A message belongs to a thread on file, its sender and its reader are    *)
(* the two members of it, and reactions hang on stored messages only       *)
(* (the foreign keys, and the membership checks of dm.rs).                 *)
TypeOK ==
  /\ threads \subseteq [id : 1..MaxReqs, pair : Users \X Users]
  /\ \A i \in Ids :
       \/ /\ {message[i].sender} \cup ({message[i].reader} \ {Nobody})
                 \subseteq Members(message[i].thread)
          /\ message[i].sender # message[i].reader
          /\ reactions[i] \in Aggregates
       \/ message[i].thread = 0 /\ reactions[i] = NoReactions
  /\ reqs \in Seq(Request) /\ Len(reqs) <= MaxReqs
  /\ clients \cap closed = {} /\ clients \cup closed \subseteq Conns

(* Two users never share two threads, whoever of them opens it first or    *)
(* both at once (dm_threads: UNIQUE on the canonical pair).                *)
OneThreadPerPair ==
  \A q, r \in threads : Members(q.id) = Members(r.id) => q = r

(* What a connection is given about a thread comes from a member of it and *)
(* goes to a member of it (thread_peer and message_peer).                  *)
MembersOnly ==
  \A c \in Conns : \A k \in DOMAIN outbox[c] : LET e == outbox[c][k] IN
    e.typ # "error" => {e.by, Owner[c]} \subseteq Members(e.thread)

Heard(c, typ, n) ==
  {k \in DOMAIN outbox[c] : /\ outbox[c][k].typ = typ
                            /\ outbox[c][k].by = reqs[n].by
                            /\ outbox[c][k].msg = reqs[n].msg}

(* A send that was answered is stored, and every connection that the peer  *)
(* has kept since then was given it exactly once.                          *)
AnsweredIsDelivered ==
  \A n \in DOMAIN reqs : LET r == reqs[n] IN
    r.op = "send" /\ r.pc \in {"ack", "done"} =>
      /\ message[r.msg].thread = r.thread /\ message[r.msg].sender = r.by
      /\ \A c \in r.online \cap clients :
           Owner[c] = r.other => Cardinality(Heard(c, "dm.new", n)) = 1

(* A message is read only because its recipient asked, by an id not below  *)
(* its own; and unless that request was cut, the sender's connections of   *)
(* the time were told.                                                     *)
ReadForAReason ==
  \A i \in Known : message[i].reader # Nobody =>
    \E n \in DOMAIN reqs : LET r == reqs[n] IN
      /\ r.op = "read" /\ r.by = message[i].reader /\ r.by # message[i].sender
      /\ r.thread = message[i].thread /\ i \in r.marked /\ i <= r.msg
      /\ r.pc = "done" => \A c \in r.online \cap clients :
           Owner[c] = message[i].sender => Heard(c, "dm.read", n) # {}

(* Once a user's taps on a message have all been answered, and none was    *)
(* made while another was under way, the last dm.reaction that each        *)
(* connection of the peer was given shows the reaction on file.            *)
PeerSeesReaction ==
  \A u \in Users, i \in Known :
    LET taps == {n \in DOMAIN reqs : /\ reqs[n].op \in {"react", "clear"}
                                     /\ reqs[n].by = u /\ reqs[n].msg = i} IN
    taps # {} /\ (\A n \in taps : reqs[n].pc = "done" /\ reqs[n].alone) =>
      LET last == Max(taps) IN
      \A c \in reqs[last].online \cap clients : Owner[c] = reqs[last].other =>
        outbox[c][Max(Heard(c, "dm.reaction", last))].seen[u] = reactions[i][u]
=============================================================================
