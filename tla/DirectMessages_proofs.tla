------------------------ MODULE DirectMessages_proofs ------------------------
(***************************************************************************)
(* What holds of threads, messages and reactions for any users,            *)
(* connections, messages and requests: what a request is entitled to at    *)
(* each of its steps, and the properties of DirectMessages that follow.    *)
(***************************************************************************)
EXTENDS DirectMessages, FiniteSetTheorems, WellFoundedInduction, TLAPS

-----------------------------------------------------------------------------
(* The inductive invariants.                                               *)

Between(t, u, v) == u # v /\ Members(t) = {u, v}

Taps == {"react", "clear"}
Types == {"dm.new", "dm.ack", "error", "dm.read", "dm.reaction"}
Events == [typ : Types, by : Users, thread : 0..MaxReqs, msg : Ids \cup {0}, seen : Aggregates]
Rows == [thread : 0..MaxReqs, sender : Users \cup {Nobody}, reader : Users \cup {Nobody}]

Typed ==
  /\ threads \subseteq [id : 1..MaxReqs, pair : Users \X Users]
  /\ message \in [Ids -> Rows]
  /\ reactions \in [Ids -> Aggregates]
  /\ reqs \in Seq(Request) /\ Len(reqs) <= MaxReqs
  /\ outbox \in [Conns -> Seq(Events)]
  /\ clients \cap closed = {} /\ clients \subseteq Conns /\ closed \subseteq Conns

(* Pairs are in order, and neither a pair nor a request has two threads.   *)
ThreadsOK ==
  /\ \A r \in threads : /\ r.pair[1] < r.pair[2]
                        /\ r.id \in DOMAIN reqs /\ reqs[r.id].pc # "open"
  /\ \A q, r \in threads : q.id = r.id \/ q.pair = r.pair => q = r

(* What a request can be at, by its kind, and what it knows by then.       *)
StageOK(r) ==
  /\ r.op = "thread" => r.pc \in {"open", "done", "refused", "cut"}
  /\ r.op = "send" => r.pc \in {"open", "store", "push", "ack", "error", "done", "refused", "cut"}
  /\ r.op = "read" => r.pc \in {"mark", "receipt", "done", "refused", "cut"}
  /\ r.op \in Taps => r.pc \in {"toggle", "aggregate", "show", "done", "refused", "cut"}
  /\ r.pc = "open" => r.other \in Users /\ r.other # r.by
  /\ r.op \in Taps \cup {"read"} => r.msg \in Ids
  /\ r.op \in Taps => Stored(r.msg)
  /\ r.op = "send" /\ r.pc \in {"store", "push", "ack", "done"} => Between(r.thread, r.by, r.other)
  /\ r.op = "read" /\ r.pc = "receipt" => Between(r.thread, r.by, r.other)
  /\ r.op \in Taps /\ r.pc \in {"aggregate", "show"} =>
       Between(message[r.msg].thread, r.by, r.other)
  /\ r.op = "send" /\ r.pc \in {"open", "store", "error", "refused"} => r.msg = 0
  /\ r.op = "send" /\ r.pc \in {"push", "ack", "done"} => r.msg # 0
  /\ r.op = "send" /\ r.msg # 0 =>
       Stored(r.msg) /\ message[r.msg].thread = r.thread /\ message[r.msg].sender = r.by
  /\ r.online \subseteq clients \cup closed

StagesOK == \A n \in DOMAIN reqs : StageOK(reqs[n])

(* A row of dm_messages is of a thread on file and of its two members.     *)
MessagesOK ==
  \A i \in Ids : IF Stored(i)
    THEN /\ Between(message[i].thread, message[i].sender, message[i].reader)
              \/ message[i].reader = Nobody
         /\ message[i].sender \in Members(message[i].thread)
    ELSE /\ message[i].reader = Nobody /\ reactions[i] = NoReactions

BaseIInv == Typed /\ ThreadsOK /\ StagesOK /\ MessagesOK

(* No message is sent twice, and nobody hears of one before it is pushed.  *)
SentOnce ==
  /\ \A n, m \in DOMAIN reqs :
       n # m /\ reqs[n].op = "send" /\ reqs[m].op = "send" /\ reqs[n].msg # 0 =>
         reqs[n].msg # reqs[m].msg
  /\ \A c \in Conns : \A k \in DOMAIN outbox[c] : outbox[c][k].typ = "dm.new" =>
       /\ outbox[c][k].msg \in Ids /\ Stored(outbox[c][k].msg)
       /\ \A n \in DOMAIN reqs :
            reqs[n].op = "send" /\ reqs[n].pc = "push" => reqs[n].msg # outbox[c][k].msg

(* AnsweredIsDelivered, of the connections that have not been closed.      *)
PushedOnce ==
  \A n \in DOMAIN reqs : LET r == reqs[n] IN
    r.op = "send" /\ r.pc \in {"ack", "done"} =>
      \A c \in r.online \ closed :
        Owner[c] = r.other => Cardinality(Heard(c, "dm.new", n)) = 1

SendIInv == SentOnce /\ PushedOnce

(* What a read request has marked, and whom it has told of it.             *)
MarksOK ==
  /\ \A n \in DOMAIN reqs : LET r == reqs[n] IN
       r.op = "read" /\ r.marked # {} =>
         /\ r.pc \in {"receipt", "done", "cut"} /\ Between(r.thread, r.by, r.other)
         /\ \A i \in r.marked : /\ message[i].thread = r.thread /\ message[i].reader = r.by
                                /\ message[i].sender = r.other /\ i <= r.msg
         /\ r.pc = "done" => \A c \in r.online \ closed :
              Owner[c] = r.other => Heard(c, "dm.read", n) # {}
  /\ \A i \in Ids : message[i].reader # Nobody =>
       \E n \in DOMAIN reqs : reqs[n].op = "read" /\ i \in reqs[n].marked

SameTap(n, m) ==
  /\ reqs[n].op \in Taps /\ reqs[m].op \in Taps
  /\ reqs[n].by = reqs[m].by /\ reqs[n].msg = reqs[m].msg

Alone(n) == \A m \in DOMAIN reqs : SameTap(n, m) => reqs[m].alone

(* Of taps that each began when the others were over, only the last one is *)
(* not over; what it is about to show, or has shown last, is on file.      *)
TapsOK ==
  /\ \A n, m \in DOMAIN reqs : n < m /\ SameTap(n, m) /\ reqs[m].alone => Over(reqs[n])
  /\ \A n \in DOMAIN reqs : LET r == reqs[n] IN
       r.op \in Taps /\ r.pc = "show" /\ Alone(n) => r.seen[r.by] = reactions[r.msg][r.by]
  /\ \A n \in DOMAIN reqs : LET r == reqs[n] IN
       (r.op \in Taps /\ r.pc = "done" /\ Alone(n) /\ \A m \in DOMAIN reqs : SameTap(n, m) => m <= n)
       => \A c \in r.online \ closed : Owner[c] = r.other =>
            \E k \in Heard(c, "dm.reaction", n) :
              /\ \A j \in Heard(c, "dm.reaction", n) : j <= k
              /\ outbox[c][k].seen[r.by] = reactions[r.msg][r.by]

-----------------------------------------------------------------------------
(* Threads and their members.                                              *)

LEMMA MembersOf ==
  ASSUME \A q, r \in threads : q.id = r.id => q = r
  PROVE  /\ \A r \in threads : Members(r.id) = {r.pair[1], r.pair[2]}
         /\ \A t : (\A r \in threads : r.id # t) => Members(t) = {}
<1>1. ASSUME NEW r \in threads PROVE Members(r.id) = {r.pair[1], r.pair[2]}
  <2>1. {s \in threads : s.id = r.id} = {r}
    OBVIOUS
  <2>2. Members(r.id) = UNION {{s.pair[1], s.pair[2]} : s \in {r}}
    BY <2>1 DEF Members
  <2> QED
    BY <2>2
<1>2. ASSUME NEW t, \A r \in threads : r.id # t PROVE Members(t) = {}
  <2>1. {s \in threads : s.id = t} = {}
    BY <1>2
  <2> QED
    BY <2>1 DEF Members
<1> QED
  BY <1>1, <1>2

(* Whoever has a member for a peer is the other member.                    *)
LEMMA PeersBetween ==
  ASSUME Typed, ThreadsOK, NEW t, NEW u \in Users, NEW p \in Peers(t, u)
  PROVE  Between(t, u, p) /\ p \in Users /\ t \in 1..MaxReqs
<1>1. u \in Members(t) /\ p \in Members(t) /\ p # u
  BY DEF Peers
<1>2. PICK r \in threads : r.id = t
  BY <1>1, MembersOf DEF ThreadsOK
<1>3. Members(t) = {r.pair[1], r.pair[2]}
  BY <1>2, MembersOf DEF ThreadsOK
<1>4. r.pair[1] \in Users /\ r.pair[2] \in Users /\ r.id \in 1..MaxReqs
  BY DEF Typed
<1> QED
  BY <1>1, <1>2, <1>3, <1>4 DEF Between

(* A pair that has no thread gets one, and nobody joins the others.        *)
LEMMA OpenKeepsMembers ==
  ASSUME Typed, ThreadsOK, NEW n \in DOMAIN reqs, reqs[n].pc = "open", NEW p \in Users \X Users,
         p[1] < p[2],
         \/ UNCHANGED threads
         \/ threads' = threads \cup {[id |-> n, pair |-> p]} /\ \A s \in threads : s.pair # p
  PROVE  /\ \A t, u, v : Between(t, u, v) => Between(t, u, v)'
         /\ \A t, u : u \in Members(t) => u \in Members(t)'
         /\ \A r \in threads' : Members(r.id)' = {r.pair[1], r.pair[2]}
         /\ \A q, r \in threads' : q.id = r.id \/ q.pair = r.pair => q = r
<1> DEFINE new == [id |-> n, pair |-> p]
<1>1. \A s \in threads : s.id # n
  BY DEF ThreadsOK
<1>2. \A q, r \in threads' : q.id = r.id \/ q.pair = r.pair => q = r
  <2> SUFFICES ASSUME threads' = threads \cup {new}, \A s \in threads : s.pair # p,
                      NEW q \in threads', NEW r \in threads', q.id = r.id \/ q.pair = r.pair
               PROVE  q = r
    BY DEF ThreadsOK
  <2>1. new.id = n /\ new.pair = p
    OBVIOUS
  <2> HIDE DEF new
  <2> QED
    BY <1>1, <2>1 DEF ThreadsOK
<1>3. \A r \in threads' : Members(r.id)' = {r.pair[1], r.pair[2]}
  <2> SUFFICES ASSUME NEW r \in threads' PROVE Members(r.id)' = {r.pair[1], r.pair[2]}
    OBVIOUS
  <2>1. {s \in threads' : s.id = r.id} = {r}
    BY <1>2
  <2>2. Members(r.id)' = UNION {{s.pair[1], s.pair[2]} : s \in {r}}
    BY <2>1 DEF Members
  <2> QED
    BY <2>2
<1>4. ASSUME NEW t, NEW u \in Members(t) PROVE Members(t)' = Members(t)
  <2>1. PICK r \in threads : r.id = t
    BY <1>4, MembersOf DEF ThreadsOK
  <2>2. Members(t) = {r.pair[1], r.pair[2]}
    BY <2>1, MembersOf DEF ThreadsOK
  <2>3. r \in threads'
    OBVIOUS
  <2> QED
    BY <1>3, <2>1, <2>2, <2>3
<1>5. ASSUME NEW t, NEW u, NEW v, Between(t, u, v) PROVE Between(t, u, v)'
  BY <1>4, <1>5 DEF Between
<1> QED
  BY <1>2, <1>3, <1>4, <1>5

-----------------------------------------------------------------------------
(* What every step leaves to the requests: pairs of members, rows and      *)
(* connections that have been.                                             *)

Kept ==
  /\ \A t, u, v : Between(t, u, v) => Between(t, u, v)'
  /\ \A t, u : u \in Members(t) => u \in Members(t)'
  /\ \A i \in Ids : Stored(i) => /\ message'[i].thread = message[i].thread
                                 /\ message'[i].sender = message[i].sender
  /\ clients \cup closed \subseteq clients' \cup closed'

LEMMA StageKept ==
  ASSUME Kept, NEW r \in Request, StageOK(r)
  PROVE  StageOK(r)'
<1>1. r.op \in Taps => r.msg \in Ids /\ Stored(r.msg)
  BY DEF StageOK
<1>2. r.op = "send" /\ r.msg # 0 => r.msg \in Ids /\ Stored(r.msg)
  BY DEF StageOK, Request
<1> QED
  BY <1>1, <1>2 DEF StageOK, Kept, Stored, Taps

LEMMA Stepped ==
  ASSUME Typed, NEW n \in DOMAIN reqs, NEW r \in Request, Update(n, r)
  PROVE  /\ reqs' \in Seq(Request) /\ Len(reqs') = Len(reqs) /\ DOMAIN reqs' = DOMAIN reqs
         /\ reqs'[n] = r /\ \A m \in DOMAIN reqs : m # n => reqs'[m] = reqs[m]
  BY DEF Typed, Update

LEMMA StagesKept ==
  ASSUME Typed, StagesOK, Kept, NEW n \in DOMAIN reqs, NEW r \in Request, Update(n, r), StageOK(r)'
  PROVE  StagesOK'
<1> SUFFICES ASSUME NEW m \in DOMAIN reqs' PROVE StageOK(reqs[m])'
  BY DEF StagesOK
<1>1. PICK s : s = reqs'[m]
  OBVIOUS
<1>2. StageOK(s)'
  <2>1. CASE m = n
    BY <1>1, <2>1, Stepped
  <2>2. CASE m # n
    <3>1. m \in DOMAIN reqs /\ s = reqs[m] /\ s \in Request
      BY <1>1, <2>2, Stepped DEF Typed
    <3>2. StageOK(s)
      BY <3>1 DEF StagesOK
    <3> QED
      BY <3>1, <3>2, StageKept
  <2> QED
    BY <2>1, <2>2
<1> QED
  BY <1>1, <1>2

-----------------------------------------------------------------------------
(* A request that arrives is typed and at a stage that fits it.            *)

Fresh(r) ==
  /\ r \in Request /\ StageOK(r) /\ r.marked = {} /\ r.online = {}
  /\ r.pc \in {"open", "store", "error", "refused", "mark", "toggle"}
  /\ r.op \in Taps => r.pc = "toggle"
  /\ r.op \in Taps /\ r.alone =>
       \A n \in DOMAIN reqs :
         reqs[n].op \in Taps /\ reqs[n].by = r.by /\ reqs[n].msg = r.msg => Over(reqs[n])

Arrival(r) ==
  /\ Fresh(r) /\ Len(reqs) < MaxReqs /\ reqs' = Append(reqs, r)
  /\ UNCHANGED <<threads, message, reactions, closed, hubVars>>

LEMMA ArriveIsFresh ==
  ASSUME Typed, NEW op \in {"thread", "send", "read", "react", "clear"}, NEW u \in Users,
         NEW via \in Conns \cup {"rest"}, NEW pc, NEW t \in 0..MaxReqs,
         NEW v \in Users \cup {Nobody}, NEW i \in Ids \cup {0}, NEW e \in Emojis \cup {"none"},
         Arrive(op, u, via, pc, Args(t, v, i, e)),
         op = "thread" => pc \in {"open", "refused"},
         op = "send" => pc \in {"open", "store", "error", "refused"} /\ i = 0,
         op = "read" => pc = "mark" /\ i \in Ids,
         op \in Taps => pc = "toggle" /\ i \in Ids /\ Stored(i),
         pc = "open" => v \in Users /\ v # u,
         pc = "store" => Between(t, u, v)
  PROVE  \E r : Arrival(r)
<1> DEFINE alone == \A n \in DOMAIN reqs :
                      At(n, {"react", "clear"}, reqs[n].pc) /\ reqs[n].by = u
                        /\ reqs[n].msg = i => Over(reqs[n])
           new == [op |-> op, by |-> u, via |-> via, pc |-> pc, thread |-> t, other |-> v,
                   msg |-> i, emoji |-> e, seen |-> NoReactions, online |-> {}, marked |-> {},
                   alone |-> alone]
<1>1. PICK r : r = new
  OBVIOUS
<1>2. /\ r.op = op /\ r.by = u /\ r.via = via /\ r.pc = pc /\ r.thread = t /\ r.other = v
      /\ r.msg = i /\ r.emoji = e /\ r.online = {} /\ r.marked = {}
  BY <1>1
<1>3. r.alone = alone
  BY <1>1
<1>4. reqs' = Append(reqs, r) /\ Len(reqs) < MaxReqs
      /\ UNCHANGED <<threads, message, reactions, closed, hubVars>>
  BY <1>1 DEF Arrive, Args
<1>5. r \in Request
  <2>1. alone \in BOOLEAN /\ NoReactions \in Aggregates
    BY DEF NoReactions, Aggregates
  <2>2. pc \in {"open", "store", "error", "refused", "mark", "toggle"}
    BY DEF Taps
  <2> HIDE DEF alone
  <2> QED
    BY <1>1, <2>1, <2>2 DEF Request
<1>6. StageOK(r)
  BY <1>2 DEF StageOK, Taps
<1>7. r.alone => \A n \in DOMAIN reqs :
        reqs[n].op \in Taps /\ reqs[n].by = u /\ reqs[n].msg = i => Over(reqs[n])
  BY <1>3 DEF At, Taps
<1>8. pc \in {"open", "store", "error", "refused", "mark", "toggle"}
  BY DEF Taps
<1>9. Fresh(r)
  BY <1>2, <1>5, <1>6, <1>7, <1>8 DEF Fresh
<1> QED
  BY <1>4, <1>9 DEF Arrival

LEMMA PeopleAreUsers ==
  ASSUME Typed, ThreadsOK
  PROVE  \A t : Members(t) \subseteq Users /\ Knowing(t) \subseteq Users
<1>1. ASSUME NEW t PROVE Members(t) \subseteq Users
  <2>1. CASE \E r \in threads : r.id = t
    <3>1. PICK r \in threads : r.id = t
      BY <2>1
    <3>2. Members(t) = {r.pair[1], r.pair[2]}
      BY <3>1, MembersOf DEF ThreadsOK
    <3> QED
      BY <3>1, <3>2 DEF Typed
  <2>2. CASE \A r \in threads : r.id # t
    BY <2>2, MembersOf DEF ThreadsOK
  <2> QED
    BY <2>1, <2>2
<1> QED
  BY <1>1, DirectAssumption DEF Knowing

LEMMA ArrivalsAreFresh ==
  ASSUME Typed, ThreadsOK,
         \/ \E p \in Contacts : CreateThread(p[1], p[2])
         \/ \E p \in Contacts : \E c \in Vias(p[1]) \ {"rest"} : SendTo(p[1], c, p[2])
         \/ \E t \in ThreadIds : \E u \in Knowing(t) : \E w \in Vias(u) : SendIn(u, w, t)
         \/ \E t \in ThreadIds, i \in Known : \E u \in Knowing(t) : \E w \in Vias(u) :
              MarkRead(u, w, t, i)
         \/ \E i \in Known : \E u \in Knowing(message[i].thread) :
              (\E e \in Emojis : React(u, i, e)) \/ ClearReaction(u, i)
  PROVE  \E r : Arrival(r)
<1>0. /\ \A p \in Contacts : p[1] \in Users /\ p[2] \in Users
      /\ \A u : Vias(u) \subseteq Conns \cup {"rest"}
      /\ \A t \in ThreadIds : t \in 0..MaxReqs
      /\ Nobody \in Users \cup {Nobody} /\ 0 \in 0..MaxReqs /\ "none" \in Emojis \cup {"none"}
  BY DirectAssumption DEF Typed, Vias, ThreadIds
<1>1. ASSUME NEW p \in Contacts, CreateThread(p[1], p[2]) PROVE \E r : Arrival(r)
  <2>1. PICK pc : pc = IF p[1] = p[2] THEN "refused" ELSE "open"
    OBVIOUS
  <2>2. Arrive("thread", p[1], "rest", pc, Args(0, p[2], 0, "none"))
    BY <1>1, <2>1 DEF CreateThread
  <2>3. pc \in {"open", "refused"} /\ (pc = "open" => p[2] # p[1])
    BY <2>1
  <2>4. /\ p[1] \in Users /\ p[2] \in Users /\ p[2] \in Users \cup {Nobody}
        /\ "rest" \in Conns \cup {"rest"} /\ 0 \in Ids \cup {0} /\ 0 \in 0..MaxReqs
        /\ "none" \in Emojis \cup {"none"} /\ pc # "store"
    BY <1>0, <2>3
  <2> QED
    BY ONLY Typed, <2>2, <2>3, <2>4, ArriveIsFresh DEF Taps
<1>2. ASSUME NEW p \in Contacts, NEW c \in Vias(p[1]) \ {"rest"}, SendTo(p[1], c, p[2])
      PROVE  \E r : Arrival(r)
  BY <1>0, <1>2, ArriveIsFresh DEF SendTo, Taps
<1>3. ASSUME NEW t \in ThreadIds, NEW u \in Knowing(t), NEW w \in Vias(u), SendIn(u, w, t)
      PROVE  \E r : Arrival(r)
  <2>1. u \in Users /\ w \in Conns \cup {"rest"} /\ t \in 0..MaxReqs
    BY <1>0, PeopleAreUsers
  <2>2. ASSUME NEW p \in Peers(t, u), Arrive("send", u, w, "store", Args(t, p, 0, "none"))
        PROVE  \E r : Arrival(r)
    <3>1. Between(t, u, p) /\ p \in Users
      BY <2>1, PeersBetween
    <3> QED
      BY <1>0, <2>1, <2>2, <3>1, ArriveIsFresh DEF Taps
  <2>3. CASE Arrive("send", u, w, Refusal(w), Args(t, Nobody, 0, "none"))
    <3>1. Refusal(w) \in {"error", "refused"}
      BY DEF Refusal
    <3> QED
      BY <1>0, <2>1, <2>3, <3>1, ArriveIsFresh DEF Taps
  <2> QED
    BY <1>3, <2>2, <2>3 DEF SendIn
<1>4. ASSUME NEW t \in ThreadIds, NEW i \in Known, NEW u \in Knowing(t), NEW w \in Vias(u),
             MarkRead(u, w, t, i)
      PROVE  \E r : Arrival(r)
  <2>1. u \in Users /\ w \in Conns \cup {"rest"} /\ t \in 0..MaxReqs /\ i \in Ids
    BY <1>0, PeopleAreUsers DEF Known
  <2> QED
    BY <1>0, <1>4, <2>1, ArriveIsFresh DEF MarkRead, Taps
<1>5. ASSUME NEW i \in Known, NEW u \in Knowing(message[i].thread),
             (\E e \in Emojis : React(u, i, e)) \/ ClearReaction(u, i)
      PROVE  \E r : Arrival(r)
  <2>1. u \in Users /\ i \in Ids /\ Stored(i)
    BY PeopleAreUsers DEF Known
  <2>2. ASSUME NEW e \in Emojis, React(u, i, e) PROVE \E r : Arrival(r)
    BY <1>0, <2>1, <2>2, ArriveIsFresh DEF React, Taps
  <2>3. CASE ClearReaction(u, i)
    BY <1>0, <2>1, <2>3, ArriveIsFresh DEF ClearReaction, Taps
  <2> QED
    BY <1>5, <2>2, <2>3
<1>6. CASE \E p \in Contacts : CreateThread(p[1], p[2])
  BY <1>1, <1>6
<1>7. CASE \E p \in Contacts : \E c \in Vias(p[1]) \ {"rest"} : SendTo(p[1], c, p[2])
  BY <1>2, <1>7
<1>8. CASE \E t \in ThreadIds : \E u \in Knowing(t) : \E w \in Vias(u) : SendIn(u, w, t)
  BY <1>3, <1>8
<1>9. CASE \E t \in ThreadIds, i \in Known : \E u \in Knowing(t) : \E w \in Vias(u) :
        MarkRead(u, w, t, i)
  BY <1>4, <1>9
<1>10. CASE \E i \in Known : \E u \in Knowing(message[i].thread) :
         (\E e \in Emojis : React(u, i, e)) \/ ClearReaction(u, i)
  BY <1>5, <1>10
<1> QED
  BY <1>6, <1>7, <1>8, <1>9, <1>10

-----------------------------------------------------------------------------
(* Every step keeps BaseIInv.                                              *)

LEMMA Appended ==
  ASSUME Typed, NEW r \in Request, reqs' = Append(reqs, r)
  PROVE  /\ reqs' \in Seq(Request) /\ Len(reqs') = Len(reqs) + 1
         /\ \A m \in DOMAIN reqs : m \in DOMAIN reqs' /\ reqs'[m] = reqs[m] /\ m < Len(reqs')
         /\ \A m \in DOMAIN reqs' : \/ m \in DOMAIN reqs /\ reqs'[m] = reqs[m]
                                    \/ m = Len(reqs') /\ reqs'[m] = r
         /\ Len(reqs') \in DOMAIN reqs' /\ reqs'[Len(reqs')] = r
  BY DEF Typed

LEMMA SameMembersKept ==
  ASSUME UNCHANGED <<threads, message>>, clients \cup closed \subseteq clients' \cup closed'
  PROVE  Kept
  BY DEF Kept, Between, Members

LEMMA ArrivalKeepsBase ==
  ASSUME BaseIInv, NEW r, Arrival(r)
  PROVE  BaseIInv'
<1> USE DEF BaseIInv
<1>1. /\ r \in Request /\ StageOK(r) /\ Len(reqs) < MaxReqs /\ reqs' = Append(reqs, r)
      /\ UNCHANGED <<threads, message, reactions, closed, hubVars>>
  BY DEF Arrival, Fresh
<1>2. Typed'
  BY <1>1, Appended, DirectAssumption DEF Typed, hubVars
<1>3. ThreadsOK'
  BY <1>1, Appended DEF ThreadsOK
<1>4. Kept
  BY <1>1, SameMembersKept DEF hubVars
<1>5. StagesOK'
  <2> SUFFICES ASSUME NEW m \in DOMAIN reqs' PROVE StageOK(reqs[m])'
    BY DEF StagesOK
  <2>1. PICK s : s = reqs'[m]
    OBVIOUS
  <2>2. s \in Request /\ StageOK(s)
    BY <1>1, <2>1, Appended DEF StagesOK, Typed
  <2>3. StageOK(s)'
    BY <1>4, <2>2, StageKept
  <2> QED
    BY <2>1, <2>3
<1>6. MessagesOK'
  BY <1>1 DEF MessagesOK, Stored, Between, Members
<1> QED
  BY <1>2, <1>3, <1>5, <1>6

(* A step of one request that opens no thread.                             *)
LEMMA StepKeepsBase ==
  ASSUME BaseIInv, Kept, NEW n \in DOMAIN reqs, NEW r \in Request, Update(n, r),
         UNCHANGED threads, r.pc # "open", StageOK(r)',
         message' \in [Ids -> Rows], reactions' \in [Ids -> Aggregates], MessagesOK',
         outbox' \in [Conns -> Seq(Events)],
         clients' \cap closed' = {}, clients' \subseteq Conns, closed' \subseteq Conns
  PROVE  BaseIInv'
<1> USE DEF BaseIInv
<1>1. Typed'
  BY Stepped DEF Typed
<1>2. ThreadsOK'
  <2>1. \A q, s \in threads' : q.id = s.id \/ q.pair = s.pair => q = s
    BY DEF ThreadsOK
  <2>2. ASSUME NEW s \in threads'
        PROVE  s.pair[1] < s.pair[2] /\ s.id \in DOMAIN reqs' /\ reqs'[s.id].pc # "open"
    BY Stepped DEF ThreadsOK
  <2> QED
    BY <2>1, <2>2 DEF ThreadsOK
<1>3. StagesOK'
  BY StagesKept
<1> QED
  BY <1>1, <1>2, <1>3

(* A step after which only the request, or what a connection was given,    *)
(* is different.                                                           *)
LEMMA QuietStepKeepsBase ==
  ASSUME BaseIInv, NEW n \in DOMAIN reqs, NEW r \in Request, Update(n, r),
         UNCHANGED <<threads, message, reactions, clients, closed>>,
         r.pc # "open", StageOK(r), outbox' \in [Conns -> Seq(Events)]
  PROVE  BaseIInv'
<1>1. Kept
  BY SameMembersKept
<1>2. StageOK(r)'
  BY <1>1, StageKept
<1>3. MessagesOK'
  BY DEF BaseIInv, MessagesOK, Stored, Between, Members
<1>4. /\ message' \in [Ids -> Rows] /\ reactions' \in [Ids -> Aggregates]
      /\ clients' \cap closed' = {} /\ clients' \subseteq Conns /\ closed' \subseteq Conns
  BY DEF BaseIInv, Typed
<1> QED
  BY <1>1, <1>2, <1>3, <1>4, StepKeepsBase

Pcs == {"open", "store", "push", "ack", "error", "mark", "receipt",
        "toggle", "aggregate", "show", "done", "refused", "cut"}

SameBut(r, q, pc) ==
  /\ r \in Request /\ r.pc = pc
  /\ r.op = q.op /\ r.by = q.by /\ r.via = q.via /\ r.thread = q.thread
  /\ r.other = q.other /\ r.msg = q.msg /\ r.seen = q.seen
  /\ r.online = q.online /\ r.marked = q.marked /\ r.alone = q.alone

LEMMA OnlyPc ==
  ASSUME NEW q \in Request, NEW pc \in Pcs
  PROVE  SameBut([q EXCEPT !.pc = pc], q, pc)
  BY DEF SameBut, Request, Pcs

LEMMA ReqTyped ==
  ASSUME Typed, NEW n \in DOMAIN reqs
  PROVE  /\ reqs[n] \in Request /\ reqs[n].pc \in Pcs /\ n \in 1..MaxReqs
         /\ reqs[n].by \in Users /\ reqs[n].thread \in 0..MaxReqs
         /\ reqs[n].msg \in Ids \cup {0} /\ reqs[n].seen \in Aggregates
         /\ reqs[n].online \subseteq Conns /\ reqs[n].marked \subseteq Ids
<1>1. reqs[n] \in Request
  BY DEF Typed
<1>2. n \in 1..MaxReqs
  BY DirectAssumption DEF Typed
<1> QED
  BY <1>1, <1>2 DEF Request, Pcs

LEMMA SentTyped ==
  ASSUME Typed, NEW u, NEW e \in Events, SendToUser(u, e)
  PROVE  outbox' \in [Conns -> Seq(Events)]
<1> SUFFICES ASSUME NEW c \in Conns
             PROVE  (IF c \in clients /\ Owner[c] = u THEN Append(outbox[c], e) ELSE outbox[c])
                      \in Seq(Events)
  BY DEF SendToUser
<1>1. outbox[c] \in Seq(Events)
  BY DEF Typed
<1> QED
  BY <1>1

LEMMA EventTyped ==
  ASSUME Typed, NEW n \in DOMAIN reqs, NEW typ \in Types, NEW t \in 0..MaxReqs, NEW i \in Ids \cup {0}
  PROVE  Event(typ, n, t, i) \in Events
  BY ReqTyped DEF Event, Events

(* The five steps that give something to a connection.                     *)
LEMMA TellKeepsBase ==
  ASSUME BaseIInv, NEW n \in DOMAIN reqs, NEW u, NEW e \in Events, NEW pc \in Pcs, Tell(n, u, e, pc),
         \/ reqs[n].pc = "push" /\ (pc = "done" \/ pc = "ack")
         \/ reqs[n].pc \in {"ack", "receipt", "show"} /\ pc = "done"
         \/ reqs[n].pc = "error" /\ pc = "refused"
  PROVE  BaseIInv'
<1>1. PICK r : r = [reqs[n] EXCEPT !.pc = pc]
  OBVIOUS
<1>2. SameBut(r, reqs[n], pc) /\ Update(n, r)
  BY <1>1, OnlyPc, ReqTyped DEF BaseIInv, Tell
<1>3. UNCHANGED <<threads, message, reactions, clients, closed>>
  BY DEF Tell, SendToUser
<1>4. outbox' \in [Conns -> Seq(Events)]
  BY SentTyped DEF Tell, BaseIInv
<1>5. StageOK(reqs[n]) /\ r.pc # "open" /\ reqs[n].op \in {"thread", "send", "read", "react", "clear"}
  BY <1>2, ReqTyped DEF BaseIInv, StagesOK, Request, SameBut
<1>6. StageOK(r)
  BY <1>2, <1>5 DEF StageOK, SameBut, Taps
<1> QED
  BY <1>2, <1>3, <1>4, <1>5, <1>6, QuietStepKeepsBase DEF SameBut

LEMMA TellingsKeepBase ==
  ASSUME BaseIInv, NEW n \in DOMAIN reqs,
         Push(n) \/ Acknowledge(n) \/ AnswerError(n) \/ Receipt(n) \/ Show(n)
  PROVE  BaseIInv'
<1>1. /\ reqs[n].thread \in 0..MaxReqs /\ reqs[n].msg \in Ids \cup {0}
      /\ 0 \in 0..MaxReqs /\ 0 \in Ids \cup {0}
      /\ \A typ \in Types : typ \in Types
  BY ReqTyped, DirectAssumption DEF BaseIInv
<1>2. \A typ \in Types : Event(typ, n, reqs[n].thread, reqs[n].msg) \in Events
                         /\ Event(typ, n, 0, 0) \in Events
  BY <1>1, EventTyped DEF BaseIInv
<1>3. reqs[n].pc = "show" => message[reqs[n].msg].thread \in 0..MaxReqs
  <2> SUFFICES ASSUME reqs[n].pc = "show" PROVE message[reqs[n].msg].thread \in 0..MaxReqs
    OBVIOUS
  <2>1. reqs[n] \in Request /\ StageOK(reqs[n])
    BY ReqTyped DEF BaseIInv, StagesOK
  <2>2. reqs[n].op \in Taps
    BY <2>1 DEF StageOK, Request, Taps
  <2>3. reqs[n].msg \in Ids
    BY <2>1, <2>2 DEF StageOK
  <2> QED
    BY <2>3 DEF BaseIInv, Typed, Rows
<1>4. CASE Push(n)
  <2>1. AfterPush(reqs[n]) = "done" \/ AfterPush(reqs[n]) = "ack"
    BY DEF AfterPush
  <2> QED
    BY <1>2, <1>4, <2>1, TellKeepsBase DEF Push, Types, Pcs
<1>5. CASE Acknowledge(n)
  BY <1>2, <1>5, TellKeepsBase DEF Acknowledge, Types, Pcs
<1>6. CASE AnswerError(n)
  BY <1>2, <1>6, TellKeepsBase DEF AnswerError, Types, Pcs
<1>7. CASE Receipt(n)
  BY <1>2, <1>7, TellKeepsBase DEF Receipt, Types, Pcs
<1>8. CASE Show(n)
  <2>1. Event("dm.reaction", n, message[reqs[n].msg].thread, reqs[n].msg) \in Events
    BY <1>1, <1>3, <1>8, EventTyped DEF Show, Types, BaseIInv
  <2> QED
    BY <1>8, <2>1, TellKeepsBase DEF Show, Pcs
<1> QED
  BY <1>4, <1>5, <1>6, <1>7, <1>8

LEMMA HangUpKeepsBase ==
  ASSUME BaseIInv, NEW n \in DOMAIN reqs, HangUp(n)
  PROVE  BaseIInv'
<1>1. PICK r : r = [reqs[n] EXCEPT !.pc = "cut"]
  OBVIOUS
<1>2. SameBut(r, reqs[n], "cut") /\ Update(n, r)
  BY <1>1, OnlyPc, ReqTyped DEF BaseIInv, HangUp, Pcs
<1>3. StageOK(reqs[n])
  BY DEF BaseIInv, StagesOK
<1>4. StageOK(r)
  BY <1>2, <1>3 DEF StageOK, SameBut, Taps
<1>5. UNCHANGED <<threads, message, reactions, clients, closed, outbox>>
  BY DEF HangUp, hubVars
<1> QED
  BY <1>2, <1>4, <1>5, QuietStepKeepsBase DEF SameBut, BaseIInv, Typed

LEMMA AggregateKeepsBase ==
  ASSUME BaseIInv, NEW n \in DOMAIN reqs, Aggregate(n)
  PROVE  BaseIInv'
<1>1. PICK r : r = [reqs[n] EXCEPT !.seen = reactions[reqs[n].msg], !.pc = "show"]
  OBVIOUS
<1>2. StageOK(reqs[n]) /\ reqs[n] \in Request /\ reqs[n].pc = "aggregate"
  BY ReqTyped DEF BaseIInv, StagesOK, Aggregate
<1>3. reqs[n].op \in Taps /\ reqs[n].msg \in Ids
  BY <1>2 DEF StageOK, Request, Taps
<1>4. reactions[reqs[n].msg] \in Aggregates
  BY <1>3 DEF BaseIInv, Typed
<1>5. r \in Request /\ Update(n, r) /\ r.pc = "show"
  BY <1>1, <1>2, <1>4 DEF Aggregate, Request
<1>6. /\ r.op = reqs[n].op /\ r.by = reqs[n].by /\ r.thread = reqs[n].thread
      /\ r.other = reqs[n].other /\ r.msg = reqs[n].msg /\ r.online = reqs[n].online
  BY <1>1, <1>2 DEF Request
<1>7. StageOK(r)
  BY <1>2, <1>3, <1>5, <1>6 DEF StageOK, Taps
<1>8. UNCHANGED <<threads, message, reactions, clients, closed, outbox>>
  BY DEF Aggregate, hubVars
<1> QED
  BY <1>5, <1>7, <1>8, QuietStepKeepsBase DEF BaseIInv, Typed

LEMMA BetweenThread ==
  ASSUME Typed, ThreadsOK, NEW t, NEW u, NEW v, Between(t, u, v)
  PROVE  t \in 1..MaxReqs /\ u \in Users /\ v \in Users
<1>1. Members(t) = {u, v}
  BY DEF Between
<1>2. PICK r \in threads : r.id = t
  BY <1>1, MembersOf DEF ThreadsOK
<1> QED
  BY <1>1, <1>2, PeopleAreUsers DEF Typed

LEMMA OpenThreadKeepsBase ==
  ASSUME BaseIInv, NEW n \in DOMAIN reqs, OpenThread(n)
  PROVE  BaseIInv' /\ Kept
<1> USE DEF BaseIInv
<1>1. PICK q : q = reqs[n]
  OBVIOUS
<1>2. q \in Request /\ StageOK(q) /\ q.pc = "open" /\ n \in 1..MaxReqs
  BY <1>1, ReqTyped DEF StagesOK, OpenThread
<1>3. q.by \in Users /\ q.other \in Users /\ q.by # q.other /\ q.op \in {"thread", "send"}
  BY <1>2 DEF StageOK, Request, Taps
<1>4. PICK p : p = CanonicalPair(q.by, q.other)
  OBVIOUS
<1>5. p \in Users \X Users /\ p[1] < p[2] /\ {p[1], p[2]} = {q.by, q.other}
  <2>1. q.by \in Nat /\ q.other \in Nat
    BY <1>3, DirectAssumption
  <2>2. CASE q.by <= q.other
    <3>1. p = <<q.by, q.other>> /\ q.by < q.other
      BY <1>3, <1>4, <2>1, <2>2 DEF CanonicalPair
    <3> QED
      BY <1>3, <3>1
  <2>3. CASE ~(q.by <= q.other)
    <3>1. p = <<q.other, q.by>> /\ q.other < q.by
      BY <1>3, <1>4, <2>1, <2>3 DEF CanonicalPair
    <3> QED
      BY <1>3, <3>1
  <2> QED
    BY <2>2, <2>3
<1>6. \/ UNCHANGED threads
      \/ threads' = threads \cup {[id |-> n, pair |-> p]} /\ \A s \in threads : s.pair # p
  BY <1>1, <1>4 DEF OpenThread
<1>7. PICK s \in threads' :
        /\ s.pair = p
        /\ Update(n, [q EXCEPT !.thread = s.id, !.pc = IF q.op = "send" THEN "store" ELSE "done"])
  BY <1>1, <1>4 DEF OpenThread
<1>8. UNCHANGED <<message, reactions, closed, clients, outbox>>
  BY DEF OpenThread, hubVars
<1>9. PICK r : r = [q EXCEPT !.thread = s.id, !.pc = IF q.op = "send" THEN "store" ELSE "done"]
  OBVIOUS
<1>10. threads' \subseteq [id : 1..MaxReqs, pair : Users \X Users]
  BY <1>2, <1>5, <1>6 DEF Typed
<1>11. /\ r \in Request /\ Update(n, r) /\ r.thread = s.id
       /\ r.pc = (IF q.op = "send" THEN "store" ELSE "done")
       /\ r.op = q.op /\ r.by = q.by /\ r.other = q.other /\ r.msg = q.msg /\ r.online = q.online
  <2>1. s.id \in 0..MaxReqs
    BY <1>10
  <2>2. PICK pc : pc = IF q.op = "send" THEN "store" ELSE "done"
    OBVIOUS
  <2>3. r = [q EXCEPT !.thread = s.id, !.pc = pc] /\ Update(n, r)
    BY <1>7, <1>9, <2>2
  <2>4. /\ r \in Request /\ r.thread = s.id /\ r.pc = pc /\ r.op = q.op /\ r.by = q.by
        /\ r.other = q.other /\ r.msg = q.msg /\ r.online = q.online
    BY <1>2, <2>1, <2>2, <2>3 DEF Request
  <2> QED
    BY <2>2, <2>3, <2>4
<1>12. /\ \A t, u, v : Between(t, u, v) => Between(t, u, v)'
       /\ \A t, u : u \in Members(t) => u \in Members(t)'
       /\ \A w \in threads' : Members(w.id)' = {w.pair[1], w.pair[2]}
       /\ \A v, w \in threads' : v.id = w.id \/ v.pair = w.pair => v = w
  BY <1>1, <1>2, <1>5, <1>6, OpenKeepsMembers
<1>13. Kept
  BY <1>8, <1>12 DEF Kept
<1>14. Members(s.id)' = {q.by, q.other}
  BY <1>5, <1>7, <1>12
<1>15. StageOK(r)'
  <2>1. r.op = "send" => r.msg = 0
    BY <1>2, <1>11 DEF StageOK
  <2>2. r.online \subseteq clients' \cup closed'
    BY <1>2, <1>8, <1>11 DEF StageOK
  <2>3. Between(r.thread, r.by, r.other)'
    BY <1>3, <1>11, <1>14 DEF Between
  <2> QED
    BY <1>3, <1>11, <2>1, <2>2, <2>3 DEF StageOK, Taps
<1>16. Typed'
  BY <1>8, <1>10, <1>11, Stepped DEF Typed
<1>17. ThreadsOK'
  <2>1. ASSUME NEW w \in threads'
        PROVE  w.pair[1] < w.pair[2] /\ w.id \in DOMAIN reqs' /\ reqs'[w.id].pc # "open"
    <3>1. CASE w \in threads
      BY <1>11, <3>1, Stepped DEF ThreadsOK
    <3>2. CASE w = [id |-> n, pair |-> p]
      BY <1>5, <1>11, <3>2, Stepped
    <3> QED
      BY <1>6, <3>1, <3>2
  <2> QED
    BY <1>12, <2>1 DEF ThreadsOK
<1>18. StagesOK'
  BY <1>11, <1>13, <1>15, StagesKept
<1>19. MessagesOK'
  <2> SUFFICES ASSUME NEW i \in Ids, Stored(i)
               PROVE  /\ Between(message[i].thread, message[i].sender, message[i].reader)'
                           \/ message[i].reader = Nobody
                      /\ message[i].sender \in Members(message[i].thread)'
    BY <1>8 DEF MessagesOK, Stored
  <2>1. PICK m : m = message[i]
    OBVIOUS
  <2>2. (Between(m.thread, m.sender, m.reader) \/ m.reader = Nobody) /\ m.sender \in Members(m.thread)
    BY <2>1 DEF MessagesOK
  <2>3. (Between(m.thread, m.sender, m.reader)' \/ m.reader = Nobody) /\ m.sender \in Members(m.thread)'
    BY <1>12, <2>2
  <2> QED
    BY <1>8, <2>1, <2>3 DEF Between
<1> QED
  BY <1>13, <1>16, <1>17, <1>18, <1>19

LEMMA StoreKeepsBase ==
  ASSUME BaseIInv, NEW n \in DOMAIN reqs, Store(n)
  PROVE  BaseIInv' /\ Kept
<1> USE DEF BaseIInv
<1>1. PICK q : q = reqs[n]
  OBVIOUS
<1>2. q \in Request /\ StageOK(q) /\ q.pc = "store"
  BY <1>1, ReqTyped DEF StagesOK, Store
<1>3. q.op = "send"
  BY <1>2 DEF StageOK, Request, Taps
<1>4. Between(q.thread, q.by, q.other)
  BY <1>2, <1>3 DEF StageOK
<1>5. q.thread \in 1..MaxReqs /\ q.by \in Users /\ q.other \in Users
  BY <1>4, BetweenThread
<1>6. PICK i \in Ids :
        /\ ~Stored(i)
        /\ message' = [message EXCEPT ![i] = [thread |-> q.thread, sender |-> q.by, reader |-> Nobody]]
        /\ Update(n, [q EXCEPT !.msg = i, !.pc = "push", !.online = clients])
  BY <1>1 DEF Store
<1>7. PICK r : r = [q EXCEPT !.msg = i, !.pc = "push", !.online = clients]
  OBVIOUS
<1>8. UNCHANGED <<threads, reactions, closed, clients, outbox>>
  BY DEF Store, hubVars
<1>9. /\ r \in Request /\ Update(n, r) /\ r.pc = "push" /\ r.msg = i /\ r.online = clients
      /\ r.op = q.op /\ r.by = q.by /\ r.other = q.other /\ r.thread = q.thread
  BY <1>2, <1>6, <1>7 DEF Request, Typed
<1>10. /\ message'[i] = [thread |-> q.thread, sender |-> q.by, reader |-> Nobody]
       /\ \A j \in Ids : j # i => message'[j] = message[j]
  BY <1>6 DEF Typed
<1>11. Kept
  <2>1. /\ \A t, u, v : Between(t, u, v) => Between(t, u, v)'
        /\ \A t, u : u \in Members(t) => u \in Members(t)'
    BY <1>8 DEF Between, Members
  <2>2. \A j \in Ids : Stored(j) => message'[j] = message[j]
    BY <1>6, <1>10
  <2> QED
    BY <1>8, <2>1, <2>2 DEF Kept
<1>12. StageOK(r)'
  <2>1. Between(r.thread, r.by, r.other)'
    BY <1>4, <1>8, <1>9 DEF Between, Members
  <2>2. message'[r.msg].thread = r.thread /\ message'[r.msg].sender = r.by /\ r.msg # 0
        /\ message'[r.msg].thread # 0
    BY <1>5, <1>9, <1>10, DirectAssumption DEF Ids
  <2> QED
    BY <1>3, <1>8, <1>9, <2>1, <2>2 DEF StageOK, Taps, Stored
<1>13. message' \in [Ids -> Rows]
  BY <1>5, <1>6 DEF Typed, Rows
<1>14. MessagesOK'
  <2> SUFFICES ASSUME NEW j \in Ids
               PROVE  IF message'[j].thread # 0
                      THEN /\ Between(message[j].thread, message[j].sender, message[j].reader)'
                                \/ message'[j].reader = Nobody
                           /\ message'[j].sender \in Members(message[j].thread)'
                      ELSE message'[j].reader = Nobody /\ reactions'[j] = NoReactions
    BY DEF MessagesOK, Stored
  <2>1. CASE j = i
    <3>1. q.by \in Members(q.thread)'
      BY <1>4, <1>8 DEF Between, Members
    <3> QED
      BY <1>5, <1>10, <2>1, <3>1 DEF Members
  <2>2. CASE j # i
    BY <1>8, <1>10, <2>2 DEF MessagesOK, Stored, Between, Members
  <2> QED
    BY <2>1, <2>2
<1> QED
  BY <1>8, <1>9, <1>11, <1>12, <1>13, <1>14, StepKeepsBase DEF Typed

(* What a step that marks messages comes to.                               *)
Marks(n, r) ==
  /\ r \in Request /\ Update(n, r) /\ r.op = "read" /\ r.op = reqs[n].op
  /\ r.by = reqs[n].by /\ r.thread = reqs[n].thread /\ r.msg = reqs[n].msg
  /\ r.online = clients /\ r.pc = AfterMark(r.marked) /\ reqs[n].pc = "mark"
  /\ Between(r.thread, r.by, r.other)
  /\ \A i \in r.marked :
       /\ i \in Ids /\ Stored(i) /\ i <= r.msg /\ message[i].thread = r.thread
       /\ message[i].sender = r.other /\ message[i].reader = Nobody
  /\ \A i \in Ids : message'[i] = IF i \in r.marked THEN [message[i] EXCEPT !.reader = r.by]
                                                    ELSE message[i]
  /\ message' \in [Ids -> Rows]
  /\ UNCHANGED <<threads, reactions, closed, clients, outbox>>

Refuses(n, r) ==
  /\ SameBut(r, reqs[n], "refused") /\ Update(n, r) /\ reqs[n].pc \in {"mark", "toggle"}
  /\ UNCHANGED <<threads, message, reactions, closed, clients, outbox>>

LEMMA MarkMarks ==
  ASSUME BaseIInv, NEW n \in DOMAIN reqs, Mark(n)
  PROVE  \E r : Marks(n, r) \/ Refuses(n, r)
<1> USE DEF BaseIInv
<1>1. PICK q : q = reqs[n]
  OBVIOUS
<1>2. q \in Request /\ StageOK(q) /\ q.pc = "mark" /\ q.by \in Users
  BY <1>1, ReqTyped DEF StagesOK, Mark
<1>3. q.op = "read" /\ q.msg \in Ids
  BY <1>2 DEF StageOK, Request, Taps
<1>4. UNCHANGED <<threads, reactions, closed, clients, outbox>>
  BY DEF Mark, hubVars
<1>5. ASSUME NEW p \in Peers(q.thread, q.by), message' = ReadBy(q.by, Markable(q)),
             Update(n, Marked(q, Markable(q), p, AfterMark(Markable(q))))
      PROVE  \E r : Marks(n, r)
  <2>1. Between(q.thread, q.by, p) /\ p \in Users
    BY <1>2, PeersBetween
  <2>2. PICK ms : ms = Markable(q)
    OBVIOUS
  <2>3. ms \subseteq Ids
    BY <1>3, <2>2, DirectAssumption DEF Markable, Unread, Ids
  <2>4. ASSUME NEW i \in ms
        PROVE  /\ Stored(i) /\ i <= q.msg /\ message[i].thread = q.thread
               /\ message[i].sender = p /\ message[i].reader = Nobody
    <3>1. /\ Stored(i) /\ i <= q.msg /\ message[i].thread = q.thread
          /\ message[i].sender # q.by /\ message[i].reader = Nobody
      BY <1>3, <2>2 DEF Markable, Unread, Ids
    <3>2. message[i].sender \in Members(q.thread)
      BY <2>3, <3>1 DEF MessagesOK
    <3> QED
      BY <2>1, <3>1, <3>2 DEF Between
  <2>5. PICK pc : pc = AfterMark(ms)
    OBVIOUS
  <2>6. pc \in {"receipt", "done"}
    BY <2>5 DEF AfterMark
  <2>7. PICK r : r = [q EXCEPT !.marked = ms, !.other = p, !.online = clients, !.pc = pc]
    OBVIOUS
  <2>8. /\ r \in Request /\ r.op = q.op /\ r.by = q.by /\ r.thread = q.thread /\ r.msg = q.msg
        /\ r.online = clients /\ r.pc = pc /\ r.marked = ms /\ r.other = p
    BY <1>2, <2>1, <2>3, <2>6, <2>7 DEF Request, Typed
  <2>9. Update(n, r)
    BY <1>5, <2>2, <2>5, <2>7 DEF Marked
  <2>10. /\ message' \in [Ids -> Rows]
         /\ \A i \in Ids : message'[i] = IF i \in ms THEN [message[i] EXCEPT !.reader = q.by]
                                                     ELSE message[i]
    <3>1. message' = [i \in Ids |-> IF i \in ms THEN [message[i] EXCEPT !.reader = q.by]
                                                ELSE message[i]]
      BY <1>5, <2>2 DEF ReadBy
    <3>2. \A i \in Ids : message[i] \in Rows /\ [message[i] EXCEPT !.reader = q.by] \in Rows
      BY <1>2 DEF Typed, Rows
    <3> QED
      BY <3>1, <3>2
  <2> QED
    BY <1>1, <1>2, <1>3, <1>4, <2>1, <2>3, <2>4, <2>5, <2>8, <2>9, <2>10 DEF Marks
<1>6. ASSUME Update(n, [q EXCEPT !.pc = "refused"]), UNCHANGED message
      PROVE  \E r : Refuses(n, r)
  BY <1>1, <1>2, <1>4, <1>6, OnlyPc DEF Refuses, Pcs
<1> QED
  BY <1>1, <1>5, <1>6 DEF Mark

LEMMA RefusalKeepsBase ==
  ASSUME BaseIInv, NEW n \in DOMAIN reqs, NEW r, Refuses(n, r)
  PROVE  BaseIInv'
<1>1. StageOK(reqs[n]) /\ r \in Request /\ r.pc = "refused" /\ reqs[n] \in Request
  BY ReqTyped DEF BaseIInv, StagesOK, Refuses, SameBut
<1>2. StageOK(r)
  BY <1>1 DEF StageOK, SameBut, Refuses, Taps
<1> QED
  BY <1>1, <1>2, QuietStepKeepsBase DEF Refuses, BaseIInv, Typed

LEMMA MarksKeepBase ==
  ASSUME BaseIInv, NEW n \in DOMAIN reqs, NEW r, Marks(n, r)
  PROVE  BaseIInv' /\ Kept
<1> USE DEF BaseIInv
<1>1. r \in Request /\ StageOK(reqs[n]) /\ r.pc \in {"receipt", "done"}
  BY DEF StagesOK, Marks, AfterMark
<1>2. \A i \in Ids : /\ message'[i].thread = message[i].thread
                     /\ message'[i].sender = message[i].sender
                     /\ message'[i].reader = IF i \in r.marked THEN r.by ELSE message[i].reader
  BY DEF Marks, Typed, Rows
<1>3. /\ \A t, u, v : Between(t, u, v) <=> Between(t, u, v)'
      /\ \A t, u : u \in Members(t) => u \in Members(t)'
  BY DEF Marks, Between, Members
<1>4. Kept
  BY <1>2, <1>3 DEF Marks, Kept
<1>5. StageOK(r)'
  <2>1. r.msg \in Ids
    BY DEF StageOK, StagesOK, Marks
  <2> QED
    BY <1>1, <1>3, <2>1 DEF StageOK, Marks, Taps
<1>6. MessagesOK'
  <2> SUFFICES ASSUME NEW i \in Ids
               PROVE  IF message'[i].thread # 0
                      THEN /\ Between(message[i].thread, message[i].sender, message[i].reader)'
                                \/ message'[i].reader = Nobody
                           /\ message'[i].sender \in Members(message[i].thread)'
                      ELSE message'[i].reader = Nobody /\ reactions'[i] = NoReactions
    BY DEF MessagesOK, Stored
  <2>1. CASE i \in r.marked
    <3>1. message[i].thread # 0 /\ message[i].thread = r.thread /\ message[i].sender = r.other
      BY <2>1 DEF Marks, Stored
    <3>2. Members(message[i].thread)' = {r.by, r.other} /\ r.by # r.other
      BY <1>2, <3>1 DEF Marks, Between, Members
    <3> QED
      BY <1>2, <2>1, <3>1, <3>2 DEF Between, Members
  <2>2. CASE i \notin r.marked
    <3>1. message'[i] = message[i] /\ UNCHANGED <<threads, reactions>>
      BY <2>2 DEF Marks
    <3>2. /\ Between(message[i].thread, message[i].sender, message[i].reader)'
               <=> Between(message[i].thread, message[i].sender, message[i].reader)
          /\ Members(message[i].thread)' = Members(message[i].thread)
      BY <3>1 DEF Between, Members
    <3> QED
      BY <3>1, <3>2 DEF MessagesOK, Stored
  <2> QED
    BY <2>1, <2>2
<1> QED
  BY <1>1, <1>4, <1>5, <1>6, StepKeepsBase DEF Marks, Typed

(* What a tap that is written comes to.                                    *)
Toggles(n, r) ==
  /\ r \in Request /\ Update(n, r) /\ reqs[n].pc = "toggle" /\ r.pc = "aggregate"
  /\ r.op \in Taps /\ r.op = reqs[n].op /\ r.by = reqs[n].by /\ r.msg = reqs[n].msg
  /\ r.thread = reqs[n].thread /\ r.marked = reqs[n].marked /\ r.alone = reqs[n].alone
  /\ r.online = clients /\ r.msg \in Ids /\ Stored(r.msg)
  /\ Between(message[r.msg].thread, r.by, r.other)
  /\ reactions' \in [Ids -> Aggregates]
  /\ \A i \in Ids : i # r.msg => reactions'[i] = reactions[i]
  /\ \A u \in Users : u # r.by => reactions'[r.msg][u] = reactions[r.msg][u]
  /\ UNCHANGED <<threads, message, closed, clients, outbox>>

LEMMA ToggleToggles ==
  ASSUME BaseIInv, NEW n \in DOMAIN reqs, Toggle(n)
  PROVE  \E r : Toggles(n, r) \/ Refuses(n, r)
<1> USE DEF BaseIInv
<1>1. PICK q : q = reqs[n]
  OBVIOUS
<1>2. q \in Request /\ StageOK(q) /\ q.pc = "toggle" /\ q.by \in Users
  BY <1>1, ReqTyped DEF StagesOK, Toggle
<1>3. q.op \in Taps /\ q.msg \in Ids /\ Stored(q.msg)
  BY <1>2 DEF StageOK, Request, Taps
<1>4. UNCHANGED <<threads, message, closed, clients, outbox>>
  BY DEF Toggle, hubVars
<1>5. ASSUME NEW p \in Peers(message[q.msg].thread, q.by),
             reactions' = [reactions EXCEPT ![q.msg][q.by] = Reacted(q)],
             Update(n, [q EXCEPT !.other = p, !.online = clients, !.pc = "aggregate"])
      PROVE  \E r : Toggles(n, r)
  <2>1. Between(message[q.msg].thread, q.by, p) /\ p \in Users
    BY <1>2, PeersBetween
  <2>2. PICK r : r = [q EXCEPT !.other = p, !.online = clients, !.pc = "aggregate"]
    OBVIOUS
  <2>3. /\ r \in Request /\ r.op = q.op /\ r.by = q.by /\ r.thread = q.thread /\ r.msg = q.msg
        /\ r.online = clients /\ r.pc = "aggregate" /\ r.marked = q.marked /\ r.other = p
        /\ r.alone = q.alone
    BY <1>2, <2>1, <2>2 DEF Request, Typed
  <2>4. Reacted(q) \in Emojis \cup {"none"}
    BY <1>2 DEF Reacted, Request
  <2>5. reactions' \in [Ids -> Aggregates]
    <3>1. reactions[q.msg] \in Aggregates
      BY <1>3 DEF Typed
    <3>2. [reactions[q.msg] EXCEPT ![q.by] = Reacted(q)] \in Aggregates
      BY <2>4, <3>1 DEF Aggregates
    <3> QED
      BY <1>5, <3>2 DEF Typed
  <2>6. /\ \A i \in Ids : i # r.msg => reactions'[i] = reactions[i]
        /\ \A u \in Users : u # r.by => reactions'[r.msg][u] = reactions[r.msg][u]
    <3>1. reactions[q.msg] \in Aggregates /\ reactions \in [Ids -> Aggregates]
      BY <1>3 DEF Typed
    <3>2. reactions'[q.msg] = [reactions[q.msg] EXCEPT ![q.by] = Reacted(q)]
      BY <1>3, <1>5, <3>1
    <3> QED
      BY <1>3, <1>5, <2>3, <3>1, <3>2 DEF Aggregates
  <2>7. Toggles(n, r)
    BY <1>1, <1>2, <1>3, <1>4, <1>5, <2>1, <2>2, <2>3, <2>5, <2>6 DEF Toggles
  <2> QED
    BY <2>7
<1>6. ASSUME Update(n, [q EXCEPT !.pc = "refused"]), UNCHANGED reactions
      PROVE  \E r : Refuses(n, r)
  BY <1>1, <1>2, <1>4, <1>6, OnlyPc DEF Refuses, Pcs
<1> QED
  BY <1>1, <1>5, <1>6 DEF Toggle

LEMMA TogglesKeepBase ==
  ASSUME BaseIInv, NEW n \in DOMAIN reqs, NEW r, Toggles(n, r)
  PROVE  BaseIInv'
<1> USE DEF BaseIInv
<1>1. Kept
  BY SameMembersKept DEF Toggles
<1>2. StageOK(r)'
  <2>1. StageOK(r)
    BY DEF StageOK, Toggles, Taps
  <2> QED
    BY <1>1, <2>1, StageKept DEF Toggles
<1>3. MessagesOK'
  BY DEF Toggles, MessagesOK, Stored, Between, Members
<1> QED
  BY <1>1, <1>2, <1>3, StepKeepsBase DEF Toggles, Typed

(* Connections come and go, and everything may stop.                       *)
Moves ==
  /\ clients' \cap closed' = {} /\ clients' \subseteq Conns /\ closed' \subseteq Conns
  /\ clients \cup closed \subseteq clients' \cup closed' /\ closed \subseteq closed'
  /\ UNCHANGED <<threads, message, reactions, outbox>>

LEMMA ConnectionsMove ==
  ASSUME BaseIInv, NEW c \in Conns, Connect(c) \/ Disconnect(c)
  PROVE  Moves /\ UNCHANGED reqs
<1>1. CASE Connect(c)
  BY <1>1 DEF Connect, Register, Moves, BaseIInv, Typed
<1>2. CASE Disconnect(c)
  BY <1>2 DEF Disconnect, Unregister, Moves, BaseIInv, Typed
<1> QED
  BY <1>1, <1>2

Cuts ==
  /\ reqs' \in Seq(Request) /\ Len(reqs') = Len(reqs) /\ DOMAIN reqs' = DOMAIN reqs
  /\ \A m \in DOMAIN reqs : \/ Over(reqs[m]) /\ reqs'[m] = reqs[m]
                            \/ ~Over(reqs[m]) /\ SameBut(reqs'[m], reqs[m], "cut")

LEMMA CrashCuts ==
  ASSUME BaseIInv, Crash
  PROVE  Moves /\ Cuts
<1>1. Moves
  BY DEF Crash, Moves, BaseIInv, Typed
<1>2. ASSUME NEW m \in DOMAIN reqs
      PROVE  /\ reqs'[m] \in Request
             /\ \/ Over(reqs[m]) /\ reqs'[m] = reqs[m]
                \/ ~Over(reqs[m]) /\ SameBut(reqs'[m], reqs[m], "cut")
  <2>1. reqs[m] \in Request
    BY ReqTyped DEF BaseIInv
  <2>2. reqs'[m] = IF Over(reqs[m]) THEN reqs[m] ELSE [reqs[m] EXCEPT !.pc = "cut"]
    BY DEF Crash
  <2>3. SameBut([reqs[m] EXCEPT !.pc = "cut"], reqs[m], "cut")
    BY <2>1, OnlyPc DEF Pcs
  <2> QED
    BY <2>1, <2>2, <2>3 DEF SameBut
<1>3. reqs' \in Seq(Request) /\ Len(reqs') = Len(reqs) /\ DOMAIN reqs' = DOMAIN reqs
  <2>1. reqs \in Seq(Request) /\ DOMAIN reqs = 1..Len(reqs)
    BY DEF BaseIInv, Typed
  <2>2. reqs' = [m \in 1..Len(reqs) |-> IF Over(reqs[m]) THEN reqs[m]
                                        ELSE [reqs[m] EXCEPT !.pc = "cut"]]
    BY <2>1 DEF Crash
  <2>3. \A m \in 1..Len(reqs) : reqs'[m] \in Request
    BY <1>2, <2>1
  <2> QED
    BY <2>1, <2>2, <2>3
<1> QED
  BY <1>1, <1>2, <1>3 DEF Cuts

LEMMA MovesKeepBase ==
  ASSUME BaseIInv, Moves, UNCHANGED reqs \/ Cuts
  PROVE  BaseIInv'
<1> USE DEF BaseIInv
<1>1. Typed'
  BY DEF Typed, Moves, Cuts
<1>2. ThreadsOK'
  <2>1. ASSUME NEW m \in DOMAIN reqs, reqs[m].pc # "open"
        PROVE  m \in DOMAIN reqs' /\ reqs'[m].pc # "open"
    BY <2>1 DEF Cuts, SameBut
  <2> QED
    BY <2>1 DEF ThreadsOK, Moves
<1>3. Kept
  BY SameMembersKept DEF Moves
<1>4. StagesOK'
  <2> SUFFICES ASSUME NEW m \in DOMAIN reqs' PROVE StageOK(reqs[m])'
    BY DEF StagesOK
  <2>1. PICK s : s = reqs'[m]
    OBVIOUS
  <2>2. m \in DOMAIN reqs /\ reqs[m] \in Request /\ StageOK(reqs[m])
    BY ReqTyped DEF Cuts, StagesOK
  <2>3. s \in Request /\ StageOK(s)
    <3>1. CASE s = reqs[m]
      BY <2>2, <3>1
    <3>2. CASE SameBut(s, reqs[m], "cut")
      BY <2>2, <3>2 DEF StageOK, SameBut, Taps
    <3> QED
      BY <2>1, <2>2, <3>1, <3>2 DEF Cuts
  <2>4. StageOK(s)'
    BY <1>3, <2>3, StageKept
  <2> QED
    BY <2>1, <2>4
<1>5. MessagesOK'
  BY DEF Moves, MessagesOK, Stored, Between, Members
<1> QED
  BY <1>1, <1>2, <1>4, <1>5

(* Everything that can happen, in these terms.                             *)
Tells(n) == Push(n) \/ Acknowledge(n) \/ AnswerError(n) \/ Receipt(n) \/ Show(n)

OneOf ==
  \/ \E r : Arrival(r)
  \/ \E n \in DOMAIN reqs :
       \/ OpenThread(n) \/ Store(n) \/ Tells(n) \/ Aggregate(n) \/ HangUp(n)
       \/ \E r : Marks(n, r) \/ Toggles(n, r) \/ Refuses(n, r)
  \/ Moves /\ (UNCHANGED reqs \/ Cuts)

LEMMA NextIsOneOf ==
  ASSUME BaseIInv, [Next]_vars
  PROVE  OneOf
<1>1. CASE \/ \E p \in Contacts : CreateThread(p[1], p[2])
           \/ \E p \in Contacts : \E c \in Vias(p[1]) \ {"rest"} : SendTo(p[1], c, p[2])
           \/ \E t \in ThreadIds : \E u \in Knowing(t) : \E w \in Vias(u) : SendIn(u, w, t)
           \/ \E t \in ThreadIds, i \in Known : \E u \in Knowing(t) : \E w \in Vias(u) :
                MarkRead(u, w, t, i)
           \/ \E i \in Known : \E u \in Knowing(message[i].thread) :
                (\E e \in Emojis : React(u, i, e)) \/ ClearReaction(u, i)
  BY <1>1, ArrivalsAreFresh DEF BaseIInv, OneOf
<1>2. ASSUME NEW n \in DOMAIN reqs, Continue(n) PROVE OneOf
  <2>1. CASE Mark(n)
    BY <2>1, MarkMarks DEF OneOf
  <2>2. CASE Toggle(n)
    BY <2>2, ToggleToggles DEF OneOf
  <2> QED
    BY <1>2, <2>1, <2>2 DEF Continue, OneOf, Tells
<1>3. ASSUME NEW c \in Conns, Connect(c) \/ Disconnect(c) PROVE OneOf
  BY <1>3, ConnectionsMove DEF OneOf
<1>4. CASE Crash
  BY <1>4, CrashCuts DEF OneOf
<1>5. CASE UNCHANGED vars
  BY <1>5 DEF BaseIInv, Typed, Moves, OneOf, vars, hubVars
<1> QED
  BY <1>1, <1>2, <1>3, <1>4, <1>5 DEF Next

LEMMA BaseStep ==
  ASSUME BaseIInv, OneOf
  PROVE  BaseIInv'
<1>1. ASSUME NEW r, Arrival(r) PROVE BaseIInv'
  BY <1>1, ArrivalKeepsBase
<1>2. ASSUME NEW n \in DOMAIN reqs, OpenThread(n) PROVE BaseIInv'
  BY <1>2, OpenThreadKeepsBase
<1>3. ASSUME NEW n \in DOMAIN reqs, Store(n) PROVE BaseIInv'
  BY <1>3, StoreKeepsBase
<1>4. ASSUME NEW n \in DOMAIN reqs, Tells(n) PROVE BaseIInv'
  BY <1>4, TellingsKeepBase DEF Tells
<1>5. ASSUME NEW n \in DOMAIN reqs, Aggregate(n) PROVE BaseIInv'
  BY <1>5, AggregateKeepsBase
<1>6. ASSUME NEW n \in DOMAIN reqs, HangUp(n) PROVE BaseIInv'
  BY <1>6, HangUpKeepsBase
<1>7. ASSUME NEW n \in DOMAIN reqs, NEW r, Marks(n, r) PROVE BaseIInv'
  BY <1>7, MarksKeepBase
<1>8. ASSUME NEW n \in DOMAIN reqs, NEW r, Toggles(n, r) PROVE BaseIInv'
  BY <1>8, TogglesKeepBase
<1>9. ASSUME NEW n \in DOMAIN reqs, NEW r, Refuses(n, r) PROVE BaseIInv'
  BY <1>9, RefusalKeepsBase
<1>10. CASE Moves /\ (UNCHANGED reqs \/ Cuts)
  BY <1>10, MovesKeepBase
<1> QED
  BY <1>1, <1>2, <1>3, <1>4, <1>5, <1>6, <1>7, <1>8, <1>9, <1>10 DEF OneOf

LEMMA BaseInit ==
  ASSUME Init
  PROVE  BaseIInv
<1> USE DEF Init, HubInit
<1>1. Typed
  <2>1. message \in [Ids -> Rows] /\ reactions \in [Ids -> Aggregates]
    BY DirectAssumption DEF Rows, Aggregates, NoReactions
  <2>2. reqs \in Seq(Request) /\ Len(reqs) <= MaxReqs /\ outbox \in [Conns -> Seq(Events)]
    BY DirectAssumption
  <2> QED
    BY <2>1, <2>2 DEF Typed
<1>2. ThreadsOK
  BY DEF ThreadsOK
<1>3. StagesOK
  BY DEF StagesOK
<1>4. MessagesOK
  BY DEF MessagesOK, Stored
<1> QED
  BY <1>1, <1>2, <1>3, <1>4 DEF BaseIInv

LEMMA BaseInvariant == Spec => []BaseIInv
<1>1. BaseIInv /\ [Next]_vars => BaseIInv'
  BY NextIsOneOf, BaseStep
<1> QED
  BY <1>1, BaseInit, PTL DEF Spec

(* A message is of a thread on file and of its two members, and reactions  *)
(* hang on stored messages only (the foreign keys of the schema and the    *)
(* membership checks of dm.rs).                                            *)
THEOREM TypeCorrect == Spec => []TypeOK
<1>1. ASSUME BaseIInv PROVE TypeOK
  <2> USE DEF BaseIInv
  <2>1. ASSUME NEW i \in Ids, Stored(i)
        PROVE  /\ {message[i].sender} \cup ({message[i].reader} \ {Nobody})
                    \subseteq Members(message[i].thread)
               /\ message[i].sender # message[i].reader
    <3>1. /\ Between(message[i].thread, message[i].sender, message[i].reader)
               \/ message[i].reader = Nobody
          /\ message[i].sender \in Members(message[i].thread)
      BY <1>1, <2>1 DEF MessagesOK
    <3>2. message[i].sender # Nobody
      BY <1>1, <3>1, PeopleAreUsers, DirectAssumption DEF Nobody
    <3> QED
      BY <3>1, <3>2 DEF Between
  <2>2. ASSUME NEW i \in Ids, ~Stored(i)
        PROVE  message[i].thread = 0 /\ reactions[i] = NoReactions
    BY <1>1, <2>2 DEF MessagesOK, Stored
  <2>3. \A i \in Ids : reactions[i] \in Aggregates
    BY <1>1 DEF Typed
  <2>4. \A i \in Ids :
          \/ /\ {message[i].sender} \cup ({message[i].reader} \ {Nobody})
                    \subseteq Members(message[i].thread)
             /\ message[i].sender # message[i].reader
             /\ reactions[i] \in Aggregates
          \/ message[i].thread = 0 /\ reactions[i] = NoReactions
    BY <2>1, <2>2, <2>3
  <2> QED
    BY <1>1, <2>4 DEF Typed, TypeOK
<1> QED
  BY <1>1, BaseInvariant, PTL

(* Two users never share two threads, whoever of them opens it first or    *)
(* both at once: the row that the writer's job looks up after its INSERT   *)
(* OR IGNORE is the only one of the canonical pair.                        *)
THEOREM PairsHaveOneThread == Spec => []OneThreadPerPair
<1>1. ASSUME BaseIInv PROVE OneThreadPerPair
  <2> SUFFICES ASSUME NEW q \in threads, NEW r \in threads, Members(q.id) = Members(r.id)
               PROVE  q = r
    BY DEF OneThreadPerPair
  <2>1. {q.pair[1], q.pair[2]} = {r.pair[1], r.pair[2]}
    BY <1>1, MembersOf DEF BaseIInv, ThreadsOK
  <2>2. q.pair \in Users \X Users /\ r.pair \in Users \X Users
    BY <1>1 DEF BaseIInv, Typed
  <2>3. q.pair[1] < q.pair[2] /\ r.pair[1] < r.pair[2]
    BY <1>1 DEF BaseIInv, ThreadsOK
  <2>4. /\ q.pair[1] \in Nat /\ q.pair[2] \in Nat /\ r.pair[1] \in Nat /\ r.pair[2] \in Nat
    BY <2>2, DirectAssumption
  <2>5. q.pair[1] = r.pair[1] /\ q.pair[2] = r.pair[2]
    BY <2>1, <2>3, <2>4
  <2>6. q.pair = r.pair
    BY <2>2, <2>5
  <2> QED
    BY <1>1, <2>6 DEF BaseIInv, ThreadsOK
<1> QED
  BY <1>1, BaseInvariant, PTL

-----------------------------------------------------------------------------
(* What connections are given.                                             *)

Told(n, r, u, e) ==
  /\ SendToUser(u, e) /\ Update(n, r) /\ SameBut(r, reqs[n], r.pc)
  /\ UNCHANGED <<threads, message, reactions, closed, clients>>
  /\ e \in Events /\ e.by = r.by
  /\ \/ /\ e.typ = "dm.new" /\ r.op = "send" /\ reqs[n].pc = "push" /\ r.pc \in {"ack", "done"}
        /\ u = r.other /\ e.thread = r.thread /\ e.msg = r.msg
     \/ /\ e.typ = "dm.ack" /\ r.op = "send" /\ reqs[n].pc = "ack" /\ r.pc = "done"
        /\ u = r.by /\ e.thread = r.thread /\ e.msg = r.msg
     \/ /\ e.typ = "error" /\ r.op = "send" /\ reqs[n].pc = "error" /\ r.pc = "refused"
     \/ /\ e.typ = "dm.read" /\ r.op = "read" /\ reqs[n].pc = "receipt" /\ r.pc = "done"
        /\ u = r.other /\ e.thread = r.thread /\ e.msg = r.msg
     \/ /\ e.typ = "dm.reaction" /\ r.op \in Taps /\ reqs[n].pc = "show" /\ r.pc = "done"
        /\ u = r.other /\ e.thread = message[r.msg].thread /\ e.msg = r.msg /\ e.seen = r.seen

LEMMA EventFields ==
  ASSUME NEW typ, NEW n, NEW t, NEW i, NEW e, e = Event(typ, n, t, i)
  PROVE  e.typ = typ /\ e.by = reqs[n].by /\ e.thread = t /\ e.msg = i /\ e.seen = reqs[n].seen
  BY DEF Event

LEMMA OneTelling ==
  ASSUME BaseIInv, NEW n \in DOMAIN reqs, NEW u, NEW e, NEW pc \in Pcs, Tell(n, u, e, pc)
  PROVE  \E r : /\ SendToUser(u, e) /\ Update(n, r) /\ SameBut(r, reqs[n], r.pc) /\ r.pc = pc
                /\ UNCHANGED <<threads, message, reactions, closed, clients>>
<1>1. PICK r : r = [reqs[n] EXCEPT !.pc = pc]
  OBVIOUS
<1>2. SameBut(r, reqs[n], pc)
  BY <1>1, OnlyPc, ReqTyped DEF BaseIInv
<1> QED
  BY <1>1, <1>2 DEF Tell, SendToUser, SameBut

LEMMA TellsTold ==
  ASSUME BaseIInv, NEW n \in DOMAIN reqs, Tells(n)
  PROVE  \E r, u, e : Told(n, r, u, e)
<1>1. PICK q : q = reqs[n]
  OBVIOUS
<1>2. /\ q \in Request /\ StageOK(q) /\ q.thread \in 0..MaxReqs /\ q.msg \in Ids \cup {0}
      /\ 0 \in 0..MaxReqs /\ 0 \in Ids \cup {0}
  BY <1>1, ReqTyped, DirectAssumption DEF BaseIInv, StagesOK
<1>3. /\ q.pc \in {"push", "ack", "error"} => q.op = "send"
      /\ q.pc = "receipt" => q.op = "read"
      /\ q.pc = "show" => q.op \in Taps /\ q.msg \in Ids
  BY <1>2 DEF StageOK, Request, Taps
<1>4. q.msg \in Ids => message[q.msg].thread \in 0..MaxReqs
  BY DEF BaseIInv, Typed, Rows
<1>5. CASE Push(n)
  <2>1. PICK e : e = Event("dm.new", n, q.thread, q.msg)
    OBVIOUS
  <2>2. e \in Events /\ e.typ = "dm.new" /\ e.by = q.by /\ e.thread = q.thread /\ e.msg = q.msg
    BY <1>1, <1>2, <2>1, EventTyped, EventFields DEF BaseIInv, Types
  <2>3. AfterPush(q) \in {"ack", "done"} /\ AfterPush(q) \in Pcs
    BY DEF AfterPush, Pcs
  <2>4. Tell(n, q.other, e, AfterPush(q)) /\ q.pc = "push"
    BY <1>1, <1>5, <2>1 DEF Push
  <2>5. PICK r : /\ SendToUser(q.other, e) /\ Update(n, r) /\ SameBut(r, q, r.pc) /\ r.pc = AfterPush(q)
                 /\ UNCHANGED <<threads, message, reactions, closed, clients>>
    BY <1>1, <2>3, <2>4, OneTelling
  <2>6. Told(n, r, q.other, e)
    BY <1>1, <1>3, <2>2, <2>3, <2>4, <2>5 DEF Told, SameBut
  <2> QED
    BY <2>6
<1>6. CASE Acknowledge(n)
  <2>1. PICK e : e = Event("dm.ack", n, q.thread, q.msg)
    OBVIOUS
  <2>2. e \in Events /\ e.typ = "dm.ack" /\ e.by = q.by /\ e.thread = q.thread /\ e.msg = q.msg
    BY <1>1, <1>2, <2>1, EventTyped, EventFields DEF BaseIInv, Types
  <2>3. Tell(n, q.by, e, "done") /\ q.pc = "ack" /\ "done" \in Pcs
    BY <1>1, <1>6, <2>1 DEF Acknowledge, Pcs
  <2>4. PICK r : /\ SendToUser(q.by, e) /\ Update(n, r) /\ SameBut(r, q, r.pc) /\ r.pc = "done"
                 /\ UNCHANGED <<threads, message, reactions, closed, clients>>
    BY <1>1, <2>3, OneTelling
  <2>5. Told(n, r, q.by, e)
    BY <1>1, <1>3, <2>2, <2>3, <2>4 DEF Told, SameBut
  <2> QED
    BY <2>5
<1>7. CASE AnswerError(n)
  <2>1. PICK e : e = Event("error", n, 0, 0)
    OBVIOUS
  <2>2. e \in Events /\ e.typ = "error" /\ e.by = q.by
    BY <1>1, <1>2, <2>1, EventTyped, EventFields DEF BaseIInv, Types
  <2>3. Tell(n, q.by, e, "refused") /\ q.pc = "error" /\ "refused" \in Pcs
    BY <1>1, <1>7, <2>1 DEF AnswerError, Pcs
  <2>4. PICK r : /\ SendToUser(q.by, e) /\ Update(n, r) /\ SameBut(r, q, r.pc) /\ r.pc = "refused"
                 /\ UNCHANGED <<threads, message, reactions, closed, clients>>
    BY <1>1, <2>3, OneTelling
  <2>5. Told(n, r, q.by, e)
    BY <1>1, <1>3, <2>2, <2>3, <2>4 DEF Told, SameBut
  <2> QED
    BY <2>5
<1>8. CASE Receipt(n)
  <2>1. PICK e : e = Event("dm.read", n, q.thread, q.msg)
    OBVIOUS
  <2>2. e \in Events /\ e.typ = "dm.read" /\ e.by = q.by /\ e.thread = q.thread /\ e.msg = q.msg
    BY <1>1, <1>2, <2>1, EventTyped, EventFields DEF BaseIInv, Types
  <2>3. Tell(n, q.other, e, "done") /\ q.pc = "receipt" /\ "done" \in Pcs
    BY <1>1, <1>8, <2>1 DEF Receipt, Pcs
  <2>4. PICK r : /\ SendToUser(q.other, e) /\ Update(n, r) /\ SameBut(r, q, r.pc) /\ r.pc = "done"
                 /\ UNCHANGED <<threads, message, reactions, closed, clients>>
    BY <1>1, <2>3, OneTelling
  <2>5. Told(n, r, q.other, e)
    BY <1>1, <1>3, <2>2, <2>3, <2>4 DEF Told, SameBut
  <2> QED
    BY <2>5
<1>9. CASE Show(n)
  <2>0. q.pc = "show"
    BY <1>1, <1>9 DEF Show
  <2>1. PICK e : e = Event("dm.reaction", n, message[q.msg].thread, q.msg)
    OBVIOUS
  <2>2. /\ e \in Events /\ e.typ = "dm.reaction" /\ e.by = q.by /\ e.seen = q.seen
        /\ e.thread = message[q.msg].thread /\ e.msg = q.msg
    BY <1>1, <1>2, <1>3, <1>4, <2>0, <2>1, EventTyped, EventFields DEF BaseIInv, Types
  <2>3. Tell(n, q.other, e, "done") /\ "done" \in Pcs
    BY <1>1, <1>9, <2>1 DEF Show, Pcs
  <2>4. PICK r : /\ SendToUser(q.other, e) /\ Update(n, r) /\ SameBut(r, q, r.pc) /\ r.pc = "done"
                 /\ UNCHANGED <<threads, message, reactions, closed, clients>>
    BY <1>1, <2>3, OneTelling
  <2>5. Told(n, r, q.other, e)
    BY <1>1, <1>3, <2>0, <2>2, <2>3, <2>4 DEF Told, SameBut
  <2> QED
    BY <2>5
<1> QED
  BY <1>5, <1>6, <1>7, <1>8, <1>9 DEF Tells

LEMMA Given ==
  ASSUME Typed, NEW u, NEW e, SendToUser(u, e), NEW c \in Conns
  PROVE  /\ \A k \in DOMAIN outbox[c] : k \in DOMAIN outbox'[c] /\ outbox'[c][k] = outbox[c][k]
                                        /\ k \in Nat /\ k < Len(outbox[c]) + 1
         /\ \A k \in DOMAIN outbox'[c] :
              \/ k \in DOMAIN outbox[c] /\ outbox'[c][k] = outbox[c][k]
              \/ /\ k = Len(outbox[c]) + 1 /\ outbox'[c][k] = e
                 /\ c \in clients /\ Owner[c] = u
         /\ c \in clients /\ Owner[c] = u =>
              Len(outbox[c]) + 1 \in DOMAIN outbox'[c] /\ outbox'[c][Len(outbox[c]) + 1] = e
<1>1. outbox[c] \in Seq(Events)
  BY DEF Typed
<1>2. CASE c \in clients /\ Owner[c] = u
  <2>1. outbox'[c] = Append(outbox[c], e)
    BY <1>2 DEF SendToUser
  <2> QED
    BY <1>1, <1>2, <2>1
<1>3. CASE ~(c \in clients /\ Owner[c] = u)
  <2>1. outbox'[c] = outbox[c]
    BY <1>3 DEF SendToUser
  <2> QED
    BY <1>1, <1>3, <2>1
<1> QED
  BY <1>2, <1>3

(* An event of another kind, user or message makes no difference.          *)
LEMMA HeardStays ==
  ASSUME Typed, NEW u, NEW e, SendToUser(u, e), NEW c \in Conns, NEW typ, NEW n, NEW by, NEW i,
         by = reqs[n].by /\ by = reqs'[n].by, i = reqs[n].msg /\ i = reqs'[n].msg,
         e.typ # typ \/ e.by # by \/ e.msg # i
  PROVE  Heard(c, typ, n)' = Heard(c, typ, n)
<1> DEFINE Is(f) == f.typ = typ /\ f.by = by /\ f.msg = i
<1>1. Heard(c, typ, n)' = {k \in DOMAIN outbox'[c] : Is(outbox'[c][k])}
  BY DEF Heard
<1>2. Heard(c, typ, n) = {k \in DOMAIN outbox[c] : Is(outbox[c][k])}
  BY DEF Heard
<1>3. ~Is(e)
  OBVIOUS
<1> HIDE DEF Is
<1>4. \A k \in DOMAIN outbox[c] : k \in DOMAIN outbox'[c] /\ outbox'[c][k] = outbox[c][k]
  BY Given
<1>5. \A k \in DOMAIN outbox'[c] :
        (k \in DOMAIN outbox[c] /\ outbox'[c][k] = outbox[c][k]) \/ outbox'[c][k] = e
  BY Given
<1> QED
  BY <1>1, <1>2, <1>3, <1>4, <1>5

LEMMA OneOfKeeps ==
  ASSUME BaseIInv, OneOf
  PROVE  Kept
<1>1. ASSUME NEW r, Arrival(r) PROVE Kept
  BY <1>1, SameMembersKept DEF Arrival, hubVars
<1>2. ASSUME NEW n \in DOMAIN reqs, OpenThread(n) \/ Store(n) PROVE Kept
  BY <1>2, OpenThreadKeepsBase, StoreKeepsBase
<1>3. ASSUME NEW n \in DOMAIN reqs, Tells(n) PROVE Kept
  BY <1>3, TellsTold, SameMembersKept DEF Told
<1>4. ASSUME NEW n \in DOMAIN reqs, Aggregate(n) \/ HangUp(n) PROVE Kept
  BY <1>4, SameMembersKept DEF Aggregate, HangUp, hubVars
<1>5. ASSUME NEW n \in DOMAIN reqs, NEW r, Marks(n, r) PROVE Kept
  BY <1>5, MarksKeepBase
<1>6. ASSUME NEW n \in DOMAIN reqs, NEW r, Toggles(n, r) \/ Refuses(n, r) PROVE Kept
  BY <1>6, SameMembersKept DEF Toggles, Refuses
<1>7. CASE Moves
  BY <1>7, SameMembersKept DEF Moves
<1> QED
  BY <1>1, <1>2, <1>3, <1>4, <1>5, <1>6, <1>7 DEF OneOf

(* A step that gives nobody anything.                                      *)
LEMMA OneOfTells ==
  ASSUME BaseIInv, OneOf
  PROVE  UNCHANGED outbox \/ \E n \in DOMAIN reqs : \E r, u, e : Told(n, r, u, e)
<1>1. ASSUME NEW n \in DOMAIN reqs, Tells(n)
      PROVE  \E m \in DOMAIN reqs : \E r, u, e : Told(m, r, u, e)
  BY <1>1, TellsTold
<1>2. ASSUME NEW n \in DOMAIN reqs,
             \/ OpenThread(n) \/ Store(n) \/ Aggregate(n) \/ HangUp(n)
             \/ \E r : Marks(n, r) \/ Toggles(n, r) \/ Refuses(n, r)
      PROVE  UNCHANGED outbox
  BY <1>2 DEF OpenThread, Store, Aggregate, HangUp, Marks, Toggles, Refuses, hubVars
<1>3. ASSUME NEW r, Arrival(r) PROVE UNCHANGED outbox
  BY <1>3 DEF Arrival, hubVars
<1>4. CASE Moves
  BY <1>4 DEF Moves
<1> QED
  BY <1>1, <1>2, <1>3, <1>4 DEF OneOf

(* What a connection is given about a thread comes from a member of it and *)
(* goes to a member of it: thread_peer and message_peer decide whom, and   *)
(* nobody ever joins or leaves a thread while a request is on its way.     *)
THEOREM ThreadsArePrivate == Spec => []MembersOnly
<1>1. Init => MembersOnly
  BY DEF Init, HubInit, MembersOnly
<1>2. ASSUME BaseIInv, MembersOnly, [Next]_vars PROVE MembersOnly'
  <2>1. OneOf /\ Kept
    BY <1>2, NextIsOneOf, OneOfKeeps
  <2>2. ASSUME NEW c \in Conns, NEW k \in DOMAIN outbox[c], NEW e, e = outbox[c][k], e.typ # "error"
        PROVE  e.by \in Members(e.thread)' /\ Owner[c] \in Members(e.thread)'
    <3>1. e.by \in Members(e.thread) /\ Owner[c] \in Members(e.thread)
      BY <1>2, <2>2 DEF MembersOnly
    <3> QED
      BY <2>1, <3>1 DEF Kept
  <2>3. ASSUME NEW c \in Conns, NEW k \in DOMAIN outbox'[c], NEW e, e = outbox'[c][k], e.typ # "error"
        PROVE  e.by \in Members(e.thread)' /\ Owner[c] \in Members(e.thread)'
    <3>1. CASE UNCHANGED outbox
      BY <2>2, <2>3, <3>1
    <3>2. ASSUME NEW n \in DOMAIN reqs, NEW r, NEW u, NEW f, Told(n, r, u, f)
          PROVE  e.by \in Members(e.thread)' /\ Owner[c] \in Members(e.thread)'
      <4>1. CASE k \in DOMAIN outbox[c] /\ outbox'[c][k] = outbox[c][k]
        BY <2>2, <2>3, <4>1
      <4>2. CASE outbox'[c][k] = f /\ Owner[c] = u
        <5>1. StageOK(reqs[n]) /\ SameBut(r, reqs[n], r.pc) /\ e = f /\ e.by = r.by /\ Owner[c] = u
          BY <1>2, <2>3, <3>2, <4>2 DEF Told, BaseIInv, StagesOK
        <5>2. Between(e.thread, r.by, r.other) /\ u \in {r.by, r.other}
          BY <2>3, <3>2, <5>1 DEF Told, StageOK, SameBut, Taps
        <5>3. Between(e.thread, r.by, r.other)'
          BY <2>1, <5>2 DEF Kept
        <5> QED
          BY <5>1, <5>2, <5>3 DEF Between
      <4> QED
        BY <1>2, <3>2, <4>1, <4>2, Given DEF Told, BaseIInv
    <3> QED
      BY <1>2, <2>1, <3>1, <3>2, OneOfTells
  <2> QED
    BY <2>3 DEF MembersOnly
<1> QED
  BY <1>1, <1>2, BaseInvariant, PTL DEF Spec

-----------------------------------------------------------------------------
(* A message that was answered has been given to the peer once.            *)

(* Steps that move no request from its push to its answer, or into it.     *)
SendsAside ==
  /\ UNCHANGED outbox /\ closed \subseteq closed'
  /\ \A m \in DOMAIN reqs' : reqs'[m].op = "send" =>
       \/ m \in DOMAIN reqs /\ reqs'[m] = reqs[m]
       \/ /\ m \in DOMAIN reqs /\ reqs[m].op = "send" /\ reqs'[m].pc = "cut"
          /\ reqs'[m].msg = reqs[m].msg
       \/ reqs'[m].msg = 0 /\ reqs'[m].pc \notin {"push", "ack", "done"}

LEMMA AsideKeepsSends ==
  ASSUME BaseIInv, SendIInv, SendsAside, Kept
  PROVE  SendIInv'
<1>1. SentOnce'
  <2>1. \A n, m \in DOMAIN reqs' :
          n # m /\ reqs'[n].op = "send" /\ reqs'[m].op = "send" /\ reqs'[n].msg # 0 =>
            reqs'[n].msg # reqs'[m].msg
    BY DEF SendsAside, SendIInv, SentOnce
  <2>2. ASSUME NEW c \in Conns, NEW k \in DOMAIN outbox[c], outbox[c][k].typ = "dm.new"
        PROVE  /\ outbox[c][k].msg \in Ids /\ Stored(outbox[c][k].msg)'
               /\ \A n \in DOMAIN reqs' :
                    reqs'[n].op = "send" /\ reqs'[n].pc = "push" => reqs'[n].msg # outbox[c][k].msg
    <3>1. PICK i : i = outbox[c][k].msg
      OBVIOUS
    <3>2. /\ i \in Ids /\ Stored(i)
          /\ \A n \in DOMAIN reqs : reqs[n].op = "send" /\ reqs[n].pc = "push" => reqs[n].msg # i
      BY <2>2, <3>1 DEF SendIInv, SentOnce
    <3>3. message'[i].thread # 0
      BY <3>2 DEF Kept, Stored
    <3>4. \A n \in DOMAIN reqs' : reqs'[n].op = "send" /\ reqs'[n].pc = "push" => reqs'[n].msg # i
      BY <3>2 DEF SendsAside
    <3>5. outbox' = outbox
      BY DEF SendsAside
    <3> QED
      BY <3>1, <3>2, <3>3, <3>4, <3>5 DEF Stored
  <2>3. outbox' = outbox
    BY DEF SendsAside
  <2> QED
    BY <2>1, <2>2, <2>3 DEF SentOnce
<1>2. PushedOnce'
  <2> SUFFICES ASSUME NEW n \in DOMAIN reqs', reqs'[n].op = "send", reqs'[n].pc \in {"ack", "done"},
                      NEW c \in reqs'[n].online \ closed', Owner[c] = reqs'[n].other
               PROVE  Cardinality(Heard(c, "dm.new", n))' = 1
    BY DEF PushedOnce
  <2>1. n \in DOMAIN reqs /\ reqs'[n] = reqs[n]
    BY DEF SendsAside
  <2>2. Heard(c, "dm.new", n)' = Heard(c, "dm.new", n)
    BY <2>1 DEF Heard, SendsAside
  <2>3. Cardinality(Heard(c, "dm.new", n)) = 1
    BY <2>1 DEF SendIInv, PushedOnce, SendsAside
  <2> QED
    BY <2>2, <2>3
<1> QED
  BY <1>1, <1>2 DEF SendIInv

LEMMA MostAreAside ==
  ASSUME BaseIInv, OneOf
  PROVE  \/ SendsAside
         \/ \E n \in DOMAIN reqs : Store(n) \/ \E r, u, e : Told(n, r, u, e)
<1> USE DEF BaseIInv
<1>1. ASSUME NEW r, Arrival(r) PROVE SendsAside
  <2>1. r \in Request /\ StageOK(r) /\ reqs' = Append(reqs, r)
        /\ r.pc \notin {"push", "ack", "done"} /\ UNCHANGED <<outbox, closed>>
    BY <1>1 DEF Arrival, Fresh, hubVars
  <2>2. r.op = "send" => r.msg = 0
    BY <1>1, <2>1 DEF StageOK, Arrival, Fresh
  <2> QED
    BY <2>1, <2>2, Appended DEF SendsAside
<1>2. ASSUME NEW n \in DOMAIN reqs, NEW r \in Request, Update(n, r), UNCHANGED <<outbox, closed>>,
             \/ r.op # "send"
             \/ reqs[n].op = "send" /\ r.pc = "cut" /\ r.msg = reqs[n].msg
             \/ r.msg = 0 /\ r.pc \notin {"push", "ack", "done"}
      PROVE  SendsAside
  BY <1>2, Stepped DEF SendsAside
<1>3. ASSUME NEW n \in DOMAIN reqs, OpenThread(n) PROVE SendsAside
  <2>1. PICK s : Update(n, [reqs[n] EXCEPT !.thread = s.id,
                                           !.pc = IF reqs[n].op = "send" THEN "store" ELSE "done"])
    BY <1>3 DEF OpenThread
  <2>2. PICK r : r = [reqs[n] EXCEPT !.thread = s.id,
                                     !.pc = IF reqs[n].op = "send" THEN "store" ELSE "done"]
    OBVIOUS
  <2>3. /\ reqs[n] \in Request /\ StageOK(reqs[n]) /\ reqs[n].pc = "open"
        /\ UNCHANGED <<outbox, closed>>
    BY <1>3, ReqTyped DEF StagesOK, OpenThread, hubVars
  <2>4. r.op = reqs[n].op /\ r.msg = reqs[n].msg /\ (r.op = "send" => r.pc = "store")
    BY <2>2, <2>3 DEF Request
  <2>5. reqs[n].op = "send" => reqs[n].msg = 0
    BY <2>3 DEF StageOK
  <2>6. reqs'[n] = r /\ DOMAIN reqs' = DOMAIN reqs /\ \A m \in DOMAIN reqs : m # n => reqs'[m] = reqs[m]
    BY <2>1, <2>2 DEF Update, Typed
  <2> QED
    BY <2>3, <2>4, <2>5, <2>6 DEF SendsAside
<1>4. ASSUME NEW n \in DOMAIN reqs, Aggregate(n) PROVE SendsAside
  <2>1. PICK r : r = [reqs[n] EXCEPT !.seen = reactions[reqs[n].msg], !.pc = "show"]
    OBVIOUS
  <2>2. Update(n, r) /\ reqs[n].pc = "aggregate" /\ UNCHANGED <<outbox, closed>>
    BY <1>4, <2>1 DEF Aggregate, hubVars
  <2>3. reqs[n] \in Request /\ StageOK(reqs[n])
    BY ReqTyped DEF StagesOK
  <2>4. reqs[n].op # "send" /\ r.op = reqs[n].op
    BY <2>1, <2>2, <2>3 DEF StageOK, Request
  <2>5. reqs'[n] = r /\ DOMAIN reqs' = DOMAIN reqs /\ \A m \in DOMAIN reqs : m # n => reqs'[m] = reqs[m]
    BY <2>2 DEF Update, Typed
  <2> QED
    BY <2>2, <2>4, <2>5 DEF SendsAside
<1>5. ASSUME NEW n \in DOMAIN reqs, HangUp(n) PROVE SendsAside
  <2>1. PICK r : r = [reqs[n] EXCEPT !.pc = "cut"]
    OBVIOUS
  <2>2. SameBut(r, reqs[n], "cut") /\ Update(n, r)
    BY <1>5, <2>1, OnlyPc, ReqTyped DEF HangUp, Pcs
  <2>3. UNCHANGED <<outbox, closed>>
    BY <1>5 DEF HangUp, hubVars
  <2> QED
    BY <1>2, <2>2, <2>3 DEF SameBut
<1>6. ASSUME NEW n \in DOMAIN reqs, NEW r, Marks(n, r) \/ Toggles(n, r) PROVE SendsAside
  BY <1>2, <1>6 DEF Marks, Toggles, Taps
<1>7. ASSUME NEW n \in DOMAIN reqs, NEW r, Refuses(n, r) PROVE SendsAside
  <2>1. reqs[n] \in Request /\ StageOK(reqs[n])
    BY ReqTyped DEF StagesOK
  <2>2. reqs[n].op # "send"
    BY <1>7, <2>1 DEF StageOK, Refuses
  <2> QED
    BY <1>2, <1>7, <2>2 DEF Refuses, SameBut
<1>8. CASE Moves /\ (UNCHANGED reqs \/ Cuts)
  BY <1>8 DEF Moves, Cuts, SendsAside, SameBut
<1>9. ASSUME NEW n \in DOMAIN reqs, Tells(n) PROVE \E r, u, e : Told(n, r, u, e)
  BY <1>9, TellsTold
<1> QED
  BY <1>1, <1>3, <1>4, <1>5, <1>6, <1>7, <1>8, <1>9 DEF OneOf

(* A message that is stored gets an id that nobody has heard of.           *)
LEMMA StoreKeepsSends ==
  ASSUME BaseIInv, SendIInv, NEW n \in DOMAIN reqs, Store(n)
  PROVE  SendIInv'
<1> USE DEF BaseIInv
<1>1. PICK q : q = reqs[n]
  OBVIOUS
<1>2. q \in Request /\ StageOK(q) /\ q.pc = "store"
  BY <1>1, ReqTyped DEF StagesOK, Store
<1>3. PICK i \in Ids : ~Stored(i) /\ Update(n, [q EXCEPT !.msg = i, !.pc = "push", !.online = clients])
  BY <1>1 DEF Store
<1>4. PICK r : r = [q EXCEPT !.msg = i, !.pc = "push", !.online = clients]
  OBVIOUS
<1>5. Update(n, r) /\ r.msg = i /\ r.pc = "push" /\ r.op = q.op
  BY <1>2, <1>3, <1>4 DEF Request
<1>6. reqs'[n] = r /\ DOMAIN reqs' = DOMAIN reqs /\ \A m \in DOMAIN reqs : m # n => reqs'[m] = reqs[m]
  BY <1>5 DEF Update, Typed
<1>7. UNCHANGED <<closed, outbox>> /\ Kept
  BY StoreKeepsBase DEF Store, hubVars
<1>8. \A m \in DOMAIN reqs : reqs[m].op = "send" /\ reqs[m].msg # 0 => reqs[m].msg # i
  <2> SUFFICES ASSUME NEW m \in DOMAIN reqs, reqs[m].op = "send", reqs[m].msg # 0
               PROVE  Stored(reqs[m].msg)
    BY <1>3
  <2>1. StageOK(reqs[m])
    BY DEF StagesOK
  <2> QED
    BY <2>1 DEF StageOK
<1>9. SentOnce'
  <2>1. \A a, b \in DOMAIN reqs' :
          a # b /\ reqs'[a].op = "send" /\ reqs'[b].op = "send" /\ reqs'[a].msg # 0 =>
            reqs'[a].msg # reqs'[b].msg
    <3> SUFFICES ASSUME NEW a \in DOMAIN reqs', NEW b \in DOMAIN reqs', a # b, reqs'[a].op = "send",
                        reqs'[b].op = "send", reqs'[a].msg # 0, reqs'[a].msg = reqs'[b].msg
                 PROVE  FALSE
      OBVIOUS
    <3>1. a # n /\ b # n => FALSE
      BY <1>6 DEF SendIInv, SentOnce
    <3>2. i # 0
      BY DEF Ids
    <3> QED
      BY <1>5, <1>6, <1>8, <3>1, <3>2
  <2>2. ASSUME NEW c \in Conns, NEW k \in DOMAIN outbox[c], outbox[c][k].typ = "dm.new"
        PROVE  /\ outbox[c][k].msg \in Ids /\ Stored(outbox[c][k].msg)'
               /\ \A m \in DOMAIN reqs' :
                    reqs'[m].op = "send" /\ reqs'[m].pc = "push" => reqs'[m].msg # outbox[c][k].msg
    <3>1. PICK j : j = outbox[c][k].msg
      OBVIOUS
    <3>2. /\ j \in Ids /\ Stored(j)
          /\ \A m \in DOMAIN reqs : reqs[m].op = "send" /\ reqs[m].pc = "push" => reqs[m].msg # j
      BY <2>2, <3>1 DEF SendIInv, SentOnce
    <3>3. message'[j].thread # 0
      BY <1>7, <3>2 DEF Kept, Stored
    <3>4. \A m \in DOMAIN reqs' : reqs'[m].op = "send" /\ reqs'[m].pc = "push" => reqs'[m].msg # j
      BY <1>3, <1>5, <1>6, <3>2
    <3> QED
      BY <1>7, <3>1, <3>2, <3>3, <3>4 DEF Stored
  <2> QED
    BY <1>7, <2>1, <2>2 DEF SentOnce
<1>10. PushedOnce'
  <2> SUFFICES ASSUME NEW m \in DOMAIN reqs', reqs'[m].op = "send", reqs'[m].pc \in {"ack", "done"},
                      NEW c \in reqs'[m].online \ closed', Owner[c] = reqs'[m].other
               PROVE  Cardinality(Heard(c, "dm.new", m))' = 1
    BY DEF PushedOnce
  <2>1. m \in DOMAIN reqs /\ reqs'[m] = reqs[m]
    BY <1>5, <1>6
  <2>2. Heard(c, "dm.new", m)' = Heard(c, "dm.new", m)
    BY <1>7, <2>1 DEF Heard
  <2>3. Cardinality(Heard(c, "dm.new", m)) = 1
    BY <1>7, <2>1 DEF SendIInv, PushedOnce
  <2> QED
    BY <2>2, <2>3
<1> QED
  BY <1>9, <1>10 DEF SendIInv

(* Before its push nobody has heard of a message, and after it whoever was *)
(* to be told has heard of it once.                                        *)
LEMMA ToldKeepsSends ==
  ASSUME BaseIInv, SendIInv, NEW n \in DOMAIN reqs, NEW r, NEW u, NEW e, Told(n, r, u, e)
  PROVE  SendIInv'
<1> USE DEF BaseIInv
<1>1. /\ r \in Request /\ StageOK(reqs[n]) /\ SameBut(r, reqs[n], r.pc) /\ SendToUser(u, e)
      /\ r.op = reqs[n].op /\ r.msg = reqs[n].msg /\ r.by = reqs[n].by /\ r.other = reqs[n].other
      /\ r.online = reqs[n].online /\ e.by = r.by
      /\ UNCHANGED <<threads, message, reactions, closed, clients>>
  BY DEF StagesOK, Told, SameBut
<1>2. reqs'[n] = r /\ DOMAIN reqs' = DOMAIN reqs /\ \A m \in DOMAIN reqs : m # n => reqs'[m] = reqs[m]
  BY Stepped, <1>1 DEF Told
<1>3. r.pc # "push"
  BY DEF Told
<1>4. e.typ = "dm.new" => /\ r.op = "send" /\ reqs[n].pc = "push" /\ e.msg = r.msg
                          /\ r.msg # 0 /\ u = r.other
  BY <1>1 DEF Told, StageOK
<1>5. \A m \in DOMAIN reqs : e.typ = "dm.new" /\ m # n /\ reqs[m].op = "send" => reqs[m].msg # e.msg
  BY <1>1, <1>4 DEF SendIInv, SentOnce
<1>6. SentOnce'
  <2>1. \A a, b \in DOMAIN reqs' :
          a # b /\ reqs'[a].op = "send" /\ reqs'[b].op = "send" /\ reqs'[a].msg # 0 =>
            reqs'[a].msg # reqs'[b].msg
    BY <1>1, <1>2 DEF SendIInv, SentOnce
  <2>2. ASSUME NEW c \in Conns, NEW k \in DOMAIN outbox'[c], outbox'[c][k].typ = "dm.new"
        PROVE  /\ outbox'[c][k].msg \in Ids /\ message'[outbox'[c][k].msg].thread # 0
               /\ \A m \in DOMAIN reqs' :
                    reqs'[m].op = "send" /\ reqs'[m].pc = "push" => reqs'[m].msg # outbox'[c][k].msg
    <3>1. CASE k \in DOMAIN outbox[c] /\ outbox'[c][k] = outbox[c][k]
      <4>1. PICK j : j = outbox[c][k].msg
        OBVIOUS
      <4>2. /\ j \in Ids /\ Stored(j)
            /\ \A m \in DOMAIN reqs : reqs[m].op = "send" /\ reqs[m].pc = "push" => reqs[m].msg # j
        BY <2>2, <3>1, <4>1 DEF SendIInv, SentOnce
      <4>3. \A m \in DOMAIN reqs' : reqs'[m].op = "send" /\ reqs'[m].pc = "push" => reqs'[m].msg # j
        BY <1>2, <1>3, <4>2
      <4> QED
        BY <1>1, <3>1, <4>1, <4>2, <4>3 DEF Stored
    <3>2. CASE outbox'[c][k] = e
      <4>1. r.msg \in Ids /\ Stored(r.msg) /\ e.msg = r.msg
        BY <1>1, <1>4, <2>2, <3>2 DEF StageOK, Request
      <4>2. \A m \in DOMAIN reqs' : reqs'[m].op = "send" /\ reqs'[m].pc = "push" => reqs'[m].msg # e.msg
        BY <1>2, <1>3, <1>5, <2>2, <3>2
      <4> QED
        BY <1>1, <3>2, <4>1, <4>2 DEF Stored
    <3> QED
      BY <1>1, <3>1, <3>2, Given
  <2> QED
    BY <2>1, <2>2 DEF SentOnce, Stored
<1>7. PushedOnce'
  <2> SUFFICES ASSUME NEW m \in DOMAIN reqs', reqs'[m].op = "send", reqs'[m].pc \in {"ack", "done"},
                      NEW c \in reqs'[m].online \ closed', Owner[c] = reqs'[m].other
               PROVE  Cardinality(Heard(c, "dm.new", m))' = 1
    BY DEF PushedOnce
  <2>1. PICK s : s = reqs'[m]
    OBVIOUS
  <2>2. /\ m \in DOMAIN reqs /\ s.op = reqs[m].op /\ s.msg = reqs[m].msg /\ s.by = reqs[m].by
        /\ s.online = reqs[m].online /\ s.other = reqs[m].other
    BY <1>1, <1>2, <2>1
  <2>3. c \in Conns /\ c \notin closed
    BY <1>1, <2>2, <2>1, ReqTyped
  <2>4. CASE e.typ = "dm.new" /\ m = n
    <3>1. c \in clients /\ Owner[c] = u
      <4>1. r.online \subseteq clients \cup closed
        BY <1>1 DEF StageOK
      <4> QED
        BY <1>2, <1>4, <2>1, <2>3, <2>4, <4>1
    <3>2. \A k \in DOMAIN outbox[c] : outbox[c][k].typ = "dm.new" => outbox[c][k].msg # r.msg
      BY <1>1, <1>4, <2>3, <2>4 DEF SendIInv, SentOnce
    <3>3. Heard(c, "dm.new", m)' = {k \in DOMAIN outbox'[c] : /\ outbox'[c][k].typ = "dm.new"
                                                              /\ outbox'[c][k].by = r.by
                                                              /\ outbox'[c][k].msg = r.msg}
      BY <1>2, <2>4 DEF Heard
    <3>4. Heard(c, "dm.new", m)' = {Len(outbox[c]) + 1}
      BY <1>1, <1>4, <2>3, <2>4, <3>1, <3>2, <3>3, Given
    <3> QED
      BY <3>4, FS_Singleton
  <2>5. CASE e.typ # "dm.new" \/ m # n
    <3>1. reqs[m].pc \in {"ack", "done"}
      <4>1. CASE m # n
        BY <1>2, <4>1
      <4>2. CASE m = n
        <5>1. r.op = "send" /\ e.typ # "dm.new" /\ r.pc \in {"ack", "done"}
          BY <1>2, <2>5, <4>2
        <5> QED
          BY <4>2, <5>1 DEF Told, Taps
      <4> QED
        BY <4>1, <4>2
    <3>2. e.typ = "dm.new" => e.msg # reqs[m].msg
      BY <1>5, <2>1, <2>2, <2>5
    <3>3. Heard(c, "dm.new", m)' = Heard(c, "dm.new", m)
      BY <1>1, <2>1, <2>2, <2>3, <3>2, HeardStays
    <3>4. Cardinality(Heard(c, "dm.new", m)) = 1
      BY <2>1, <2>2, <2>3, <3>1 DEF SendIInv, PushedOnce
    <3> QED
      BY <3>3, <3>4
  <2> QED
    BY <2>4, <2>5
<1> QED
  BY <1>6, <1>7 DEF SendIInv

LEMMA SendInvariant == Spec => []SendIInv
<1>1. Init => SendIInv
  BY DEF Init, HubInit, SendIInv, SentOnce, PushedOnce
<1>2. ASSUME BaseIInv, SendIInv, [Next]_vars PROVE SendIInv'
  <2>1. OneOf /\ Kept
    BY <1>2, NextIsOneOf, OneOfKeeps
  <2> QED
    BY <1>2, <2>1, MostAreAside, AsideKeepsSends, StoreKeepsSends, ToldKeepsSends
<1> QED
  BY <1>1, <1>2, BaseInvariant, PTL DEF Spec

(* A send that was answered is stored, and every connection that the peer  *)
(* has kept since it was stored was given the message exactly once: the    *)
(* push reads the hub after the job, and a send is pushed by nobody else.  *)
THEOREM AnsweredIsDeliveredOnce == Spec => []AnsweredIsDelivered
<1>1. ASSUME BaseIInv, SendIInv PROVE AnsweredIsDelivered
  <2> SUFFICES ASSUME NEW n \in DOMAIN reqs, reqs[n].op = "send", reqs[n].pc \in {"ack", "done"}
               PROVE  /\ message[reqs[n].msg].thread = reqs[n].thread
                      /\ message[reqs[n].msg].sender = reqs[n].by
                      /\ \A c \in reqs[n].online \cap clients :
                           Owner[c] = reqs[n].other => Cardinality(Heard(c, "dm.new", n)) = 1
    BY DEF AnsweredIsDelivered
  <2>1. StageOK(reqs[n])
    BY <1>1 DEF BaseIInv, StagesOK
  <2>2. message[reqs[n].msg].thread = reqs[n].thread /\ message[reqs[n].msg].sender = reqs[n].by
    BY <2>1 DEF StageOK
  <2>3. clients \cap closed = {}
    BY <1>1 DEF BaseIInv, Typed
  <2> QED
    BY <1>1, <2>2, <2>3 DEF SendIInv, PushedOnce
<1> QED
  BY <1>1, BaseInvariant, SendInvariant, PTL

-----------------------------------------------------------------------------
(* A message is read only because its recipient asked for it.              *)

(* Steps that mark nothing and answer no read request.                     *)
ReadsAside ==
  /\ closed \subseteq closed' /\ (UNCHANGED outbox \/ \E u, e : SendToUser(u, e))
  /\ \A m \in DOMAIN reqs' : reqs'[m].op = "read" /\ reqs'[m].marked # {} =>
       m \in DOMAIN reqs /\ (reqs'[m] = reqs[m] \/ SameBut(reqs'[m], reqs[m], "cut"))
  /\ \A m \in DOMAIN reqs : reqs[m].op = "read" =>
       m \in DOMAIN reqs' /\ reqs'[m].op = "read" /\ reqs'[m].marked = reqs[m].marked
  /\ \A i \in Ids : IF Stored(i) THEN message'[i] = message[i] ELSE message'[i].reader = Nobody

LEMMA HeardRemains ==
  ASSUME Typed, UNCHANGED outbox \/ (\E u, e : SendToUser(u, e)), NEW c \in Conns, NEW typ, NEW n,
         reqs'[n].by = reqs[n].by, reqs'[n].msg = reqs[n].msg
  PROVE  Heard(c, typ, n) \subseteq Heard(c, typ, n)'
<1>1. \A k \in DOMAIN outbox[c] : k \in DOMAIN outbox'[c] /\ outbox'[c][k] = outbox[c][k]
  BY Given
<1> QED
  BY <1>1 DEF Heard

LEMMA AsideKeepsMarks ==
  ASSUME BaseIInv, MarksOK, ReadsAside, Kept
  PROVE  MarksOK'
<1> USE DEF BaseIInv
<1>1. ASSUME NEW n \in DOMAIN reqs', reqs'[n].op = "read", reqs'[n].marked # {}
      PROVE  /\ reqs'[n].pc \in {"receipt", "done", "cut"}
             /\ Between(reqs[n].thread, reqs[n].by, reqs[n].other)'
             /\ \A i \in reqs'[n].marked :
                  /\ message'[i].thread = reqs'[n].thread /\ message'[i].reader = reqs'[n].by
                  /\ message'[i].sender = reqs'[n].other /\ i <= reqs'[n].msg
             /\ reqs'[n].pc = "done" => \A c \in reqs'[n].online \ closed' :
                  Owner[c] = reqs'[n].other => Heard(c, "dm.read", n)' # {}
  <2>1. /\ n \in DOMAIN reqs /\ (reqs'[n] = reqs[n] \/ SameBut(reqs'[n], reqs[n], "cut"))
    BY <1>1 DEF ReadsAside
  <2>2. PICK s : s = reqs'[n]
    OBVIOUS
  <2>3. /\ s.op = reqs[n].op /\ s.by = reqs[n].by /\ s.thread = reqs[n].thread
        /\ s.other = reqs[n].other /\ s.msg = reqs[n].msg /\ s.online = reqs[n].online
        /\ s.marked = reqs[n].marked /\ (s.pc = reqs[n].pc \/ s.pc = "cut")
    BY <2>1, <2>2 DEF SameBut
  <2>4. /\ reqs[n].pc \in {"receipt", "done", "cut"} /\ Between(s.thread, s.by, s.other)
        /\ \A i \in s.marked : /\ message[i].thread = s.thread /\ message[i].reader = s.by
                               /\ message[i].sender = s.other /\ i <= s.msg
        /\ reqs[n].pc = "done" => \A c \in s.online \ closed :
             Owner[c] = s.other => Heard(c, "dm.read", n) # {}
    BY <1>1, <2>1, <2>2, <2>3 DEF MarksOK
  <2>5. Between(s.thread, s.by, s.other)'
    BY <2>4 DEF Kept
  <2>6. s.thread # 0 /\ s.marked \subseteq Ids /\ s.online \subseteq Conns
    BY <2>1, <2>3, <2>4, BetweenThread, ReqTyped, DirectAssumption
  <2>7. \A i \in s.marked : message'[i] = message[i]
    BY <2>4, <2>6 DEF ReadsAside, Stored
  <2>8. ASSUME NEW c \in s.online \ closed', s.pc = "done", Owner[c] = s.other
        PROVE  Heard(c, "dm.read", n)' # {}
    <3>1. Heard(c, "dm.read", n) # {}
      BY <2>3, <2>4, <2>8 DEF ReadsAside
    <3>2. Heard(c, "dm.read", n) \subseteq Heard(c, "dm.read", n)'
      BY <2>2, <2>3, <2>6, HeardRemains DEF ReadsAside
    <3> QED
      BY <3>1, <3>2
  <2> QED
    BY <2>2, <2>3, <2>4, <2>5, <2>7, <2>8 DEF Between
<1>2. ASSUME NEW i \in Ids, message'[i].reader # Nobody
      PROVE  \E n \in DOMAIN reqs' : reqs'[n].op = "read" /\ i \in reqs'[n].marked
  <2>1. message[i].reader # Nobody
    BY <1>2 DEF ReadsAside
  <2>2. PICK n \in DOMAIN reqs : reqs[n].op = "read" /\ i \in reqs[n].marked
    BY <2>1 DEF MarksOK
  <2> QED
    BY <2>2 DEF ReadsAside
<1> QED
  BY <1>1, <1>2 DEF MarksOK

LEMMA MarksKeepMarks ==
  ASSUME BaseIInv, MarksOK, NEW n \in DOMAIN reqs, NEW r, Marks(n, r)
  PROVE  MarksOK'
<1> USE DEF BaseIInv
<1>1. reqs'[n] = r /\ DOMAIN reqs' = DOMAIN reqs /\ \A m \in DOMAIN reqs : m # n => reqs'[m] = reqs[m]
  BY Stepped DEF Marks
<1>2. reqs[n].marked = {} /\ r.op = "read"
  BY DEF Marks, MarksOK
<1>3. \A i \in Ids : /\ message'[i].thread = message[i].thread
                     /\ message'[i].sender = message[i].sender
                     /\ message'[i].reader = IF i \in r.marked THEN r.by ELSE message[i].reader
  BY DEF Marks, Typed, Rows
<1>4. UNCHANGED <<threads, closed, outbox>> /\ r \in Request
  BY DEF Marks
<1>5. ASSUME NEW m \in DOMAIN reqs', reqs'[m].op = "read", reqs'[m].marked # {}
      PROVE  /\ reqs'[m].pc \in {"receipt", "done", "cut"}
             /\ Between(reqs[m].thread, reqs[m].by, reqs[m].other)'
             /\ \A i \in reqs'[m].marked :
                  /\ message'[i].thread = reqs'[m].thread /\ message'[i].reader = reqs'[m].by
                  /\ message'[i].sender = reqs'[m].other /\ i <= reqs'[m].msg
             /\ reqs'[m].pc = "done" => \A c \in reqs'[m].online \ closed' :
                  Owner[c] = reqs'[m].other => Heard(c, "dm.read", m)' # {}
  <2>1. CASE m = n
    <3>1. r.pc = "receipt"
      BY <1>1, <1>5, <2>1 DEF Marks, AfterMark
    <3>2. Between(r.thread, r.by, r.other)'
      BY <1>4 DEF Marks, Between, Members
    <3>3. \A i \in r.marked : /\ message'[i].thread = r.thread /\ message'[i].reader = r.by
                              /\ message'[i].sender = r.other /\ i <= r.msg
      BY <1>3 DEF Marks
    <3> QED
      BY <1>1, <2>1, <3>1, <3>2, <3>3 DEF Between
  <2>2. CASE m # n
    <3>1. m \in DOMAIN reqs /\ reqs'[m] = reqs[m]
      BY <1>1, <2>2
    <3>2. PICK s : s = reqs[m]
      OBVIOUS
    <3>3. /\ s.pc \in {"receipt", "done", "cut"} /\ Between(s.thread, s.by, s.other)
          /\ \A i \in s.marked : /\ message[i].thread = s.thread /\ message[i].reader = s.by
                                 /\ message[i].sender = s.other /\ i <= s.msg
          /\ s.pc = "done" => \A c \in s.online \ closed :
               Owner[c] = s.other => Heard(c, "dm.read", m) # {}
      BY <1>5, <3>1, <3>2 DEF MarksOK
    <3>4. Between(s.thread, s.by, s.other)'
      BY <1>4, <3>3 DEF Between, Members
    <3>5. s.marked \subseteq Ids /\ s.by # Nobody
      BY <3>1, <3>2, ReqTyped, DirectAssumption DEF Nobody
    <3>6. \A i \in s.marked : i \notin r.marked
      BY <3>3, <3>5 DEF Marks
    <3>7. \A c : Heard(c, "dm.read", m)' = Heard(c, "dm.read", m)
      BY <1>4, <3>1 DEF Heard
    <3> QED
      BY <1>3, <1>4, <3>1, <3>2, <3>3, <3>4, <3>5, <3>6, <3>7 DEF Between
  <2> QED
    BY <2>1, <2>2
<1>6. ASSUME NEW i \in Ids, message'[i].reader # Nobody
      PROVE  \E m \in DOMAIN reqs' : reqs'[m].op = "read" /\ i \in reqs'[m].marked
  <2>1. CASE i \in r.marked
    BY <1>1, <1>2, <2>1
  <2>2. CASE i \notin r.marked
    <3>1. PICK m \in DOMAIN reqs : reqs[m].op = "read" /\ i \in reqs[m].marked
      BY <1>3, <1>6, <2>2 DEF MarksOK
    <3> QED
      BY <1>1, <1>2, <3>1
  <2> QED
    BY <2>1, <2>2
<1> QED
  BY <1>5, <1>6 DEF MarksOK

(* The receipt reaches the connections that have been there since the job. *)
LEMMA ReceiptKeepsMarks ==
  ASSUME BaseIInv, MarksOK, NEW n \in DOMAIN reqs, NEW r, NEW u, NEW e, Told(n, r, u, e),
         r.op = "read"
  PROVE  MarksOK'
<1> USE DEF BaseIInv
<1>1. /\ SendToUser(u, e) /\ SameBut(r, reqs[n], "done") /\ r \in Request /\ StageOK(reqs[n])
      /\ e.typ = "dm.read" /\ e.by = r.by /\ e.msg = r.msg /\ u = r.other /\ r.pc = "done"
      /\ UNCHANGED <<threads, message, reactions, closed, clients>>
  BY DEF Told, Taps, StagesOK, SameBut
<1>2. reqs'[n] = r /\ DOMAIN reqs' = DOMAIN reqs /\ \A m \in DOMAIN reqs : m # n => reqs'[m] = reqs[m]
  BY <1>1, Stepped DEF Told
<1>3. ASSUME NEW m \in DOMAIN reqs', reqs'[m].op = "read", reqs'[m].marked # {}
      PROVE  /\ reqs'[m].pc \in {"receipt", "done", "cut"}
             /\ Between(reqs[m].thread, reqs[m].by, reqs[m].other)'
             /\ \A i \in reqs'[m].marked :
                  /\ message'[i].thread = reqs'[m].thread /\ message'[i].reader = reqs'[m].by
                  /\ message'[i].sender = reqs'[m].other /\ i <= reqs'[m].msg
             /\ reqs'[m].pc = "done" => \A c \in reqs'[m].online \ closed' :
                  Owner[c] = reqs'[m].other => Heard(c, "dm.read", m)' # {}
  <2>1. PICK s : s = reqs'[m]
    OBVIOUS
  <2>2. /\ m \in DOMAIN reqs /\ s.op = reqs[m].op /\ s.by = reqs[m].by /\ s.thread = reqs[m].thread
        /\ s.other = reqs[m].other /\ s.msg = reqs[m].msg /\ s.online = reqs[m].online
        /\ s.marked = reqs[m].marked /\ (m # n => s.pc = reqs[m].pc) /\ (m = n => s.pc = "done")
    BY <1>1, <1>2, <2>1 DEF SameBut
  <2>3. /\ reqs[m].pc \in {"receipt", "done", "cut"} /\ Between(s.thread, s.by, s.other)
        /\ \A i \in s.marked : /\ message[i].thread = s.thread /\ message[i].reader = s.by
                               /\ message[i].sender = s.other /\ i <= s.msg
        /\ reqs[m].pc = "done" => \A c \in s.online \ closed :
             Owner[c] = s.other => Heard(c, "dm.read", m) # {}
    BY <1>3, <2>1, <2>2 DEF MarksOK
  <2>4. Between(s.thread, s.by, s.other)'
    BY <1>1, <2>3 DEF Between, Members
  <2>5. ASSUME NEW c \in s.online \ closed', s.pc = "done", Owner[c] = s.other
        PROVE  Heard(c, "dm.read", m)' # {}
    <3>1. c \in Conns /\ c \notin closed
      BY <1>1, <2>2, <2>5, ReqTyped
    <3>2. CASE m # n
      <4>1. Heard(c, "dm.read", m) # {}
        BY <2>2, <2>3, <2>5, <3>1, <3>2
      <4>2. Heard(c, "dm.read", m) \subseteq Heard(c, "dm.read", m)'
        BY <1>1, <2>1, <2>2, <3>1, HeardRemains
      <4> QED
        BY <4>1, <4>2
    <3>3. CASE m = n
      <4>1. c \in clients /\ Owner[c] = u
        <5>1. reqs[n].online \subseteq clients \cup closed
          BY <1>1 DEF StageOK
        <5> QED
          BY <1>1, <1>2, <2>1, <2>2, <2>5, <3>1, <3>3, <5>1
      <4>2. Len(outbox[c]) + 1 \in DOMAIN outbox'[c] /\ outbox'[c][Len(outbox[c]) + 1] = e
        BY <1>1, <3>1, <4>1, Given
      <4>3. Len(outbox[c]) + 1 \in Heard(c, "dm.read", m)'
        BY <1>1, <1>2, <3>3, <4>2 DEF Heard
      <4> QED
        BY <4>3
    <3> QED
      BY <3>2, <3>3
  <2>6. s.pc \in {"receipt", "done", "cut"}
    BY <2>2, <2>3
  <2> QED
    BY <1>1, <2>1, <2>3, <2>4, <2>5, <2>6 DEF Between
<1>4. ASSUME NEW i \in Ids, message'[i].reader # Nobody
      PROVE  \E m \in DOMAIN reqs' : reqs'[m].op = "read" /\ i \in reqs'[m].marked
  <2>1. PICK m \in DOMAIN reqs : reqs[m].op = "read" /\ i \in reqs[m].marked
    BY <1>1, <1>4 DEF MarksOK
  <2> QED
    BY <1>1, <1>2, <2>1 DEF SameBut
<1> QED
  BY <1>3, <1>4 DEF MarksOK

LEMMA MostReadAside ==
  ASSUME BaseIInv, MarksOK, OneOf
  PROVE  \/ ReadsAside
         \/ \E n \in DOMAIN reqs : \E r : Marks(n, r) \/ \E u, e : r.op = "read" /\ Told(n, r, u, e)
<1> USE DEF BaseIInv
<1>1. \A i \in Ids : ~Stored(i) => message[i].reader = Nobody
  BY DEF MessagesOK
<1>2. ASSUME NEW r, Arrival(r) PROVE ReadsAside
  <2>1. r \in Request /\ r.marked = {} /\ reqs' = Append(reqs, r) /\ UNCHANGED <<outbox, closed, message>>
    BY <1>2 DEF Arrival, Fresh, hubVars
  <2>2. /\ \A m \in DOMAIN reqs : m \in DOMAIN reqs' /\ reqs'[m] = reqs[m]
        /\ \A m \in DOMAIN reqs' :
             (m \in DOMAIN reqs /\ reqs'[m] = reqs[m]) \/ reqs'[m] = r
    BY <2>1, Appended
  <2> QED
    BY <1>1, <2>1, <2>2 DEF ReadsAside
<1>3. ASSUME NEW n \in DOMAIN reqs, NEW r, Update(n, r), UNCHANGED <<closed, message>>,
             UNCHANGED outbox \/ \E u, e : SendToUser(u, e),
             \/ reqs[n].op # "read" /\ r.op # "read"
             \/ SameBut(r, reqs[n], "cut")
             \/ reqs[n].op = "read" /\ r.op = "read" /\ r.marked = {} /\ reqs[n].marked = {}
      PROVE  ReadsAside
  <2>1. reqs'[n] = r /\ DOMAIN reqs' = DOMAIN reqs /\ \A m \in DOMAIN reqs : m # n => reqs'[m] = reqs[m]
    BY <1>3 DEF Update, Typed
  <2> QED
    BY <1>1, <1>3, <2>1 DEF ReadsAside, SameBut
<1>4. ASSUME NEW n \in DOMAIN reqs, OpenThread(n) PROVE ReadsAside
  <2>1. PICK s : Update(n, [reqs[n] EXCEPT !.thread = s.id,
                                           !.pc = IF reqs[n].op = "send" THEN "store" ELSE "done"])
    BY <1>4 DEF OpenThread
  <2>2. PICK r : r = [reqs[n] EXCEPT !.thread = s.id,
                                     !.pc = IF reqs[n].op = "send" THEN "store" ELSE "done"]
    OBVIOUS
  <2>3. /\ reqs[n] \in Request /\ StageOK(reqs[n]) /\ reqs[n].pc = "open"
        /\ UNCHANGED <<outbox, closed, message>>
    BY <1>4, ReqTyped DEF StagesOK, OpenThread, hubVars
  <2>4. reqs[n].op # "read" /\ r.op = reqs[n].op
    BY <2>2, <2>3 DEF StageOK, Request
  <2> QED
    BY <1>3, <2>1, <2>2, <2>3, <2>4
<1>5. ASSUME NEW n \in DOMAIN reqs, Store(n) PROVE ReadsAside
  <2>1. PICK i \in Ids :
          /\ ~Stored(i) /\ Update(n, [reqs[n] EXCEPT !.msg = i, !.pc = "push", !.online = clients])
          /\ message' = [message EXCEPT ![i] = [thread |-> reqs[n].thread, sender |-> reqs[n].by,
                                                reader |-> Nobody]]
    BY <1>5 DEF Store
  <2>2. PICK r : r = [reqs[n] EXCEPT !.msg = i, !.pc = "push", !.online = clients]
    OBVIOUS
  <2>3. reqs[n] \in Request /\ StageOK(reqs[n]) /\ reqs[n].pc = "store" /\ UNCHANGED <<outbox, closed>>
    BY <1>5, ReqTyped DEF StagesOK, Store, hubVars
  <2>4. reqs[n].op # "read" /\ r.op = reqs[n].op
    BY <2>2, <2>3 DEF StageOK, Request
  <2>5. reqs'[n] = r /\ DOMAIN reqs' = DOMAIN reqs /\ \A m \in DOMAIN reqs : m # n => reqs'[m] = reqs[m]
    BY <2>1, <2>2 DEF Update, Typed
  <2>6. message'[i].reader = Nobody /\ \A j \in Ids : j # i => message'[j] = message[j]
    BY <2>1 DEF Typed
  <2> QED
    BY <1>1, <2>1, <2>3, <2>4, <2>5, <2>6 DEF ReadsAside
<1>6. ASSUME NEW n \in DOMAIN reqs, NEW r, NEW u, NEW e, Told(n, r, u, e), r.op # "read"
      PROVE  ReadsAside
  <2>1. reqs[n].op # "read" /\ Update(n, r) /\ UNCHANGED <<closed, message>> /\ SendToUser(u, e)
    BY <1>6 DEF Told, SameBut
  <2> QED
    BY <1>3, <1>6, <2>1
<1>7. ASSUME NEW n \in DOMAIN reqs, Aggregate(n) PROVE ReadsAside
  <2>1. PICK r : r = [reqs[n] EXCEPT !.seen = reactions[reqs[n].msg], !.pc = "show"]
    OBVIOUS
  <2>2. Update(n, r) /\ reqs[n].pc = "aggregate" /\ UNCHANGED <<outbox, closed, message>>
    BY <1>7, <2>1 DEF Aggregate, hubVars
  <2>3. reqs[n] \in Request /\ StageOK(reqs[n])
    BY ReqTyped DEF StagesOK
  <2>4. reqs[n].op # "read" /\ r.op = reqs[n].op
    BY <2>1, <2>2, <2>3 DEF StageOK, Request
  <2> QED
    BY <1>3, <2>2, <2>4
<1>8. ASSUME NEW n \in DOMAIN reqs, HangUp(n) PROVE ReadsAside
  <2>1. PICK r : r = [reqs[n] EXCEPT !.pc = "cut"]
    OBVIOUS
  <2>2. SameBut(r, reqs[n], "cut") /\ Update(n, r)
    BY <1>8, <2>1, OnlyPc, ReqTyped DEF HangUp, Pcs
  <2>3. UNCHANGED <<outbox, closed, message>>
    BY <1>8 DEF HangUp, hubVars
  <2> QED
    BY <1>3, <2>2, <2>3
<1>9. ASSUME NEW n \in DOMAIN reqs, NEW r, Toggles(n, r) PROVE ReadsAside
  <2>1. reqs[n].op # "read" /\ r.op # "read" /\ Update(n, r) /\ UNCHANGED <<outbox, closed, message>>
    BY <1>9 DEF Toggles, Taps
  <2> QED
    BY <1>3, <2>1
<1>10. ASSUME NEW n \in DOMAIN reqs, NEW r, Refuses(n, r) PROVE ReadsAside
  <2>1. /\ SameBut(r, reqs[n], "refused") /\ Update(n, r) /\ reqs[n].pc \in {"mark", "toggle"}
        /\ UNCHANGED <<outbox, closed, message>>
    BY <1>10 DEF Refuses
  <2>2. reqs[n].op = "read" => reqs[n].marked = {}
    BY <2>1 DEF MarksOK
  <2>3. r.op = reqs[n].op /\ r.marked = reqs[n].marked
    BY <2>1 DEF SameBut
  <2> QED
    BY <1>3, <2>1, <2>2, <2>3
<1>11. CASE Moves /\ (UNCHANGED reqs \/ Cuts)
  <2>1. /\ DOMAIN reqs' = DOMAIN reqs
        /\ \A m \in DOMAIN reqs : reqs'[m] = reqs[m] \/ SameBut(reqs'[m], reqs[m], "cut")
    BY <1>11 DEF Cuts
  <2>2. closed \subseteq closed' /\ UNCHANGED <<outbox, message>>
    BY <1>11 DEF Moves
  <2> QED
    BY <1>1, <2>1, <2>2 DEF ReadsAside, SameBut
<1>12. ASSUME NEW n \in DOMAIN reqs, Tells(n)
       PROVE  ReadsAside \/ \E r, u, e : r.op = "read" /\ Told(n, r, u, e)
  BY <1>6, <1>12, TellsTold
<1> QED
  BY <1>2, <1>4, <1>5, <1>7, <1>8, <1>9, <1>10, <1>11, <1>12 DEF OneOf

LEMMA MarksInvariant == Spec => []MarksOK
<1>1. Init => MarksOK
  BY DEF Init, HubInit, MarksOK
<1>2. ASSUME BaseIInv, MarksOK, [Next]_vars PROVE MarksOK'
  <2>1. OneOf /\ Kept
    BY <1>2, NextIsOneOf, OneOfKeeps
  <2> QED
    BY <1>2, <2>1, MostReadAside, AsideKeepsMarks, MarksKeepMarks, ReceiptKeepsMarks
<1> QED
  BY <1>1, <1>2, BaseInvariant, PTL DEF Spec

(* A message is read only because its recipient asked, by an id not below  *)
(* its own; and unless that request was cut short, the connections that    *)
(* the sender has had since the job were told (mark_read_core).            *)
THEOREM MessagesAreReadForAReason == Spec => []ReadForAReason
<1>1. ASSUME BaseIInv, MarksOK PROVE ReadForAReason
  <2> SUFFICES ASSUME NEW i \in Known, message[i].reader # Nobody
               PROVE  \E n \in DOMAIN reqs :
                        /\ reqs[n].op = "read" /\ reqs[n].by = message[i].reader
                        /\ reqs[n].by # message[i].sender /\ reqs[n].thread = message[i].thread
                        /\ i \in reqs[n].marked /\ i <= reqs[n].msg
                        /\ reqs[n].pc = "done" => \A c \in reqs[n].online \cap clients :
                             Owner[c] = message[i].sender => Heard(c, "dm.read", n) # {}
    BY DEF ReadForAReason
  <2>1. PICK n \in DOMAIN reqs : reqs[n].op = "read" /\ i \in reqs[n].marked
    BY <1>1 DEF MarksOK, Known
  <2>2. /\ Between(reqs[n].thread, reqs[n].by, reqs[n].other)
        /\ message[i].thread = reqs[n].thread /\ message[i].reader = reqs[n].by
        /\ message[i].sender = reqs[n].other /\ i <= reqs[n].msg
        /\ reqs[n].pc = "done" => \A c \in reqs[n].online \ closed :
             Owner[c] = reqs[n].other => Heard(c, "dm.read", n) # {}
    BY <1>1, <2>1 DEF MarksOK
  <2>3. reqs[n].by # message[i].sender
    BY <2>2 DEF Between
  <2>4. clients \cap closed = {}
    BY <1>1 DEF BaseIInv, Typed
  <2> QED
    BY <2>1, <2>2, <2>3, <2>4
<1> QED
  BY <1>1, BaseInvariant, MarksInvariant, PTL

-----------------------------------------------------------------------------
(* The peer sees the reaction that is on file.                             *)

TapSeen(n) ==
  reqs[n].op \in Taps /\ reqs[n].pc = "show" /\ Alone(n) =>
    reqs[n].seen[reqs[n].by] = reactions[reqs[n].msg][reqs[n].by]

TapShown(n) ==
  (reqs[n].op \in Taps /\ reqs[n].pc = "done" /\ Alone(n) /\ \A m \in DOMAIN reqs : SameTap(n, m) => m <= n)
  => \A c \in reqs[n].online \ closed : Owner[c] = reqs[n].other =>
       \E k \in Heard(c, "dm.reaction", n) :
         /\ \A j \in Heard(c, "dm.reaction", n) : j <= k
         /\ outbox[c][k].seen[reqs[n].by] = reactions[reqs[n].msg][reqs[n].by]

LEMMA TapsInParts ==
  TapsOK <=> /\ \A n, m \in DOMAIN reqs : n < m /\ SameTap(n, m) /\ reqs[m].alone => Over(reqs[n])
             /\ \A n \in DOMAIN reqs : TapSeen(n) /\ TapShown(n)
  BY DEF TapsOK, TapSeen, TapShown

(* A tap under way keeps whatever tap came alone after it from beginning.  *)
LEMMA NoTapMeanwhile ==
  ASSUME TapsOK, NEW n \in DOMAIN reqs, NEW m \in DOMAIN reqs, n # m, SameTap(m, n), Alone(m),
         DOMAIN reqs \subseteq Nat, ~Over(reqs[n]), ~Over(reqs[m]) \/ n <= m
  PROVE  FALSE
<1>1. SameTap(m, m) /\ SameTap(n, m)
  BY DEF SameTap
<1>2. reqs[n].alone /\ reqs[m].alone
  BY <1>1 DEF Alone
<1>3. n < m \/ m < n
  OBVIOUS
<1> QED
  BY <1>1, <1>2, <1>3 DEF TapsOK

(* Steps that neither write a reaction nor show one.                       *)
TapsAside ==
  /\ closed \subseteq closed' /\ UNCHANGED reactions
  /\ UNCHANGED outbox \/ (\E u, e : SendToUser(u, e) /\ e.typ # "dm.reaction")
  /\ \A m \in DOMAIN reqs' : reqs'[m].op \in Taps =>
       /\ m \in DOMAIN reqs
       /\ reqs'[m] = reqs[m] \/ \E pc \in {"cut", "refused"} : SameBut(reqs'[m], reqs[m], pc)
  /\ \A m \in DOMAIN reqs : reqs[m].op \in Taps =>
       /\ m \in DOMAIN reqs'
       /\ reqs'[m] = reqs[m] \/ \E pc \in {"cut", "refused"} : SameBut(reqs'[m], reqs[m], pc)

LEMMA AsideKeepsTaps ==
  ASSUME BaseIInv, TapsOK, TapsAside
  PROVE  TapsOK'
<1> USE DEF BaseIInv
<1>1. \A n \in DOMAIN reqs' : reqs'[n].op \in Taps =>
        /\ n \in DOMAIN reqs /\ reqs[n].op \in Taps /\ reqs'[n].by = reqs[n].by
        /\ reqs'[n].msg = reqs[n].msg /\ reqs'[n].alone = reqs[n].alone
        /\ reqs'[n].pc \in {"show", "done"} => reqs'[n] = reqs[n]
        /\ Over(reqs[n]) => Over(reqs'[n])
  BY DEF TapsAside, SameBut, Over
<1>2. \A n \in DOMAIN reqs : reqs[n].op \in Taps =>
        /\ n \in DOMAIN reqs' /\ reqs'[n].op \in Taps /\ reqs'[n].by = reqs[n].by
        /\ reqs'[n].msg = reqs[n].msg /\ reqs'[n].alone = reqs[n].alone
  BY DEF TapsAside, SameBut
<1>3. \A n, m \in DOMAIN reqs' :
        n < m /\ SameTap(n, m)' /\ reqs'[m].alone => Over(reqs'[n])
  BY <1>1 DEF SameTap, TapsOK
<1>4. ASSUME NEW n \in DOMAIN reqs', Alone(n)', reqs'[n].op \in Taps PROVE Alone(n)
  BY <1>1, <1>2, <1>4 DEF Alone, SameTap
<1>5. ASSUME NEW n \in DOMAIN reqs' PROVE TapSeen(n)'
  <2> SUFFICES ASSUME reqs'[n].op \in Taps, reqs'[n].pc = "show", Alone(n)'
               PROVE  reqs'[n].seen[reqs'[n].by] = reactions'[reqs'[n].msg][reqs'[n].by]
    BY DEF TapSeen
  <2>1. n \in DOMAIN reqs /\ reqs'[n] = reqs[n] /\ Alone(n) /\ reactions' = reactions
    BY <1>1, <1>4 DEF TapsAside
  <2> QED
    BY <2>1 DEF TapsOK
<1>6. ASSUME NEW n \in DOMAIN reqs' PROVE TapShown(n)'
  <2> SUFFICES ASSUME reqs'[n].op \in Taps, reqs'[n].pc = "done", Alone(n)',
                      \A m \in DOMAIN reqs' : SameTap(n, m)' => m <= n,
                      NEW c \in reqs'[n].online \ closed', Owner[c] = reqs'[n].other
               PROVE  \E k \in Heard(c, "dm.reaction", n)' :
                        /\ \A j \in Heard(c, "dm.reaction", n)' : j <= k
                        /\ outbox'[c][k].seen[reqs'[n].by] = reactions'[reqs'[n].msg][reqs'[n].by]
    BY DEF TapShown
  <2>1. /\ n \in DOMAIN reqs /\ reqs'[n] = reqs[n] /\ Alone(n) /\ reactions' = reactions
        /\ closed \subseteq closed'
    BY <1>1, <1>4 DEF TapsAside
  <2>2. \A m \in DOMAIN reqs : SameTap(n, m) => m <= n
    BY <1>2, <2>1 DEF SameTap
  <2>3. TapShown(n)
    BY <2>1, TapsInParts
  <2>4. c \in reqs[n].online \ closed /\ Owner[c] = reqs[n].other /\ c \in Conns
    BY <2>1, ReqTyped
  <2>5. PICK k \in Heard(c, "dm.reaction", n) :
          /\ \A j \in Heard(c, "dm.reaction", n) : j <= k
          /\ outbox[c][k].seen[reqs[n].by] = reactions[reqs[n].msg][reqs[n].by]
    BY <2>1, <2>2, <2>3, <2>4 DEF TapShown
  <2>6. Heard(c, "dm.reaction", n)' = Heard(c, "dm.reaction", n)
    <3>1. CASE UNCHANGED outbox
      BY <2>1, <3>1 DEF Heard
    <3>2. CASE \E u, e : SendToUser(u, e) /\ e.typ # "dm.reaction"
      BY <2>1, <2>4, <3>2, HeardStays
    <3> QED
      BY <3>1, <3>2 DEF TapsAside
  <2>7. outbox'[c][k] = outbox[c][k]
    <3>1. CASE UNCHANGED outbox
      BY <3>1
    <3>2. CASE \E u, e : SendToUser(u, e)
      BY <2>4, <3>2, Given DEF Heard
    <3> QED
      BY <3>1, <3>2 DEF TapsAside
  <2> QED
    BY <2>1, <2>5, <2>6, <2>7
<1> QED
  BY <1>3, <1>5, <1>6 DEF TapsOK, TapSeen, TapShown

LEMMA ArrivalKeepsTaps ==
  ASSUME BaseIInv, TapsOK, NEW r, Arrival(r), r.op \in Taps
  PROVE  TapsOK'
<1> USE DEF BaseIInv
<1>1. /\ r \in Request /\ reqs' = Append(reqs, r) /\ r.pc = "toggle"
      /\ UNCHANGED <<reactions, closed, outbox>>
      /\ r.alone => \A n \in DOMAIN reqs :
           reqs[n].op \in Taps /\ reqs[n].by = r.by /\ reqs[n].msg = r.msg => Over(reqs[n])
  BY DEF Arrival, Fresh, hubVars
<1>2. PICK N : N = Len(reqs')
  OBVIOUS
<1>3. /\ \A m \in DOMAIN reqs : m \in DOMAIN reqs' /\ reqs'[m] = reqs[m] /\ m < N
      /\ \A m \in DOMAIN reqs' : \/ m \in DOMAIN reqs /\ reqs'[m] = reqs[m]
                                 \/ m = N /\ reqs'[m] = r
      /\ N \in DOMAIN reqs' /\ reqs'[N] = r
  BY <1>1, <1>2, Appended
<1>4. DOMAIN reqs \subseteq Nat /\ N \in Nat
  <2>1. Len(reqs) \in Nat /\ DOMAIN reqs = 1..Len(reqs)
    BY DEF Typed
  <2>2. N = Len(reqs) + 1
    BY <1>1, <1>2, Appended
  <2> QED
    BY <2>1, <2>2
<1>5. ASSUME NEW n \in DOMAIN reqs, Alone(n)' PROVE Alone(n)
  BY <1>3, <1>5 DEF Alone, SameTap
<1>6. ASSUME NEW n \in DOMAIN reqs', NEW m \in DOMAIN reqs', n < m, SameTap(n, m)', reqs'[m].alone
      PROVE  Over(reqs'[n])
  <2>1. n \in DOMAIN reqs /\ reqs'[n] = reqs[n]
    BY <1>3, <1>4, <1>6
  <2>2. CASE m = N
    BY <1>1, <1>3, <1>6, <2>1, <2>2 DEF SameTap
  <2>3. CASE m # N
    BY <1>3, <1>6, <2>1, <2>3 DEF SameTap, TapsOK
  <2> QED
    BY <2>2, <2>3
<1>7. ASSUME NEW n \in DOMAIN reqs' PROVE TapSeen(n)'
  <2> SUFFICES ASSUME reqs'[n].op \in Taps, reqs'[n].pc = "show", Alone(n)'
               PROVE  reqs'[n].seen[reqs'[n].by] = reactions'[reqs'[n].msg][reqs'[n].by]
    BY DEF TapSeen
  <2>1. n \in DOMAIN reqs /\ reqs'[n] = reqs[n]
    BY <1>1, <1>3
  <2>2. Alone(n)
    BY <1>5, <2>1
  <2> QED
    BY <1>1, <2>1, <2>2 DEF TapsOK
<1>8. ASSUME NEW n \in DOMAIN reqs' PROVE TapShown(n)'
  <2> SUFFICES ASSUME reqs'[n].op \in Taps, reqs'[n].pc = "done", Alone(n)',
                      \A m \in DOMAIN reqs' : SameTap(n, m)' => m <= n,
                      NEW c \in reqs'[n].online \ closed', Owner[c] = reqs'[n].other
               PROVE  \E k \in Heard(c, "dm.reaction", n)' :
                        /\ \A j \in Heard(c, "dm.reaction", n)' : j <= k
                        /\ outbox'[c][k].seen[reqs'[n].by] = reactions'[reqs'[n].msg][reqs'[n].by]
    BY DEF TapShown
  <2>1. n \in DOMAIN reqs /\ reqs'[n] = reqs[n]
    BY <1>1, <1>3
  <2>2. Alone(n) /\ \A m \in DOMAIN reqs : SameTap(n, m) => m <= n
    BY <1>3, <1>5, <2>1 DEF SameTap
  <2>3. TapShown(n)
    BY <2>1, TapsInParts
  <2>4. Heard(c, "dm.reaction", n)' = Heard(c, "dm.reaction", n)
    BY <1>1, <2>1 DEF Heard
  <2> QED
    BY <1>1, <2>1, <2>2, <2>3, <2>4 DEF TapShown
<1> QED
  BY <1>6, <1>7, <1>8 DEF TapsOK, TapSeen, TapShown

(* A tap n goes on, writing a reaction or reading them.                    *)
LEMMA TapGoesOn ==
  ASSUME BaseIInv, TapsOK, NEW n \in DOMAIN reqs, NEW r \in Request, Update(n, r),
         reqs[n].op \in Taps, ~Over(reqs[n]), ~Over(r), r.op = reqs[n].op,
         r.by = reqs[n].by, r.msg = reqs[n].msg, r.alone = reqs[n].alone, r.msg \in Ids,
         UNCHANGED <<closed, outbox>>,
         \A i \in Ids : i # r.msg => reactions'[i] = reactions[i],
         \A u \in Users : u # r.by => reactions'[r.msg][u] = reactions[r.msg][u],
         r.pc = "show" => r.seen[r.by] = reactions'[r.msg][r.by]
  PROVE  TapsOK'
<1> USE DEF BaseIInv
<1>1. reqs'[n] = r /\ DOMAIN reqs' = DOMAIN reqs /\ \A m \in DOMAIN reqs : m # n => reqs'[m] = reqs[m]
  BY Stepped
<1>2. DOMAIN reqs \subseteq Nat
  BY DEF Typed
<1>3. \A a, b \in DOMAIN reqs : SameTap(a, b)' <=> SameTap(a, b)
  BY <1>1 DEF SameTap
<1>4. \A m \in DOMAIN reqs : reqs'[m].alone = reqs[m].alone
  BY <1>1
<1>5. \A m \in DOMAIN reqs : Alone(m)' => Alone(m)
  BY <1>1, <1>3, <1>4 DEF Alone
<1>6. ASSUME NEW m \in DOMAIN reqs, m # n, reqs[m].op \in Taps, Alone(m),
             ~Over(reqs[m]) \/ \A a \in DOMAIN reqs : SameTap(m, a) => a <= m
      PROVE  reactions'[reqs[m].msg][reqs[m].by] = reactions[reqs[m].msg][reqs[m].by]
  <2>1. ~SameTap(m, n)
    BY <1>2, <1>6, NoTapMeanwhile
  <2>2. reqs[m].by # r.by \/ reqs[m].msg # r.msg
    BY <1>6, <2>1 DEF SameTap
  <2>3. reqs[m].by \in Users /\ reqs[m].msg \in Ids
    BY <1>6, ReqTyped DEF StagesOK, StageOK
  <2> QED
    BY <2>2, <2>3
<1>7. ASSUME NEW a \in DOMAIN reqs', NEW b \in DOMAIN reqs', a < b, SameTap(a, b)', reqs'[b].alone
      PROVE  Over(reqs'[a])
  BY <1>1, <1>3, <1>4, <1>7 DEF TapsOK
<1>8. ASSUME NEW m \in DOMAIN reqs' PROVE TapSeen(m)'
  <2> SUFFICES ASSUME reqs'[m].op \in Taps, reqs'[m].pc = "show", Alone(m)'
               PROVE  reqs'[m].seen[reqs'[m].by] = reactions'[reqs'[m].msg][reqs'[m].by]
    BY DEF TapSeen
  <2>1. CASE m = n
    BY <1>1, <2>1
  <2>2. CASE m # n
    <3>1. m \in DOMAIN reqs /\ reqs'[m] = reqs[m] /\ Alone(m) /\ ~Over(reqs[m])
      BY <1>1, <1>5, <2>2 DEF Over
    <3> QED
      BY <1>6, <2>2, <3>1 DEF TapsOK
  <2> QED
    BY <2>1, <2>2
<1>9. ASSUME NEW m \in DOMAIN reqs' PROVE TapShown(m)'
  <2> SUFFICES ASSUME reqs'[m].op \in Taps, reqs'[m].pc = "done", Alone(m)',
                      \A a \in DOMAIN reqs' : SameTap(m, a)' => a <= m,
                      NEW c \in reqs'[m].online \ closed', Owner[c] = reqs'[m].other
               PROVE  \E k \in Heard(c, "dm.reaction", m)' :
                        /\ \A j \in Heard(c, "dm.reaction", m)' : j <= k
                        /\ outbox'[c][k].seen[reqs'[m].by] = reactions'[reqs'[m].msg][reqs'[m].by]
    BY DEF TapShown
  <2>1. m # n
    BY <1>1 DEF Over
  <2>2. m \in DOMAIN reqs /\ reqs'[m] = reqs[m] /\ Alone(m)
    BY <1>1, <1>5, <2>1
  <2>3. \A a \in DOMAIN reqs : SameTap(m, a) => a <= m
    BY <1>1, <1>3, <2>2
  <2>4. reactions'[reqs[m].msg][reqs[m].by] = reactions[reqs[m].msg][reqs[m].by]
    BY <1>6, <2>1, <2>2, <2>3
  <2>5. TapShown(m) /\ Heard(c, "dm.reaction", m)' = Heard(c, "dm.reaction", m)
    BY <2>2, TapsInParts DEF Heard
  <2> QED
    BY <2>2, <2>3, <2>4, <2>5 DEF TapShown
<1> QED
  BY <1>7, <1>8, <1>9 DEF TapsOK, TapSeen, TapShown

(* The peer is given what is on file.                                      *)
LEMMA ShowKeepsTaps ==
  ASSUME BaseIInv, TapsOK, NEW n \in DOMAIN reqs, NEW r, NEW u, NEW e, Told(n, r, u, e),
         r.op \in Taps
  PROVE  TapsOK'
<1> USE DEF BaseIInv
<1>1. /\ SendToUser(u, e) /\ SameBut(r, reqs[n], "done") /\ r \in Request /\ StageOK(reqs[n])
      /\ e.typ = "dm.reaction" /\ e.by = r.by /\ e.msg = r.msg /\ e.seen = r.seen /\ u = r.other
      /\ reqs[n].pc = "show" /\ UNCHANGED <<threads, message, reactions, closed, clients>>
  BY DEF Told, Taps, StagesOK, SameBut
<1>2. reqs'[n] = r /\ DOMAIN reqs' = DOMAIN reqs /\ \A m \in DOMAIN reqs : m # n => reqs'[m] = reqs[m]
  BY <1>1, Stepped DEF Told
<1>3. /\ r.pc = "done" /\ r.op = reqs[n].op /\ r.by = reqs[n].by /\ r.msg = reqs[n].msg
      /\ r.alone = reqs[n].alone /\ r.seen = reqs[n].seen /\ r.online = reqs[n].online
  BY <1>1 DEF SameBut
<1>4. DOMAIN reqs \subseteq Nat
  BY DEF Typed
<1>5. \A a, b \in DOMAIN reqs : SameTap(a, b)' <=> SameTap(a, b)
  BY <1>2, <1>3 DEF SameTap
<1>6. \A m \in DOMAIN reqs : reqs'[m].alone = reqs[m].alone
  BY <1>2, <1>3
<1>7. \A m \in DOMAIN reqs : Alone(m)' => Alone(m)
  BY <1>2, <1>5, <1>6 DEF Alone
<1>8. ASSUME NEW a \in DOMAIN reqs', NEW b \in DOMAIN reqs', a < b, SameTap(a, b)', reqs'[b].alone
      PROVE  Over(reqs'[a])
  <2>1. Over(reqs[a])
    BY <1>2, <1>5, <1>6, <1>8 DEF TapsOK
  <2> QED
    BY <1>2, <1>3, <2>1 DEF Over
<1>9. ASSUME NEW m \in DOMAIN reqs' PROVE TapSeen(m)'
  <2> SUFFICES ASSUME reqs'[m].op \in Taps, reqs'[m].pc = "show", Alone(m)'
               PROVE  reqs'[m].seen[reqs'[m].by] = reactions'[reqs'[m].msg][reqs'[m].by]
    BY DEF TapSeen
  <2>1. m \in DOMAIN reqs /\ reqs'[m] = reqs[m] /\ Alone(m)
    BY <1>2, <1>3, <1>7
  <2> QED
    BY <1>1, <2>1 DEF TapsOK
<1>10. ASSUME NEW m \in DOMAIN reqs' PROVE TapShown(m)'
  <2> SUFFICES ASSUME reqs'[m].op \in Taps, reqs'[m].pc = "done", Alone(m)',
                      \A a \in DOMAIN reqs' : SameTap(m, a)' => a <= m,
                      NEW c \in reqs'[m].online \ closed', Owner[c] = reqs'[m].other
               PROVE  \E k \in Heard(c, "dm.reaction", m)' :
                        /\ \A j \in Heard(c, "dm.reaction", m)' : j <= k
                        /\ outbox'[c][k].seen[reqs'[m].by] = reactions'[reqs'[m].msg][reqs'[m].by]
    BY DEF TapShown
  <2>1. m \in DOMAIN reqs /\ Alone(m) /\ \A a \in DOMAIN reqs : SameTap(m, a) => a <= m
    BY <1>2, <1>5, <1>7
  <2>2. /\ reqs[m].by = reqs'[m].by /\ reqs[m].msg = reqs'[m].msg /\ reqs[m].op \in Taps
        /\ reqs[m].online = reqs'[m].online
    BY <1>2, <1>3, <2>1
  <2>3. c \in Conns /\ c \notin closed
    BY <1>1, <2>1, <2>2, ReqTyped
  <2>4. CASE m = n
    <3>1. reqs[n].seen[reqs[n].by] = reactions[reqs[n].msg][reqs[n].by]
      BY <1>1, <2>1, <2>2, <2>4 DEF TapsOK
    <3>2. c \in clients /\ Owner[c] = u
      <4>1. reqs[n].online \subseteq clients \cup closed
        BY <1>1 DEF StageOK
      <4> QED
        BY <1>1, <1>2, <1>3, <2>3, <2>4, <4>1
    <3>3. PICK k : k = Len(outbox[c]) + 1
      OBVIOUS
    <3>4. k \in DOMAIN outbox'[c] /\ outbox'[c][k] = e
      BY <1>1, <2>3, <3>2, <3>3, Given
    <3>5. k \in Heard(c, "dm.reaction", m)'
      BY <1>1, <1>2, <2>4, <3>4 DEF Heard
    <3>6. \A j \in DOMAIN outbox'[c] : j <= k
      <4>1. \A j \in DOMAIN outbox[c] : j \in Nat /\ j < k
        BY <1>1, <2>3, <3>3, Given
      <4>2. k \in Nat
        BY <2>3, <3>3 DEF Typed
      <4> QED
        BY <1>1, <2>3, <3>3, <4>1, <4>2, Given
    <3>7. \A j \in Heard(c, "dm.reaction", m)' : j <= k
      BY <3>6 DEF Heard
    <3>8. outbox'[c][k].seen[reqs'[m].by] = reactions'[reqs'[m].msg][reqs'[m].by]
      BY <1>1, <1>2, <1>3, <2>4, <3>1, <3>4
    <3> QED
      BY <3>5, <3>7, <3>8
  <2>5. CASE m # n
    <3>1. reqs'[m] = reqs[m]
      BY <1>2, <2>1, <2>5
    <3>2. ~SameTap(m, n)
      <4>1. ~Over(reqs[n])
        BY <1>1 DEF Over
      <4> QED
        BY <1>4, <2>1, <2>5, <4>1, NoTapMeanwhile
    <3>3. e.by # reqs[m].by \/ e.msg # reqs[m].msg
      BY <1>1, <1>3, <2>2, <3>2 DEF SameTap
    <3>4. Heard(c, "dm.reaction", m)' = Heard(c, "dm.reaction", m)
      BY <1>1, <2>2, <2>3, <3>3, HeardStays
    <3>5. TapShown(m)
      BY <2>1, TapsInParts
    <3>6. PICK k \in Heard(c, "dm.reaction", m) :
            /\ \A j \in Heard(c, "dm.reaction", m) : j <= k
            /\ outbox[c][k].seen[reqs[m].by] = reactions[reqs[m].msg][reqs[m].by]
      BY <2>1, <2>2, <2>3, <3>1, <3>5 DEF TapShown
    <3>7. outbox'[c][k] = outbox[c][k]
      BY <1>1, <2>3, Given DEF Heard
    <3> QED
      BY <1>1, <2>2, <3>4, <3>6, <3>7
  <2> QED
    BY <2>4, <2>5
<1> QED
  BY <1>8, <1>9, <1>10 DEF TapsOK, TapSeen, TapShown

LEMMA MostTapAside ==
  ASSUME BaseIInv, OneOf
  PROVE  \/ TapsAside
         \/ \E r : Arrival(r) /\ r.op \in Taps
         \/ \E n \in DOMAIN reqs : \/ Aggregate(n)
                                   \/ \E r : Toggles(n, r)
                                   \/ \E r, u, e : r.op \in Taps /\ Told(n, r, u, e)
<1> USE DEF BaseIInv
<1>1. ASSUME NEW r, Arrival(r), r.op \notin Taps PROVE TapsAside
  <2>1. r \in Request /\ reqs' = Append(reqs, r) /\ UNCHANGED <<outbox, closed, reactions>>
    BY <1>1 DEF Arrival, Fresh, hubVars
  <2>2. /\ \A m \in DOMAIN reqs : m \in DOMAIN reqs' /\ reqs'[m] = reqs[m]
        /\ \A m \in DOMAIN reqs' :
             (m \in DOMAIN reqs /\ reqs'[m] = reqs[m]) \/ reqs'[m] = r
    BY <2>1, Appended
  <2> QED
    BY <1>1, <2>1, <2>2 DEF TapsAside
<1>2. ASSUME NEW n \in DOMAIN reqs, NEW r, Update(n, r), UNCHANGED <<closed, reactions>>,
             UNCHANGED outbox \/ (\E u, e : SendToUser(u, e) /\ e.typ # "dm.reaction"),
             \/ reqs[n].op \notin Taps /\ r.op \notin Taps
             \/ \E pc \in {"cut", "refused"} : SameBut(r, reqs[n], pc)
      PROVE  TapsAside
  <2>1. reqs'[n] = r /\ DOMAIN reqs' = DOMAIN reqs /\ \A m \in DOMAIN reqs : m # n => reqs'[m] = reqs[m]
    BY <1>2 DEF Update, Typed
  <2> QED
    BY <1>2, <2>1 DEF TapsAside
<1>3. ASSUME NEW n \in DOMAIN reqs, OpenThread(n) PROVE TapsAside
  <2>1. PICK s : Update(n, [reqs[n] EXCEPT !.thread = s.id,
                                           !.pc = IF reqs[n].op = "send" THEN "store" ELSE "done"])
    BY <1>3 DEF OpenThread
  <2>2. PICK r : r = [reqs[n] EXCEPT !.thread = s.id,
                                     !.pc = IF reqs[n].op = "send" THEN "store" ELSE "done"]
    OBVIOUS
  <2>3. /\ reqs[n] \in Request /\ StageOK(reqs[n]) /\ reqs[n].pc = "open"
        /\ UNCHANGED <<outbox, closed, reactions>>
    BY <1>3, ReqTyped DEF StagesOK, OpenThread, hubVars
  <2>4. reqs[n].op \notin Taps /\ r.op = reqs[n].op
    BY <2>2, <2>3 DEF StageOK, Request
  <2> QED
    BY <1>2, <2>1, <2>2, <2>3, <2>4
<1>4. ASSUME NEW n \in DOMAIN reqs, Store(n) PROVE TapsAside
  <2>1. PICK i : Update(n, [reqs[n] EXCEPT !.msg = i, !.pc = "push", !.online = clients])
    BY <1>4 DEF Store
  <2>2. PICK r : r = [reqs[n] EXCEPT !.msg = i, !.pc = "push", !.online = clients]
    OBVIOUS
  <2>3. /\ reqs[n] \in Request /\ StageOK(reqs[n]) /\ reqs[n].pc = "store"
        /\ UNCHANGED <<outbox, closed, reactions>>
    BY <1>4, ReqTyped DEF StagesOK, Store, hubVars
  <2>4. reqs[n].op \notin Taps /\ r.op = reqs[n].op
    BY <2>2, <2>3 DEF StageOK, Request
  <2> QED
    BY <1>2, <2>1, <2>2, <2>3, <2>4
<1>5. ASSUME NEW n \in DOMAIN reqs, NEW r, NEW u, NEW e, Told(n, r, u, e), r.op \notin Taps
      PROVE  TapsAside
  <2>1. /\ reqs[n].op \notin Taps /\ Update(n, r) /\ UNCHANGED <<closed, reactions>>
        /\ SendToUser(u, e) /\ e.typ # "dm.reaction"
    BY <1>5 DEF Told, SameBut
  <2> QED
    BY <1>2, <1>5, <2>1
<1>6. ASSUME NEW n \in DOMAIN reqs, HangUp(n) PROVE TapsAside
  <2>1. PICK r : r = [reqs[n] EXCEPT !.pc = "cut"]
    OBVIOUS
  <2>2. SameBut(r, reqs[n], "cut") /\ Update(n, r)
    BY <1>6, <2>1, OnlyPc, ReqTyped DEF HangUp, Pcs
  <2>3. UNCHANGED <<outbox, closed, reactions>>
    BY <1>6 DEF HangUp, hubVars
  <2> QED
    BY <1>2, <2>2, <2>3
<1>7. ASSUME NEW n \in DOMAIN reqs, NEW r, Marks(n, r) PROVE TapsAside
  <2>1. /\ reqs[n].op \notin Taps /\ r.op \notin Taps /\ Update(n, r)
        /\ UNCHANGED <<outbox, closed, reactions>>
    BY <1>7 DEF Marks, Taps
  <2> QED
    BY <1>2, <2>1
<1>8. ASSUME NEW n \in DOMAIN reqs, NEW r, Refuses(n, r) PROVE TapsAside
  BY <1>2, <1>8 DEF Refuses
<1>9. CASE Moves /\ (UNCHANGED reqs \/ Cuts)
  <2>1. /\ DOMAIN reqs' = DOMAIN reqs
        /\ \A m \in DOMAIN reqs : reqs'[m] = reqs[m] \/ SameBut(reqs'[m], reqs[m], "cut")
    BY <1>9 DEF Cuts
  <2>2. closed \subseteq closed' /\ UNCHANGED <<outbox, reactions>>
    BY <1>9 DEF Moves
  <2> QED
    BY <2>1, <2>2 DEF TapsAside
<1>10. ASSUME NEW n \in DOMAIN reqs, Tells(n)
       PROVE  TapsAside \/ \E r, u, e : r.op \in Taps /\ Told(n, r, u, e)
  BY <1>5, <1>10, TellsTold
<1> QED
  BY <1>1, <1>3, <1>4, <1>6, <1>7, <1>8, <1>9, <1>10 DEF OneOf

LEMMA TapsInvariant == Spec => []TapsOK
<1>1. Init => TapsOK
  BY DEF Init, HubInit, TapsOK
<1>2. ASSUME BaseIInv, TapsOK, [Next]_vars PROVE TapsOK'
  <2>1. OneOf
    BY <1>2, NextIsOneOf
  <2>2. ASSUME NEW n \in DOMAIN reqs, NEW r, Toggles(n, r) PROVE TapsOK'
    <3>1. /\ r \in Request /\ Update(n, r) /\ reqs[n].op \in Taps /\ r.op = reqs[n].op
          /\ reqs[n].pc = "toggle" /\ r.pc = "aggregate"
          /\ r.by = reqs[n].by /\ r.msg = reqs[n].msg /\ r.alone = reqs[n].alone /\ r.msg \in Ids
          /\ UNCHANGED <<closed, outbox>>
          /\ \A i \in Ids : i # r.msg => reactions'[i] = reactions[i]
          /\ \A u \in Users : u # r.by => reactions'[r.msg][u] = reactions[r.msg][u]
      BY <2>2 DEF Toggles
    <3>2. ~Over(reqs[n]) /\ ~Over(r) /\ r.pc # "show"
      BY <3>1 DEF Over
    <3> QED
      BY <1>2, <3>1, <3>2, TapGoesOn
  <2>3. ASSUME NEW n \in DOMAIN reqs, Aggregate(n) PROVE TapsOK'
    <3>1. PICK r : r = [reqs[n] EXCEPT !.seen = reactions[reqs[n].msg], !.pc = "show"]
      OBVIOUS
    <3>2. reqs[n] \in Request /\ StageOK(reqs[n]) /\ reqs[n].pc = "aggregate"
      BY <1>2, <2>3, ReqTyped DEF BaseIInv, StagesOK, Aggregate
    <3>3. reqs[n].op \in Taps /\ reqs[n].msg \in Ids
      BY <3>2 DEF StageOK, Request, Taps
    <3>4. reactions[reqs[n].msg] \in Aggregates
      BY <1>2, <3>3 DEF BaseIInv, Typed
    <3>5. /\ r \in Request /\ r.op = reqs[n].op /\ r.by = reqs[n].by /\ r.msg = reqs[n].msg
          /\ r.alone = reqs[n].alone /\ r.pc = "show" /\ r.seen = reactions[reqs[n].msg]
      BY <3>1, <3>2, <3>4 DEF Request
    <3>6. Update(n, r) /\ UNCHANGED <<closed, outbox, reactions>>
      BY <2>3, <3>1 DEF Aggregate, hubVars
    <3>7. ~Over(reqs[n]) /\ ~Over(r)
      BY <3>2, <3>5 DEF Over
    <3>8. r.seen[r.by] = reactions'[r.msg][r.by]
      BY <3>5, <3>6
    <3> QED
      BY <1>2, <3>3, <3>5, <3>6, <3>7, <3>8, TapGoesOn
  <2> QED
    BY <1>2, <2>1, <2>2, <2>3, MostTapAside, AsideKeepsTaps, ArrivalKeepsTaps, ShowKeepsTaps
<1> QED
  BY <1>1, <1>2, BaseInvariant, PTL DEF Spec

(* A set of numbers up to a bound has a last one, and Max is it.           *)
LEMMA LastOf ==
  ASSUME NEW L \in Nat, NEW S \in SUBSET (1..L), S # {}
  PROVE  \E m \in S : \A k \in S : k <= m
<1>1. PICK R : R = OpToRel(<, Nat)
  OBVIOUS
<1>2. IsWellFoundedOn(R, Nat)
  BY <1>1, NatLessThanWellFounded
<1>3. \A i, j \in Nat : i < j => <<i, j>> \in R
  BY <1>1 DEF OpToRel
<1>4. PICK T : T = {j \in 0..L : L - j \in S}
  OBVIOUS
<1>5. PICK s \in S : TRUE
  OBVIOUS
<1>6. L - s \in T
  BY <1>4, <1>5
<1>7. T \subseteq Nat /\ T # {}
  BY <1>4, <1>6
<1>8. PICK x \in T : \A y \in T : ~ (<<y, x>> \in R)
  BY <1>2, <1>7, WFMin
<1>9. L - x \in S
  BY <1>4, <1>8
<1>10. ASSUME NEW k \in S PROVE k <= L - x
  <2>1. L - k \in T /\ L - k \in Nat /\ x \in Nat
    BY <1>4, <1>7, <1>8
  <2>2. ~(L - k < x)
    BY <1>3, <1>8, <2>1
  <2> QED
    BY <2>1, <2>2
<1> QED
  BY <1>9, <1>10

LEMMA MaxIsLast ==
  ASSUME NEW S \in SUBSET Nat, NEW m \in S, \A k \in S : k <= m
  PROVE  Max(S) = m
<1>1. \A y \in S : m >= y
  OBVIOUS
<1>2. \A x \in S : (\A y \in S : x >= y) => x = m
  OBVIOUS
<1>3. Max(S) = CHOOSE x \in S : \A y \in S : x >= y
  BY DEF Max
<1> QED
  BY <1>1, <1>2, <1>3

(* Once a user's taps on a message have all been answered, and none was    *)
(* made while another was under way, the last dm.reaction that each        *)
(* connection of the peer was given shows the reaction on file: the        *)
(* aggregate is read after the job that writes it, and pushed after that.  *)
THEOREM PeersSeeReactions == Spec => []PeerSeesReaction
<1>1. ASSUME BaseIInv, TapsOK PROVE PeerSeesReaction
  <2> USE <1>1 DEF BaseIInv
  <2> SUFFICES ASSUME NEW u \in Users, NEW i \in Known, NEW taps,
                      taps = {n \in DOMAIN reqs : /\ reqs[n].op \in {"react", "clear"}
                                                  /\ reqs[n].by = u /\ reqs[n].msg = i},
                      taps # {}, \A n \in taps : reqs[n].pc = "done" /\ reqs[n].alone,
                      NEW last, last = Max(taps),
                      NEW c \in reqs[last].online \cap clients, Owner[c] = reqs[last].other
               PROVE  outbox[c][Max(Heard(c, "dm.reaction", last))].seen[u] = reactions[i][u]
    BY DEF PeerSeesReaction
  <2>1. Len(reqs) \in Nat /\ DOMAIN reqs = 1..Len(reqs) /\ taps \subseteq DOMAIN reqs
    BY DEF Typed
  <2>2. PICK n \in taps : \A m \in taps : m <= n
    BY <2>1, LastOf
  <2>3. last = n
    <3>1. taps \in SUBSET Nat /\ n \in taps /\ \A m \in taps : m <= n
      BY <2>1, <2>2
    <3>2. Max(taps) = n
      BY <3>1, MaxIsLast
    <3> QED
      BY <3>2
  <2>4. \A m \in DOMAIN reqs : SameTap(n, m) => m \in taps
    <3>1. reqs[n].by = u /\ reqs[n].msg = i
      BY <2>2
    <3> QED
      BY <3>1 DEF SameTap, Taps
  <2>5. Alone(n) /\ \A m \in DOMAIN reqs : SameTap(n, m) => m <= n
    BY <2>2, <2>4 DEF Alone
  <2>6. n \in DOMAIN reqs /\ reqs[n].op \in Taps /\ reqs[n].pc = "done" /\ reqs[n].by = u /\ reqs[n].msg = i
    BY <2>2 DEF Taps
  <2>7. c \in reqs[n].online \ closed /\ Owner[c] = reqs[n].other /\ c \in Conns
    BY <2>3 DEF Typed
  <2>8. PICK k \in Heard(c, "dm.reaction", n) :
          /\ \A j \in Heard(c, "dm.reaction", n) : j <= k
          /\ outbox[c][k].seen[reqs[n].by] = reactions[reqs[n].msg][reqs[n].by]
    BY <2>5, <2>6, <2>7 DEF TapsOK
  <2>9. Heard(c, "dm.reaction", n) \subseteq Nat
    <3>1. outbox[c] \in Seq(Events)
      BY <2>7 DEF Typed
    <3>2. DOMAIN outbox[c] \subseteq Nat
      BY <3>1
    <3> QED
      BY <3>2 DEF Heard
  <2>10. Max(Heard(c, "dm.reaction", n)) = k
    BY <2>8, <2>9, MaxIsLast
  <2> QED
    BY <2>3, <2>6, <2>8, <2>10
<1> QED
  BY <1>1, BaseInvariant, TapsInvariant, PTL

(* What was written stays: no thread is taken back, no message changes     *)
(* hands, and no read mark is lifted or passes to another reader, whatever *)
(* read requests repeat or race (mark_read_core: read_at IS NULL).         *)
RecordsStay ==
  [][/\ threads \subseteq threads'
     /\ \A i \in Ids : Stored(i) =>
          /\ message'[i].thread = message[i].thread /\ message'[i].sender = message[i].sender
          /\ message[i].reader # Nobody => message'[i].reader = message[i].reader]_vars

(* Threads, messages and read marks are only ever added.                   *)
THEOREM RecordsAreKept == Spec => RecordsStay
<1>. DEFINE Stay ==
       /\ threads \subseteq threads'
       /\ \A i \in Ids : Stored(i) =>
            /\ message'[i].thread = message[i].thread /\ message'[i].sender = message[i].sender
            /\ message[i].reader # Nobody => message'[i].reader = message[i].reader
<1>1. ASSUME BaseIInv, OneOf PROVE Stay
  <2>1. ASSUME UNCHANGED <<threads, message>> PROVE Stay
    BY <2>1
  <2>2. ASSUME NEW n \in DOMAIN reqs, OpenThread(n) PROVE Stay
    BY <2>2 DEF OpenThread
  <2>3. ASSUME NEW n \in DOMAIN reqs, Store(n) PROVE Stay
    <3>1. PICK i \in Ids : ~Stored(i) /\ \E row : message' = [message EXCEPT ![i] = row]
      BY <2>3 DEF Store
    <3>2. \A j \in Ids : j # i => message'[j] = message[j]
      BY <1>1, <3>1 DEF BaseIInv, Typed
    <3>. QED  BY <2>3, <3>1, <3>2 DEF Store
  <2>4. ASSUME NEW n \in DOMAIN reqs, NEW r, Marks(n, r) PROVE Stay
    <3>1. ASSUME NEW i \in Ids, Stored(i)
          PROVE  /\ message'[i].thread = message[i].thread /\ message'[i].sender = message[i].sender
                 /\ message[i].reader # Nobody => message'[i].reader = message[i].reader
      <4>1. message[i] \in Rows
        BY <1>1 DEF BaseIInv, Typed
      <4>2. i \in r.marked => message[i].reader = Nobody
        BY <2>4 DEF Marks
      <4>3. message'[i] = IF i \in r.marked THEN [message[i] EXCEPT !.reader = r.by] ELSE message[i]
        BY <2>4 DEF Marks
      <4>. QED  BY <4>1, <4>2, <4>3 DEF Rows
    <3>. QED  BY <2>4, <3>1 DEF Marks
  <2>5. ASSUME NEW n \in DOMAIN reqs,
               Tells(n) \/ Aggregate(n) \/ HangUp(n) \/ \E r : Toggles(n, r) \/ Refuses(n, r)
        PROVE  UNCHANGED <<threads, message>>
    BY <2>5 DEF Tells, Tell, Push, Acknowledge, AnswerError, Receipt, Show, Aggregate, HangUp,
                Toggles, Refuses
  <2>6. ASSUME Moves \/ \E r : Arrival(r) PROVE UNCHANGED <<threads, message>>
    BY <2>6 DEF Moves, Arrival
  <2>. QED  BY <1>1, <2>1, <2>2, <2>3, <2>4, <2>5, <2>6 DEF OneOf
<1>2. BaseIInv /\ Next => Stay
  BY <1>1, NextIsOneOf
<1>. QED  BY <1>2, BaseInvariant, PTL DEF Spec, RecordsStay
===============================================================================
