--------------------------------- MODULE Hub ---------------------------------
(***************************************************************************)
(* The in-memory fan-out registry of src/src/ws/hub.rs: which sockets a    *)
(* user has and which users are in a stream's room. Every operator is one  *)
(* acquisition of one of its two locks; unregister takes them in turn and  *)
(* is therefore two operators, Unregister and SweepRooms.                  *)
(***************************************************************************)
EXTENDS Naturals, Sequences

CONSTANTS
  Users,
  Conns,   (* connection ids                                               *)
  Owner,   (* [Conns -> Users]                                             *)
  Rooms    (* streams                                                      *)

ASSUME HubAssumption == Owner \in [Conns -> Users]

VARIABLES
  clients, (* registered connections                                       *)
  rooms,   (* [Rooms -> SUBSET Users], {} for a room that has no entry     *)
  outbox   (* what each connection's outbound queue has been given         *)

hubVars == <<clients, rooms, outbox>>

Online(u) == \E c \in clients : Owner[c] = u

HubInit ==
  /\ clients = {}
  /\ rooms = [s \in Rooms |-> {}]
  /\ outbox = [c \in Conns |-> << >>]

Register(c) == clients' = clients \cup {c} /\ UNCHANGED <<rooms, outbox>>

(* First half of unregister; the second is due when Gone(c).               *)
Unregister(c) == clients' = clients \ {c} /\ UNCHANGED <<rooms, outbox>>
Gone(c) == \A d \in clients \ {c} : Owner[d] # Owner[c]

SweepRooms(u) ==
  rooms' = [s \in Rooms |-> rooms[s] \ {u}] /\ UNCHANGED <<clients, outbox>>

(* A plausible slip: the room's entry is replaced, not added to.           *)
JoinRoomReplacing(s, u) ==
  rooms' = [rooms EXCEPT ![s] = {u}] /\ UNCHANGED <<clients, outbox>>

JoinRoom(s, u) ==
  rooms' = [rooms EXCEPT ![s] = @ \cup {u}] /\ UNCHANGED <<clients, outbox>>

LeaveRoom(s, u) ==
  rooms' = [rooms EXCEPT ![s] = @ \ {u}] /\ UNCHANGED <<clients, outbox>>

CloseRoom(s) == rooms' = [rooms EXCEPT ![s] = {}] /\ UNCHANGED <<clients, outbox>>

(* A message goes to every connection that the user has at that moment.    *)
SendToUser(u, m) ==
  /\ outbox' = [c \in Conns |-> IF c \in clients /\ Owner[c] = u
                                THEN Append(outbox[c], m) ELSE outbox[c]]
  /\ UNCHANGED <<clients, rooms>>
=============================================================================
