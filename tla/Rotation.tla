------------------------------ MODULE Rotation -------------------------------
(***************************************************************************)
(* What token rotation promises of a session, whatever the tables and the  *)
(* handlers are. The right to a session's next token is held by one        *)
(* request at a time: the sign-in that opened it, then each refresh in its *)
(* turn. A request holds it once, a session that has lost it is over.      *)
(***************************************************************************)
CONSTANTS Requests, None

VARIABLES
  right,  (* [Requests -> Requests \cup {None}]: the session that a request *)
          (* holds the right of                                             *)
  used    (* requests that have had their turn                              *)

RotationInit == right = [r \in Requests |-> None] /\ used = {}

Turn(r) == r \notin used /\ used' = used \cup {r}

(* A sign-in opens a session, named by itself.                             *)
Open(r) == Turn(r) /\ right' = [right EXCEPT ![r] = r]

(* The right passes from q to r, and is lost if r is gone by then.         *)
PassOn(q, r) ==
  /\ Turn(r) /\ right[q] # None
  /\ \E to \in {right[q], None} : right' = [right EXCEPT ![q] = None, ![r] = to]

(* Sessions end.                                                           *)
End(over) ==
  /\ right' = [r \in Requests |-> IF r \in over THEN None ELSE right[r]]
  /\ UNCHANGED used

RotationNext ==
  \/ \E r \in Requests : Open(r)
  \/ \E q, r \in Requests : PassOn(q, r)
  \/ \E over \in SUBSET Requests : End(over)

RotationSpec == RotationInit /\ [][RotationNext]_<<right, used>>
=============================================================================
