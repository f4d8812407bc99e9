-------------------------------- MODULE Ledger --------------------------------
(***************************************************************************)
(* What batched counters promise, whatever the handlers, the mailbox and   *)
(* the actor are. A column counts the rows of a set. A row that comes or   *)
(* goes leaves one debt, +1 or -1 on its column. A debt is closed once:    *)
(* it is paid, together with others and with the column kept above zero,   *)
(* or it is written off. Nothing else changes a column.                    *)
(***************************************************************************)
EXTENDS Integers, FiniteSets

CONSTANTS Debts, Columns

VARIABLES
  size,   (* [Columns -> Nat]: how many rows there are to count            *)
  value,  (* [Columns -> Nat]: what the column says                        *)
  owed,   (* the open debts: a function to their columns and amounts       *)
  over,   (* the debts that were closed                                    *)
  gone    (* columns that have been dropped                                *)

ledger == <<size, value, owed, over, gone>>

LedgerInit ==
  /\ size = [k \in Columns |-> 0] /\ value = [k \in Columns |-> 0]
  /\ owed = [d \in {} |-> 0] /\ over = {} /\ gone = {}

(* What the debts of S come to on column k.                                *)
Due(k, S) == Cardinality({d \in S : owed[d] = <<k, 1>>})
             - Cardinality({d \in S : owed[d] = <<k, -1>>})
Floor(n) == IF n > 0 THEN n ELSE 0

(* A row of column k comes or goes: n is 1 or -1. The debt that it leaves  *)
(* is open, or written off at once when nobody is left to pay it.          *)
Incur(d, k, n) ==
  /\ d \notin DOMAIN owed \cup over /\ k \notin gone
  /\ size' = [size EXCEPT ![k] = @ + n]
  /\ \/ /\ owed' = [e \in DOMAIN owed \cup {d} |-> IF e = d THEN <<k, n>> ELSE owed[e]]
        /\ UNCHANGED over
     \/ over' = over \cup {d} /\ UNCHANGED owed
  /\ UNCHANGED <<value, gone>>

Close(S) ==
  /\ owed' = [d \in DOMAIN owed \ S |-> owed[d]]
  /\ over' = over \cup S
  /\ UNCHANGED <<size, gone>>

(* Columns that are gone are not written.                                  *)
Pay(S) ==
  /\ Close(S)
  /\ value' = [k \in Columns |-> IF k \in gone THEN value[k]
                                 ELSE Floor(value[k] + Due(k, S))]

WriteOff(S) == Close(S) /\ UNCHANGED value

(* Columns go when nothing is left to count.                               *)
Drop(K) ==
  /\ \A k \in K : size[k] = 0
  /\ gone' = gone \cup K
  /\ UNCHANGED <<size, value, owed, over>>

LedgerNext ==
  \/ \E d \in Debts, k \in Columns, n \in {1, -1} : Incur(d, k, n)
  \/ \E S \in SUBSET DOMAIN owed : Pay(S) \/ WriteOff(S)
  \/ \E K \in SUBSET Columns : Drop(K)

LedgerSpec == LedgerInit /\ [][LedgerNext]_ledger
=============================================================================
