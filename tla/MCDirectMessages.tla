-------------------------- MODULE MCDirectMessages --------------------------
(* Two users with a connection each, and a third who is in none of their   *)
(* threads.                                                                *)
EXTENDS DirectMessages, TLC

CONSTANTS c1, c2, heart, fire

MCConns == {c1, c2}
MCContacts == {<<1, 2>>, <<2, 1>>, <<1, 1>>}
MCEmojis == {heart, fire}
Symmetry == Permutations(MCEmojis)
MCOwner == (c1 :> 1) @@ (c2 :> 2)

(* No step and no property depends on what a closed connection was given,  *)
(* on the arguments of a refused request, or on which connections were     *)
(* there, once closed; MembersOnly has been checked before they close.     *)
Relevant(r) ==
  IF r.pc = "refused" THEN << >>
  ELSE IF Over(r) THEN [r EXCEPT !.online = @ \cap clients, !.seen = NoReactions]
  ELSE [r EXCEPT !.online = @ \cap clients]
View == <<threads, message, reactions, [n \in DOMAIN reqs |-> Relevant(reqs[n])],
          clients, closed, [c \in Conns |-> IF c \in closed THEN << >> ELSE outbox[c]]>>
=============================================================================
