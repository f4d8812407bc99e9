------------------------------ MODULE MCContent ------------------------------
(* Two users who follow, block and hide from each other; up to two things   *)
(* published while the pins and the sweeper run; three posts whose author   *)
(* deletes, restores and archives them while a list is paged through.       *)
EXTENDS Content

CONSTANTS u, v

Upload(m, th, tag, reel) == [media |-> m, thumb |-> th, tagged |-> tag, reel |-> reel]
MCUploads == {Upload(1, 2, TRUE, TRUE), Upload(2, Thumbless, FALSE, FALSE)}
MCPublished == [p \in 1..3 |->
  [by |-> u, what |-> Upload(2, Thumbless, FALSE, FALSE),
   created |-> IF p = 1 THEN 0 ELSE 1, saved |-> p # 2]]
MCMixes == {{"post", "pin"}, {"story", "pin"}, {"announce", "pin", "crash"},
            {"post", "story", "hangup", "crash"}, {"graph", "crash"},
            {"page", "graph"}, {"page", "post"}, {"page", "edit"}, {"page", "save"}}
=============================================================================
