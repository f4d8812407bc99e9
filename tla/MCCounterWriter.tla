--------------------------- MODULE MCCounterWriter ---------------------------
(* Small instances of CounterWriter: one post, its owner and another user, *)
(* who each make the calls in which they can change a row.                 *)
EXTENDS CounterWriter, TLC

CONSTANTS owner, fan, p1

MCUsers == {owner, fan}
MCPosts == {p1}
MCAuthor == [p \in MCPosts |-> owner]

Ask(u, k) == [kind |-> k, user |-> u, post |-> p1]

LikesOnly == {Ask(fan, "like"), Ask(fan, "unlike")}
Everything == LikesOnly \cup {Ask(fan, "comment_create")}
                \cup {Ask(owner, k) : k \in {"delete_comment", "delete_post",
                                             "delete_post_force"}}
=============================================================================
