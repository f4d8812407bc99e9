----------------------------- MODULE SocialGraph -----------------------------
(***************************************************************************)
(* Follows, blocks and account privacy (src/src/api/social.rs, users.rs).  *)
(*                                                                         *)
(* Each request is one job of the writer actor, which runs one job at a    *)
(* time; but the statements of a job are committed one by one. Between two *)
(* of them the read pool sees the first without the second, and a process  *)
(* that dies leaves it so.                                                 *)
(***************************************************************************)
EXTENDS Naturals

CONSTANT Users

VARIABLES
  follows,  (* {<<follower, followee>>}                                     *)
  blocks,   (* {<<blocker, blocked>>}                                       *)
  private,  (* users whose users.is_private is set: what is enforced        *)
  settings, (* user_privacy.private_account, "none" without a row: what     *)
            (* patch_privacy answers                                        *)
  running,  (* the writer's job: its next statement, << >> between jobs     *)
  over,     (* history: follows made over a block, or left by a cut block   *)
  drifted   (* history: users of whom private was written without settings  *)

graphTables == <<follows, blocks, private, settings>>
graphVars == <<graphTables, over, drifted>>

Idle == running = << >>

Edge(a, b) == {<<a, b>>, <<b, a>>}
Blocked(a, b) == Edge(a, b) \cap blocks # {}

GraphTypeOK ==
  /\ follows \subseteq Users \X Users /\ blocks \subseteq Users \X Users
  /\ private \subseteq Users
  /\ settings \in [Users -> {"none", "public", "private"}]
  /\ over \subseteq follows /\ drifted \subseteq Users

GraphInit ==
  /\ follows = {} /\ blocks = {} /\ private = {}
  /\ settings = [u \in Users |-> "none"]
  /\ over = {} /\ drifted = {}

(* follow: blocks are not looked at.                                       *)
Follow(a, b) ==
  /\ Idle /\ a # b
  /\ follows' = follows \cup {<<a, b>>}
  /\ over' = IF Blocked(a, b) /\ <<a, b>> \notin follows THEN over \cup {<<a, b>>} ELSE over
  /\ UNCHANGED <<blocks, private, settings, running, drifted>>

Unfollow(a, b) ==
  /\ Idle
  /\ follows' = follows \ {<<a, b>>} /\ over' = over \ {<<a, b>>}
  /\ UNCHANGED <<blocks, private, settings, running, drifted>>

(* block: the row first, then "blocking supersedes following".             *)
Block(a, b) ==
  /\ Idle /\ a # b
  /\ blocks' = blocks \cup {<<a, b>>}
  /\ running' = <<"unfollow", a, b>>
  /\ UNCHANGED <<follows, private, settings, over, drifted>>

(* A plausible slip: only the blocked user's follow is dropped.            *)
DropOneFollow ==
  /\ ~Idle /\ running[1] = "unfollow"
  /\ LET gone == {<<running[3], running[2]>>} IN
       follows' = follows \ gone /\ over' = over \ gone
  /\ running' = << >>
  /\ UNCHANGED <<blocks, private, settings, drifted>>

DropFollows ==
  /\ ~Idle /\ running[1] = "unfollow"
  /\ LET gone == Edge(running[2], running[3]) IN
       follows' = follows \ gone /\ over' = over \ gone
  /\ running' = << >>
  /\ UNCHANGED <<blocks, private, settings, drifted>>

Unblock(a, b) ==
  /\ Idle
  /\ blocks' = blocks \ {<<a, b>>}
  /\ over' = IF Blocked(b, a)' THEN over ELSE over \ Edge(a, b)
  /\ UNCHANGED <<follows, private, settings, running, drifted>>

SetPrivate(u, v) == private' = IF v = "private" THEN private \cup {u} ELSE private \ {u}

(* patch_me: users.is_private alone.                                       *)
PatchMe(u, v) ==
  /\ Idle /\ v # "absent"
  /\ SetPrivate(u, v)
  /\ drifted' = IF settings[u] = "none" THEN drifted ELSE drifted \cup {u}
  /\ UNCHANGED <<follows, blocks, settings, running, over>>

(* patch_privacy: the row, with its default when it is new; then, if the   *)
(* request says so, users and the row.                                     *)
PatchPrivacy(u, v) ==
  /\ Idle
  /\ settings' = [settings EXCEPT ![u] = IF @ = "none" THEN "public" ELSE @]
  /\ drifted' = IF settings[u] = "none" /\ u \in private THEN drifted \cup {u} ELSE drifted
  /\ running' = IF v = "absent" THEN << >> ELSE <<"users", u, v>>
  /\ UNCHANGED <<follows, blocks, private, over>>

PatchUsers ==
  /\ ~Idle /\ running[1] = "users"
  /\ SetPrivate(running[2], running[3])
  /\ running' = <<"settings", running[2], running[3]>>
  /\ UNCHANGED <<follows, blocks, settings, over, drifted>>

PatchSettings ==
  /\ ~Idle /\ running[1] = "settings"
  /\ settings' = [settings EXCEPT ![running[2]] = running[3]]
  /\ drifted' = drifted \ {running[2]}
  /\ running' = << >>
  /\ UNCHANGED <<follows, blocks, private, over>>

GraphStatement == DropFollows \/ PatchUsers \/ PatchSettings

(* The process dies: the rest of the running job is lost.                  *)
GraphCrash ==
  /\ over' = IF ~Idle /\ running[1] = "unfollow"
             THEN over \cup (Edge(running[2], running[3]) \cap follows) ELSE over
  /\ drifted' = IF ~Idle /\ running[1] = "settings" THEN drifted \cup {running[2]} ELSE drifted
  /\ running' = << >>
  /\ UNCHANGED graphTables

-----------------------------------------------------------------------------
(* Properties.                                                             *)

(* "Blocking supersedes following" (social.rs): nobody follows across a    *)
(* block, unless the follow was made when the block was there already,     *)
(* which follow does not look at, or the block's job is between its two    *)
(* statements or died there.                                               *)
BlockSupersedes ==
  \A f \in follows : Blocked(f[1], f[2]) =>
    \/ f \in over
    \/ ~Idle /\ running[1] = "unfollow" /\ f \in Edge(running[2], running[3])

(* The privacy that a user is told by patch_privacy is the one enforced,   *)
(* unless patch_me wrote the one without the other, or patch_privacy's job *)
(* is between the two or died there.                                       *)
PrivacyAsTold ==
  \A u \in Users : settings[u] # "none" =>
    \/ settings[u] = IF u \in private THEN "private" ELSE "public"
    \/ u \in drifted
    \/ ~Idle /\ running[1] = "settings" /\ running[2] = u

(* The tables that a job writes together agree, but for these reasons.     *)
GraphConsistent == BlockSupersedes /\ PrivacyAsTold
=============================================================================
