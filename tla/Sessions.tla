------------------------------ MODULE Sessions -------------------------------
(***************************************************************************)
(* Refresh-token sessions (src/src/api/auth.rs): issue_pair, refresh and   *)
(* logout over the refresh_tokens table.                                   *)
(*                                                                         *)
(* refresh is two jobs of the writer actor: the first checks the presented *)
(* token and revokes it, the second, posted when the handler resumes,      *)
(* inserts its successor. In between the client may hang up, which drops   *)
(* the handler, or the process may crash. Clients retry, and several       *)
(* devices or tabs may present the same token at once.                     *)
(*                                                                         *)
(* A request issues at most one token, so the token is named by the        *)
(* request; a session is the chain of tokens that starts at a sign-in, and *)
(* is named by that sign-in's request.                                     *)
(***************************************************************************)
EXTENDS Naturals

CONSTANT NRequests  (* bound on requests, numbered in the order they start *)

ASSUME SessionsAssumption == NRequests \in Nat

Requests == 1..NRequests
None == 0

VARIABLES
  stage,    (* where each request is                                       *)
  uses,     (* the token a refresh or logout presents, else None           *)
  session,  (* the session that a request's token belongs to, else None    *)
  tokens,   (* the refresh_tokens table: "none", "valid" or "revoked"      *)
  expired,  (* tokens whose expires_at has passed                          *)
  known     (* tokens whose response reached the client                    *)

vars == <<stage, uses, session, tokens, expired, known>>

(* refreshing, loggingOut: the first job is in the mailbox. redeemed: the  *)
(* presented token is revoked and its successor not yet asked for.         *)
(* issuing: issue_pair's job is in the mailbox. A "deaf" stage is the same *)
(* with no handler left to hear the reply.                                 *)
Stages == {"idle", "refreshing", "deafRefreshing", "redeemed", "loggingOut",
           "issuing", "deafIssuing", "issued", "refused", "loggedOut", "noop", "broken"}

TypeOK ==
  /\ stage \in [Requests -> Stages]
  /\ uses \in [Requests -> Requests \cup {None}]
  /\ session \in [Requests -> Requests \cup {None}]
  /\ tokens \in [Requests -> {"none", "valid", "revoked"}]
  /\ expired \subseteq Requests
  /\ known \subseteq {r \in Requests : tokens[r] # "none"}

Init ==
  /\ stage = [r \in Requests |-> "idle"]
  /\ uses = [r \in Requests |-> None]
  /\ session = [r \in Requests |-> None]
  /\ tokens = [r \in Requests |-> "none"]
  /\ expired = {}
  /\ known = {}

Move(r, to) == stage' = [stage EXCEPT ![r] = to]
Fresh(r) == stage[r] = "idle" /\ \A q \in 1..(r-1) : stage[q] # "idle"

(* register, login, verify_2fa and google end in issue_pair.               *)
SignIn(r) ==
  /\ Fresh(r)
  /\ Move(r, "issuing")
  /\ session' = [session EXCEPT ![r] = r]
  /\ UNCHANGED <<uses, tokens, expired, known>>

(* The INSERT of issue_pair; the reply carries the token to the client.    *)
Issue(r) ==
  /\ stage[r] \in {"issuing", "deafIssuing"}
  /\ tokens' = [tokens EXCEPT ![r] = "valid"]
  /\ Move(r, "issued")
  /\ known' = IF stage[r] = "issuing" THEN known \cup {r} ELSE known
  /\ UNCHANGED <<uses, session, expired>>

(* A client presents a token it has been given, perhaps not for the first  *)
(* time, to refresh or to logout.                                          *)
Refresh(r, t) ==
  /\ Fresh(r) /\ t \in known
  /\ Move(r, "refreshing")
  /\ uses' = [uses EXCEPT ![r] = t]
  /\ UNCHANGED <<session, tokens, expired, known>>

Logout(r, t) ==
  /\ Fresh(r) /\ t \in known
  /\ Move(r, "loggingOut")
  /\ uses' = [uses EXCEPT ![r] = t]
  /\ UNCHANGED <<session, tokens, expired, known>>

Redeem(r) == LET t == uses[r] IN
  /\ tokens' = [tokens EXCEPT ![t] = "revoked"]
  /\ session' = [session EXCEPT ![r] = session[t]]
  /\ Move(r, IF stage[r] = "refreshing" THEN "redeemed" ELSE "broken")

(* A plausible slip: revoked_at is not looked at.                          *)
RefreshJobReusing(r) ==
  /\ stage[r] \in {"refreshing", "deafRefreshing"}
  /\ \/ uses[r] \notin expired /\ Redeem(r)
     \/ uses[r] \in expired /\ Move(r, "refused") /\ UNCHANGED <<session, tokens>>
  /\ UNCHANGED <<uses, expired, known>>

(* A plausible slip: the token is revoked before it is looked at, so that  *)
(* a refused refresh still costs the client its session.                   *)
RefreshJobEager(r) == LET t == uses[r] IN
  /\ stage[r] \in {"refreshing", "deafRefreshing"}
  /\ tokens' = [tokens EXCEPT ![t] = "revoked"]
  /\ \/ /\ tokens[t] = "valid" /\ t \notin expired
        /\ session' = [session EXCEPT ![r] = session[t]]
        /\ Move(r, IF stage[r] = "refreshing" THEN "redeemed" ELSE "broken")
     \/ /\ ~(tokens[t] = "valid" /\ t \notin expired)
        /\ Move(r, "refused") /\ UNCHANGED session
  /\ UNCHANGED <<uses, expired, known>>

(* refresh's first job: a token neither revoked nor expired is revoked.    *)
RefreshJob(r) == LET t == uses[r] IN
  /\ stage[r] \in {"refreshing", "deafRefreshing"}
  /\ \/ tokens[t] = "valid" /\ t \notin expired /\ Redeem(r)
     \/ /\ tokens[t] # "valid" \/ t \in expired
        /\ Move(r, "refused") /\ UNCHANGED <<session, tokens>>
  /\ UNCHANGED <<uses, expired, known>>

(* A plausible slip: the new token is answered before it is inserted.      *)
ResumeAnsweringEarly(r) ==
  /\ stage[r] = "redeemed"
  /\ Move(r, "issuing")
  /\ known' = known \cup {r}
  /\ UNCHANGED <<uses, session, tokens, expired>>

(* A plausible slip: the presented token is revoked and that is all.       *)
ResumeDropped(r) == stage[r] = "redeemed" /\ UNCHANGED vars

(* refresh resumes after the reply and calls issue_pair.                   *)
Resume(r) ==
  /\ stage[r] = "redeemed"
  /\ Move(r, "issuing")
  /\ UNCHANGED <<uses, session, tokens, expired, known>>

(* A plausible slip: logout revokes whatever it is given a second time.    *)
LogoutJobAlways(r) ==
  /\ stage[r] = "loggingOut"
  /\ tokens' = [tokens EXCEPT ![uses[r]] = "revoked"]
  /\ Move(r, "loggedOut")
  /\ UNCHANGED <<uses, session, expired, known>>

(* The UPDATE of logout: revokes the token unless it is revoked already.   *)
LogoutJob(r) == LET t == uses[r] IN
  /\ stage[r] = "loggingOut"
  /\ tokens' = [tokens EXCEPT ![t] = "revoked"]
  /\ Move(r, IF tokens[t] = "valid" THEN "loggedOut" ELSE "noop")
  /\ UNCHANGED <<uses, session, expired, known>>

(* The client of a refresh or a sign-in hangs up.                          *)
HangUp(r) ==
  /\ \/ stage[r] = "refreshing" /\ Move(r, "deafRefreshing")
     \/ stage[r] = "redeemed" /\ Move(r, "broken")
     \/ stage[r] = "issuing" /\ Move(r, "deafIssuing")
  /\ UNCHANGED <<uses, session, tokens, expired, known>>

(* refresh_ttl_secs pass.                                                  *)
Expire(t) ==
  /\ tokens[t] # "none" /\ t \notin expired
  /\ expired' = expired \cup {t}
  /\ UNCHANGED <<stage, uses, session, tokens, known>>

(* The process dies with its mailbox; the table survives.                  *)
Crash ==
  /\ stage' = [r \in Requests |->
       IF stage[r] \in {"redeemed", "issuing", "deafIssuing"} THEN "broken"
       ELSE IF stage[r] \in {"refreshing", "deafRefreshing", "loggingOut"} THEN "noop"
       ELSE stage[r]]
  /\ UNCHANGED <<uses, session, tokens, expired, known>>

Handle(r) == Issue(r) \/ RefreshJob(r) \/ Resume(r) \/ LogoutJob(r)

Next ==
  \/ \E r \in Requests :
       SignIn(r) \/ Handle(r) \/ HangUp(r) \/ Expire(r)
         \/ \E t \in Requests : Refresh(r, t) \/ Logout(r, t)
  \/ Crash

Spec == Init /\ [][Next]_vars

(* The writer actor drains its mailbox and a handler whose reply has come  *)
(* is polled again.                                                        *)
FairSpec == Spec /\ \A r \in Requests : WF_vars(Handle(r))

-----------------------------------------------------------------------------
(* Properties.                                                             *)

(* A request that holds the right to its session's next token: it is about *)
(* to insert one, or has inserted one that is still valid.                 *)
Bearer(r) == stage[r] \in {"redeemed", "issuing", "deafIssuing"} \/ tokens[r] = "valid"

(* "Rotation: the presented token is single-use" (auth.rs): however often  *)
(* and concurrently a session's tokens are presented, at most one request  *)
(* of the session may hold or obtain a usable token.                       *)
OneBearer ==
  \A q, r \in Requests :
    (session[q] = session[r] /\ session[q] # None /\ Bearer(q) /\ Bearer(r)) => q = r

(* The table and the handlers are an implementation of rotation: the right *)
(* to a session's next token passes from request to request, each in its   *)
(* turn and once, and is never had again once lost, whoever retries, races *)
(* or hangs up, and whenever the process dies (auth.rs: "Rotation").       *)
Abstract == INSTANCE Rotation WITH
  right <- [r \in Requests |-> IF Bearer(r) THEN session[r] ELSE None],
  used <- {r \in Requests : session[r] # None}

ImplementsRotation == Abstract!RotationSpec

(* A token is exchanged for a successor by at most one request.            *)
RedeemedOnce ==
  \A q, r \in Requests :
    (session[q] # None /\ session[r] # None /\ uses[q] = uses[r] /\ uses[q] # None)
      => q = r

(* Request r accounts for the state of session s.                          *)
Explains(r, s) ==
  \/ session[r] = s /\ (Bearer(r) \/ stage[r] = "broken")
  \/ stage[r] = "loggedOut" /\ session[uses[r]] = s

(* A session ends only for a reason the user can see: it still has a       *)
(* bearer, one of its tokens was logged out, or a client hung up or the    *)
(* process crashed while its token was being rotated. Repeated, refused or *)
(* racing refreshes never end it.                                          *)
EndsForAReason ==
  \A s \in Requests : session[s] = s => \E r \in Requests : Explains(r, s)

(* A logout that revoked a token ended the session: no request of that     *)
(* session can hold or obtain a usable token afterwards.                   *)
LogoutEndsSession ==
  \A r, q \in Requests :
    stage[r] = "loggedOut" /\ session[q] = session[uses[r]] => ~Bearer(q)

(* Every request is answered or cut off: a refresh that revoked its token  *)
(* goes on to issue the successor unless the client or process goes away.  *)
RotationCompletes ==
  \A r \in Requests :
    stage[r] \in {"refreshing", "redeemed", "issuing"}
      ~> stage[r] \in {"issued", "refused", "broken", "noop"}
=============================================================================
