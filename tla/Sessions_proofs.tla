-------------------------- MODULE Sessions_proofs ---------------------------
(***************************************************************************)
(* For any number of requests: the invariants of Sessions and the          *)
(* strengthening that makes them inductive.                                *)
(***************************************************************************)
EXTENDS Sessions, TLAPS

(* Requests that never obtained a session and those that did.              *)
Outsiders == {"idle", "refreshing", "deafRefreshing", "loggingOut", "refused",
              "loggedOut", "noop"}
Insiders == {"redeemed", "issuing", "deafIssuing", "issued", "broken"}

(* A request's stage says whether it belongs to a session and whether its  *)
(* token has been inserted.                                                *)
StageInv ==
  \A r \in Requests :
    /\ stage[r] \in Outsiders <=> session[r] = None
    /\ tokens[r] # "none" <=> stage[r] = "issued"
    /\ stage[r] = "idle" => uses[r] = None
    /\ stage[r] \in {"refreshing", "deafRefreshing", "loggingOut", "loggedOut"} =>
          uses[r] # None

(* Whatever a client knows or presents was issued.                         *)
UsesInv ==
  /\ \A t \in known : stage[t] = "issued"
  /\ \A r \in Requests : uses[r] # None => stage[uses[r]] = "issued"

(* A session is named by its first request, and a request that took its    *)
(* session over from another's token left that token revoked.              *)
ChainInv ==
  \A r \in Requests : session[r] # None =>
    /\ session[session[r]] = session[r]
    /\ uses[r] # None => tokens[uses[r]] = "revoked"

IInv == TypeOK /\ StageInv /\ UsesInv /\ ChainInv
          /\ OneBearer /\ RedeemedOnce /\ LogoutEndsSession /\ EndsForAReason

(* Every step keeps the variables in their types.                          *)
LEMMA TypeStep ==
  ASSUME TypeOK, StageInv, [Next]_vars
  PROVE  TypeOK'
<1> USE SessionsAssumption DEF TypeOK, StageInv, Requests, None, Stages
<1>1. ASSUME NEW r \in Requests, SignIn(r) PROVE TypeOK'
  BY <1>1 DEF SignIn, Fresh, Move
<1>2. ASSUME NEW r \in Requests, Issue(r) PROVE TypeOK'
  BY <1>2 DEF Issue, Move
<1>3. ASSUME NEW r \in Requests, NEW t \in Requests, Refresh(r, t) PROVE TypeOK'
  BY <1>3 DEF Refresh, Fresh, Move
<1>4. ASSUME NEW r \in Requests, NEW t \in Requests, Logout(r, t) PROVE TypeOK'
  BY <1>4 DEF Logout, Fresh, Move
<1>5. ASSUME NEW r \in Requests, RefreshJob(r) PROVE TypeOK'
  <2>1. uses[r] \in Requests
    BY <1>5 DEF RefreshJob
  <2>2. CASE Redeem(r)
    BY <1>5, <2>1, <2>2 DEF RefreshJob, Redeem, Move
  <2>3. CASE Move(r, "refused") /\ UNCHANGED <<session, tokens>>
    BY <1>5, <2>1, <2>3 DEF RefreshJob, Move
  <2>4. QED
    BY <1>5, <2>2, <2>3 DEF RefreshJob
<1>6. ASSUME NEW r \in Requests, Resume(r) PROVE TypeOK'
  BY <1>6 DEF Resume, Move
<1>7. ASSUME NEW r \in Requests, LogoutJob(r) PROVE TypeOK'
  BY <1>7 DEF LogoutJob, Move
<1>8. ASSUME NEW r \in Requests, HangUp(r) PROVE TypeOK'
  BY <1>8 DEF HangUp, Move
<1>9. ASSUME NEW r \in Requests, Expire(r) PROVE TypeOK'
  BY <1>9 DEF Expire
<1>10. ASSUME Crash PROVE TypeOK'
  BY <1>10 DEF Crash
<1>11. CASE UNCHANGED vars
  BY <1>11 DEF vars
<1>12. QED
  BY <1>1, <1>2, <1>3, <1>4, <1>5, <1>6, <1>7, <1>8, <1>9, <1>10, <1>11 DEF Next, Handle

(* Every step keeps stages, sessions and the table in agreement.           *)
LEMMA StageStep ==
  ASSUME TypeOK, StageInv, UsesInv, [Next]_vars
  PROVE  StageInv'
<1> USE SessionsAssumption DEF TypeOK, StageInv, UsesInv, Requests, None, Stages, Outsiders
<1>1. ASSUME NEW r \in Requests, SignIn(r) PROVE StageInv'
  BY <1>1 DEF SignIn, Fresh, Move
<1>2. ASSUME NEW r \in Requests, Issue(r) PROVE StageInv'
  BY <1>2 DEF Issue, Move
<1>3. ASSUME NEW r \in Requests, NEW t \in Requests, Refresh(r, t) PROVE StageInv'
  BY <1>3 DEF Refresh, Fresh, Move
<1>4. ASSUME NEW r \in Requests, NEW t \in Requests, Logout(r, t) PROVE StageInv'
  BY <1>4 DEF Logout, Fresh, Move
<1>5. ASSUME NEW r \in Requests, RefreshJob(r) PROVE StageInv'
  <2>1. uses[r] \in Requests /\ stage[uses[r]] = "issued" /\ uses[r] # r
    BY <1>5 DEF RefreshJob
  <2>2. CASE Redeem(r)
    BY <1>5, <2>1, <2>2 DEF RefreshJob, Redeem, Move
  <2>3. CASE UNCHANGED <<session, tokens>>
    BY <1>5, <2>1, <2>3 DEF RefreshJob, Redeem, Move
  <2>4. QED
    BY <1>5, <2>2, <2>3 DEF RefreshJob
<1>6. ASSUME NEW r \in Requests, Resume(r) PROVE StageInv'
  BY <1>6 DEF Resume, Move
<1>7. ASSUME NEW r \in Requests, LogoutJob(r) PROVE StageInv'
  BY <1>7 DEF LogoutJob, Move
<1>8. ASSUME NEW r \in Requests, HangUp(r) PROVE StageInv'
  <2>1. CASE stage[r] = "refreshing" /\ Move(r, "deafRefreshing")
    BY <1>8, <2>1 DEF HangUp, Move
  <2>2. CASE stage[r] = "redeemed" /\ Move(r, "broken")
    BY <1>8, <2>2 DEF HangUp, Move
  <2>3. CASE stage[r] = "issuing" /\ Move(r, "deafIssuing")
    BY <1>8, <2>3 DEF HangUp, Move
  <2>4. QED
    BY <1>8, <2>1, <2>2, <2>3 DEF HangUp
<1>9. ASSUME NEW r \in Requests, Expire(r) PROVE StageInv'
  BY <1>9 DEF Expire
<1>10. ASSUME Crash PROVE StageInv'
  BY <1>10 DEF Crash
<1>11. CASE UNCHANGED vars
  BY <1>11 DEF vars
<1>12. QED
  BY <1>1, <1>2, <1>3, <1>4, <1>5, <1>6, <1>7, <1>8, <1>9, <1>10, <1>11 DEF Next, Handle

(* Issued requests stay issued, so what clients know stays issued.         *)
LEMMA UsesStep ==
  ASSUME TypeOK, StageInv, UsesInv, [Next]_vars
  PROVE  UsesInv'
<1> USE SessionsAssumption DEF TypeOK, StageInv, UsesInv, Requests, None, Stages
<1>1. ASSUME NEW r \in Requests, SignIn(r) PROVE UsesInv'
  BY <1>1 DEF SignIn, Fresh, Move
<1>2. ASSUME NEW r \in Requests, Issue(r) PROVE UsesInv'
  BY <1>2 DEF Issue, Move
<1>3. ASSUME NEW r \in Requests, NEW t \in Requests, Refresh(r, t) PROVE UsesInv'
  BY <1>3 DEF Refresh, Fresh, Move
<1>4. ASSUME NEW r \in Requests, NEW t \in Requests, Logout(r, t) PROVE UsesInv'
  BY <1>4 DEF Logout, Fresh, Move
<1>5. ASSUME NEW r \in Requests, RefreshJob(r) PROVE UsesInv'
  BY <1>5 DEF RefreshJob, Redeem, Move
<1>6. ASSUME NEW r \in Requests, Resume(r) PROVE UsesInv'
  BY <1>6 DEF Resume, Move
<1>7. ASSUME NEW r \in Requests, LogoutJob(r) PROVE UsesInv'
  BY <1>7 DEF LogoutJob, Move
<1>8. ASSUME NEW r \in Requests, HangUp(r) PROVE UsesInv'
  BY <1>8 DEF HangUp, Move
<1>9. ASSUME NEW r \in Requests, Expire(r) PROVE UsesInv'
  BY <1>9 DEF Expire
<1>10. ASSUME Crash PROVE UsesInv'
  BY <1>10 DEF Crash
<1>11. CASE UNCHANGED vars
  BY <1>11 DEF vars
<1>12. QED
  BY <1>1, <1>2, <1>3, <1>4, <1>5, <1>6, <1>7, <1>8, <1>9, <1>10, <1>11 DEF Next, Handle

(* A request joins a session only with a token it has just revoked.        *)
LEMMA ChainStep ==
  ASSUME TypeOK, StageInv, UsesInv, ChainInv, [Next]_vars
  PROVE  ChainInv'
<1> USE SessionsAssumption DEF TypeOK, StageInv, UsesInv, ChainInv, Requests, None, Stages, Outsiders
<1>1. ASSUME NEW r \in Requests, SignIn(r) PROVE ChainInv'
  BY <1>1 DEF SignIn, Fresh, Move
<1>2. ASSUME NEW r \in Requests, Issue(r) PROVE ChainInv'
  BY <1>2 DEF Issue, Move
<1>3. ASSUME NEW r \in Requests, NEW t \in Requests, Refresh(r, t) PROVE ChainInv'
  BY <1>3 DEF Refresh, Fresh, Move
<1>4. ASSUME NEW r \in Requests, NEW t \in Requests, Logout(r, t) PROVE ChainInv'
  BY <1>4 DEF Logout, Fresh, Move
<1>5. ASSUME NEW r \in Requests, RefreshJob(r) PROVE ChainInv'
  BY <1>5 DEF RefreshJob, Redeem, Move
<1>6. ASSUME NEW r \in Requests, Resume(r) PROVE ChainInv'
  BY <1>6 DEF Resume, Move
<1>7. ASSUME NEW r \in Requests, LogoutJob(r) PROVE ChainInv'
  BY <1>7 DEF LogoutJob, Move
<1>8. ASSUME NEW r \in Requests, HangUp(r) PROVE ChainInv'
  BY <1>8 DEF HangUp, Move
<1>9. ASSUME NEW r \in Requests, Expire(r) PROVE ChainInv'
  BY <1>9 DEF Expire
<1>10. ASSUME Crash PROVE ChainInv'
  BY <1>10 DEF Crash
<1>11. CASE UNCHANGED vars
  BY <1>11 DEF vars
<1>12. QED
  BY <1>1, <1>2, <1>3, <1>4, <1>5, <1>6, <1>7, <1>8, <1>9, <1>10, <1>11 DEF Next, Handle

(* A second request cannot redeem a token: the first left it revoked.      *)
LEMMA RedeemedStep ==
  ASSUME TypeOK, StageInv, UsesInv, ChainInv, RedeemedOnce, [Next]_vars
  PROVE  RedeemedOnce'
<1> USE SessionsAssumption DEF TypeOK, StageInv, UsesInv, ChainInv, RedeemedOnce, Requests, None, Stages, Outsiders
<1>1. ASSUME NEW r \in Requests, SignIn(r) PROVE RedeemedOnce'
  BY <1>1 DEF SignIn, Fresh, Move
<1>2. ASSUME NEW r \in Requests, Issue(r) PROVE RedeemedOnce'
  BY <1>2 DEF Issue, Move
<1>3. ASSUME NEW r \in Requests, NEW t \in Requests, Refresh(r, t) PROVE RedeemedOnce'
  BY <1>3 DEF Refresh, Fresh, Move
<1>4. ASSUME NEW r \in Requests, NEW t \in Requests, Logout(r, t) PROVE RedeemedOnce'
  BY <1>4 DEF Logout, Fresh, Move
<1>5. ASSUME NEW r \in Requests, RefreshJob(r) PROVE RedeemedOnce'
  BY <1>5 DEF RefreshJob, Redeem, Move
<1>6. ASSUME NEW r \in Requests, Resume(r) PROVE RedeemedOnce'
  BY <1>6 DEF Resume, Move
<1>7. ASSUME NEW r \in Requests, LogoutJob(r) PROVE RedeemedOnce'
  BY <1>7 DEF LogoutJob, Move
<1>8. ASSUME NEW r \in Requests, HangUp(r) PROVE RedeemedOnce'
  BY <1>8 DEF HangUp, Move
<1>9. ASSUME NEW r \in Requests, Expire(r) PROVE RedeemedOnce'
  BY <1>9 DEF Expire
<1>10. ASSUME Crash PROVE RedeemedOnce'
  BY <1>10 DEF Crash
<1>11. CASE UNCHANGED vars
  BY <1>11 DEF vars
<1>12. QED
  BY <1>1, <1>2, <1>3, <1>4, <1>5, <1>6, <1>7, <1>8, <1>9, <1>10, <1>11 DEF Next, Handle

(* A redemption passes the right to the next token from one request to     *)
(* another; nothing else creates it in an existing session.                *)
LEMMA BearerStep ==
  ASSUME TypeOK, StageInv, UsesInv, ChainInv, OneBearer, [Next]_vars
  PROVE  OneBearer'
<1> USE SessionsAssumption DEF TypeOK, StageInv, UsesInv, ChainInv, OneBearer, Bearer, Requests, None, Stages, Outsiders
<1>1. ASSUME NEW r \in Requests, SignIn(r) PROVE OneBearer'
  BY <1>1 DEF SignIn, Fresh, Move
<1>2. ASSUME NEW r \in Requests, Issue(r) PROVE OneBearer'
  BY <1>2 DEF Issue, Move
<1>3. ASSUME NEW r \in Requests, NEW t \in Requests, Refresh(r, t) PROVE OneBearer'
  BY <1>3 DEF Refresh, Fresh, Move
<1>4. ASSUME NEW r \in Requests, NEW t \in Requests, Logout(r, t) PROVE OneBearer'
  BY <1>4 DEF Logout, Fresh, Move
<1>5. ASSUME NEW r \in Requests, RefreshJob(r) PROVE OneBearer'
  BY <1>5 DEF RefreshJob, Redeem, Move
<1>6. ASSUME NEW r \in Requests, Resume(r) PROVE OneBearer'
  BY <1>6 DEF Resume, Move
<1>7. ASSUME NEW r \in Requests, LogoutJob(r) PROVE OneBearer'
  BY <1>7 DEF LogoutJob, Move
<1>8. ASSUME NEW r \in Requests, HangUp(r) PROVE OneBearer'
  BY <1>8 DEF HangUp, Move
<1>9. ASSUME NEW r \in Requests, Expire(r) PROVE OneBearer'
  BY <1>9 DEF Expire
<1>10. ASSUME Crash PROVE OneBearer'
  BY <1>10 DEF Crash
<1>11. CASE UNCHANGED vars
  BY <1>11 DEF vars
<1>12. QED
  BY <1>1, <1>2, <1>3, <1>4, <1>5, <1>6, <1>7, <1>8, <1>9, <1>10, <1>11 DEF Next, Handle

(* A session without a bearer never gains one.                             *)
LEMMA LogoutStep ==
  ASSUME TypeOK, StageInv, UsesInv, ChainInv, OneBearer, LogoutEndsSession, [Next]_vars
  PROVE  LogoutEndsSession'
<1> USE SessionsAssumption DEF TypeOK, StageInv, UsesInv, ChainInv, OneBearer, LogoutEndsSession, Bearer, Requests, None, Stages, Outsiders
<1>1. ASSUME NEW r \in Requests, SignIn(r) PROVE LogoutEndsSession'
  BY <1>1 DEF SignIn, Fresh, Move
<1>2. ASSUME NEW r \in Requests, Issue(r) PROVE LogoutEndsSession'
  BY <1>2 DEF Issue, Move
<1>3. ASSUME NEW r \in Requests, NEW t \in Requests, Refresh(r, t) PROVE LogoutEndsSession'
  BY <1>3 DEF Refresh, Fresh, Move
<1>4. ASSUME NEW r \in Requests, NEW t \in Requests, Logout(r, t) PROVE LogoutEndsSession'
  BY <1>4 DEF Logout, Fresh, Move
<1>5. ASSUME NEW r \in Requests, RefreshJob(r) PROVE LogoutEndsSession'
  BY <1>5 DEF RefreshJob, Redeem, Move
<1>6. ASSUME NEW r \in Requests, Resume(r) PROVE LogoutEndsSession'
  BY <1>6 DEF Resume, Move
<1>7. ASSUME NEW r \in Requests, LogoutJob(r) PROVE LogoutEndsSession'
  BY <1>7, SMTT(30) DEF LogoutJob, Move
<1>8. ASSUME NEW r \in Requests, HangUp(r) PROVE LogoutEndsSession'
  BY <1>8 DEF HangUp, Move
<1>9. ASSUME NEW r \in Requests, Expire(r) PROVE LogoutEndsSession'
  BY <1>9 DEF Expire
<1>10. ASSUME Crash PROVE LogoutEndsSession'
  BY <1>10 DEF Crash
<1>11. CASE UNCHANGED vars
  BY <1>11 DEF vars
<1>12. QED
  BY <1>1, <1>2, <1>3, <1>4, <1>5, <1>6, <1>7, <1>8, <1>9, <1>10, <1>11 DEF Next, Handle

(* Whatever explains a session before a step explains it afterwards, or    *)
(* the step supplies a new explanation.                                    *)
LEMMA EndsStep ==
  ASSUME TypeOK, StageInv, UsesInv, ChainInv, EndsForAReason, [Next]_vars
  PROVE  EndsForAReason'
<1> USE SessionsAssumption DEF Requests, None
<1> SUFFICES ASSUME NEW s \in Requests, session'[s] = s
             PROVE  \E p \in Requests : Explains(p, s)'
  BY DEF EndsForAReason
<1>1. CASE \E r \in Requests : SignIn(r)
  <2>1. PICK r \in Requests : SignIn(r)
    BY <1>1
  <2>2. CASE s = r
    <3>1. Explains(r, s)'
      BY <2>1, <2>2 DEF SignIn, Fresh, Move, Explains, Bearer, TypeOK
    <3>2. QED
      BY <3>1
  <2>3. CASE s # r
    <3>1. PICK p \in Requests : Explains(p, s)
      BY <2>1, <2>3 DEF SignIn, EndsForAReason, TypeOK
    <3>2. p # r /\ (stage[p] = "loggedOut" => uses[p] # r)
      BY <2>1, <3>1 DEF SignIn, Fresh, Explains, Bearer, StageInv, UsesInv, Outsiders, TypeOK
    <3>3. Explains(p, s)'
      BY <2>1, <3>1, <3>2 DEF SignIn, Fresh, Move, Explains, Bearer, TypeOK
    <3>4. QED
      BY <3>3
  <2>4. QED
    BY <2>2, <2>3
<1>2. CASE \E r \in Requests : RefreshJob(r)
  <2>1. PICK r \in Requests : RefreshJob(r)
    BY <1>2
  <2>2. uses[r] \in Requests /\ stage[uses[r]] = "issued" /\ uses[r] # r /\ session[r] = None
    BY <2>1 DEF RefreshJob, StageInv, UsesInv, Outsiders, TypeOK
  <2>3. s # r /\ session[s] = s
    BY <2>1, <2>2 DEF RefreshJob, Redeem, Move, StageInv, ChainInv, Outsiders, TypeOK
  <2>4. PICK p \in Requests : Explains(p, s)
    BY <2>3 DEF EndsForAReason
  <2>5. p # r /\ (stage[p] = "loggedOut" => uses[p] \in Requests \ {r})
    BY <2>1, <2>2, <2>3, <2>4 DEF RefreshJob, Explains, Bearer, StageInv, UsesInv, TypeOK
  <2>6. CASE p = uses[r] /\ tokens'[p] # tokens[p]
    <3>1. session[p] = s
      BY <2>2, <2>4, <2>6 DEF Explains
    <3>2. Explains(r, s)'
      BY <2>1, <2>2, <2>6, <3>1 DEF RefreshJob, Redeem, Move, Explains, Bearer, TypeOK
    <3>3. QED
      BY <3>2
  <2>7. CASE ~(p = uses[r] /\ tokens'[p] # tokens[p])
    <3>1. /\ stage'[p] = stage[p] /\ session'[p] = session[p] /\ tokens'[p] = tokens[p]
          /\ uses' = uses
          /\ stage[p] = "loggedOut" => session'[uses[p]] = session[uses[p]]
      BY <2>1, <2>2, <2>5, <2>7 DEF RefreshJob, Redeem, Move, TypeOK
    <3>2. Explains(p, s)'
      BY <2>4, <3>1 DEF Explains, Bearer
    <3>3. QED
      BY <3>2
  <2>8. QED
    BY <2>6, <2>7
<1>3. CASE \E r \in Requests : LogoutJob(r)
  <2>1. PICK r \in Requests : LogoutJob(r)
    BY <1>3
  <2>2. PICK p \in Requests : Explains(p, s)
    BY <2>1 DEF LogoutJob, EndsForAReason
  <2>3. uses[r] \in Requests /\ stage[uses[r]] = "issued" /\ uses[r] # r /\ p # r
    BY <2>1, <2>2 DEF LogoutJob, Explains, Bearer, StageInv, UsesInv, Outsiders, TypeOK
  <2>4. CASE p = uses[r] /\ tokens[p] = "valid"
    <3>1. Explains(r, s)'
      BY <2>1, <2>2, <2>3, <2>4 DEF LogoutJob, Move, Explains, TypeOK
    <3>2. QED
      BY <3>1
  <2>5. CASE ~(p = uses[r] /\ tokens[p] = "valid")
    <3>1. Explains(p, s)'
      BY <2>1, <2>2, <2>3, <2>5 DEF LogoutJob, Move, Explains, Bearer, TypeOK
    <3>2. QED
      BY <3>1
  <2>6. QED
    BY <2>4, <2>5
<1>4. CASE \E r \in Requests :
             \/ Issue(r) \/ Resume(r) \/ HangUp(r) \/ Expire(r)
             \/ \E t \in Requests : Refresh(r, t) \/ Logout(r, t)
  <2>1. PICK r \in Requests :
          \/ Issue(r) \/ Resume(r) \/ HangUp(r) \/ Expire(r)
          \/ \E t \in Requests : Refresh(r, t) \/ Logout(r, t)
    BY <1>4
  <2>2. session[s] = s
    BY <2>1 DEF Issue, Resume, HangUp, Expire, Refresh, Logout
  <2>3. PICK p \in Requests : Explains(p, s)
    BY <2>2 DEF EndsForAReason
  <2>4. CASE Issue(r) \/ Resume(r) \/ HangUp(r) \/ Expire(r)
    <3>1. Explains(p, s)'
      BY <2>3, <2>4 DEF Issue, Resume, HangUp, Expire, Move, Explains, Bearer, TypeOK
    <3>2. QED
      BY <3>1
  <2>5. CASE \E t \in Requests : Refresh(r, t) \/ Logout(r, t)
    <3>1. p # r
      BY <2>2, <2>3, <2>5 DEF Refresh, Logout, Fresh, Explains, Bearer, StageInv, Outsiders
    <3>2. Explains(p, s)'
      BY <2>3, <2>5, <3>1 DEF Refresh, Logout, Move, Explains, Bearer, TypeOK
    <3>3. QED
      BY <3>2
  <2>6. QED
    BY <2>1, <2>4, <2>5
<1>5. CASE Crash
  <2>1. PICK p \in Requests : Explains(p, s)
    BY <1>5 DEF Crash, EndsForAReason
  <2>2. Explains(p, s)'
    BY <1>5, <2>1 DEF Crash, Explains, Bearer, TypeOK
  <2>3. QED
    BY <2>2
<1>6. CASE UNCHANGED vars
  BY <1>6 DEF vars, EndsForAReason, Explains, Bearer
<1>7. QED
  BY <1>1, <1>2, <1>3, <1>4, <1>5, <1>6 DEF Next, Handle

(* The strengthened invariant holds in every reachable state.              *)
THEOREM Invariance == Spec => []IInv
<1>1. Init => IInv
  BY SessionsAssumption DEF Init, IInv, TypeOK, StageInv, UsesInv, ChainInv, OneBearer,
     RedeemedOnce, LogoutEndsSession, EndsForAReason, Explains, Bearer, Requests, None, Stages,
     Outsiders
<1>2. IInv /\ [Next]_vars => IInv'
  BY TypeStep, StageStep, UsesStep, ChainStep, RedeemedStep, BearerStep, LogoutStep,
     EndsStep DEF IInv
<1>3. QED
  BY <1>1, <1>2, PTL DEF Spec

(* Type correctness for any number of requests.                            *)
THEOREM TypeCorrect == Spec => []TypeOK
<1>1. IInv => TypeOK
  BY DEF IInv
<1>2. QED
  BY Invariance, <1>1, PTL

(* At most one usable token per session, however many requests there are.  *)
THEOREM OneBearerAlways == Spec => []OneBearer
<1>1. IInv => OneBearer
  BY DEF IInv
<1>2. QED
  BY Invariance, <1>1, PTL

(* Each token has at most one successor.                                   *)
THEOREM RedeemedOnceAlways == Spec => []RedeemedOnce
<1>1. IInv => RedeemedOnce
  BY DEF IInv
<1>2. QED
  BY Invariance, <1>1, PTL

(* An effective logout leaves its session without a usable token for good. *)
THEOREM LogoutEndsSessionAlways == Spec => []LogoutEndsSession
<1>1. IInv => LogoutEndsSession
  BY DEF IInv
<1>2. QED
  BY Invariance, <1>1, PTL

(* No session ends without a logout, a hang-up or a crash.                 *)
THEOREM EndsForAReasonAlways == Spec => []EndsForAReason
<1>1. IInv => EndsForAReason
  BY DEF IInv
<1>2. QED
  BY Invariance, <1>1, PTL

(* The variables of the abstract specification, in terms of this one's.    *)
Right == [r \in Requests |-> IF Bearer(r) THEN session[r] ELSE None]
Used == {r \in Requests : session[r] # None}

(* Steps that leave every request's right and session alone are stutters.  *)
LEMMA Stutter ==
  ASSUME \A p \in Requests : session'[p] = session[p] /\ (Bearer(p)' <=> Bearer(p))
  PROVE  UNCHANGED <<Right, Used>>
  BY DEF Right, Used

(* Steps that take the right from some requests, and do no more, end       *)
(* sessions.                                                               *)
LEMMA Ending ==
  ASSUME NEW over \in SUBSET Requests,
         \A p \in Requests : session'[p] = session[p],
         \A p \in Requests : Bearer(p)' <=> Bearer(p) /\ p \notin over
  PROVE  Abstract!RotationNext
<1>1. Right' = [p \in Requests |-> IF p \in over THEN None ELSE Right[p]]
  BY DEF Right
<1>2. UNCHANGED Used
  BY DEF Used
<1>3. Abstract!End(over)
  BY <1>1, <1>2 DEF Abstract!End, Right, Used
<1>4. QED
  BY <1>3 DEF Abstract!RotationNext

(* Every step of Sessions is a step of Rotation or a stutter.              *)
LEMMA RotationStep ==
  ASSUME IInv, [Next]_vars
  PROVE  [Abstract!RotationNext]_<<Right, Used>>
<1> USE SessionsAssumption DEF IInv, TypeOK, StageInv, UsesInv, Requests, None, Stages, Outsiders
<1>1. ASSUME NEW r \in Requests, SignIn(r) PROVE Abstract!RotationNext
  <2>1. Right' = [Right EXCEPT ![r] = r]
    BY <1>1 DEF SignIn, Fresh, Move, Right, Bearer
  <2>2. r \notin Used /\ Used' = Used \cup {r}
    BY <1>1 DEF SignIn, Fresh, Move, Used
  <2>3. Abstract!Open(r)
    BY <2>1, <2>2 DEF Abstract!Open, Abstract!Turn, Right, Used
  <2>4. QED
    BY <2>3 DEF Abstract!RotationNext
<1>2. ASSUME NEW r \in Requests, Issue(r) PROVE UNCHANGED <<Right, Used>>
  <2>1. \A p \in Requests : session'[p] = session[p] /\ (Bearer(p)' <=> Bearer(p))
    BY <1>2 DEF Issue, Move, Bearer
  <2>2. QED
    BY <2>1, Stutter
<1>3. ASSUME NEW r \in Requests, NEW t \in Requests, Refresh(r, t) \/ Logout(r, t)
      PROVE  UNCHANGED <<Right, Used>>
  <2>1. \A p \in Requests : session'[p] = session[p] /\ (Bearer(p)' <=> Bearer(p))
    BY <1>3 DEF Refresh, Logout, Fresh, Move, Bearer
  <2>2. QED
    BY <2>1, Stutter
<1>4. ASSUME NEW r \in Requests, RefreshJob(r)
      PROVE  Abstract!RotationNext \/ UNCHANGED <<Right, Used>>
  <2>1. PICK t \in Requests :
          /\ t = uses[r] /\ stage[t] = "issued" /\ t # r
          /\ session[t] # None /\ session[r] = None
    BY <1>4 DEF RefreshJob
  <2>2. CASE tokens[t] = "valid" /\ t \notin expired /\ Redeem(r)
    <3>0. PICK to : to = IF stage[r] = "refreshing" THEN session[t] ELSE None
      OBVIOUS
    <3>1. Right[t] = session[t]
      BY <2>1, <2>2 DEF Right, Bearer
    <3>2. Right' = [Right EXCEPT ![t] = None, ![r] = to]
      <4>1. ASSUME NEW p \in Requests, p # t, p # r
            PROVE  session'[p] = session[p] /\ (Bearer(p)' <=> Bearer(p))
        BY <1>4, <2>1, <2>2, <4>1 DEF RefreshJob, Redeem, Move, Bearer
      <4>2. ~Bearer(t)'
        BY <1>4, <2>1, <2>2 DEF RefreshJob, Redeem, Move, Bearer
      <4>3. Bearer(r)' <=> stage[r] = "refreshing"
        BY <1>4, <2>1, <2>2 DEF RefreshJob, Redeem, Move, Bearer
      <4>4. session'[r] = session[t]
        BY <1>4, <2>1, <2>2 DEF Redeem
      <4>5. ASSUME NEW p \in Requests
            PROVE  Right'[p] = [Right EXCEPT ![t] = None, ![r] = to][p]
        <5>1. CASE p = t
          BY <2>1, <4>2, <5>1 DEF Right
        <5>2. CASE p = r
          BY <2>1, <3>0, <4>3, <4>4, <5>2 DEF Right
        <5>3. CASE p # t /\ p # r
          BY <2>1, <4>1, <5>3 DEF Right
        <5>4. QED
          BY <5>1, <5>2, <5>3
      <4>6. QED
        BY <4>5 DEF Right
    <3>3. r \notin Used /\ Used' = Used \cup {r}
      BY <2>1, <2>2 DEF Redeem, Used
    <3>4. to \in {Right[t], None}
      BY <3>0, <3>1
    <3>5. Abstract!PassOn(t, r)
      BY <2>1, <3>1, <3>2, <3>3, <3>4 DEF Abstract!PassOn, Abstract!Turn, Right, Used
    <3>6. \E q, p \in Requests : Abstract!PassOn(q, p)
      BY <2>1, <3>5, Zenon
    <3>7. QED
      BY <3>6 DEF Abstract!RotationNext
  <2>3. CASE Move(r, "refused") /\ UNCHANGED <<session, tokens>>
    <3>1. \A p \in Requests : session'[p] = session[p] /\ (Bearer(p)' <=> Bearer(p))
      BY <1>4, <2>3 DEF RefreshJob, Move, Bearer
    <3>2. QED
      BY <3>1, Stutter
  <2>4. QED
    BY <1>4, <2>1, <2>2, <2>3 DEF RefreshJob
<1>5. ASSUME NEW r \in Requests, Resume(r) PROVE UNCHANGED <<Right, Used>>
  <2>1. \A p \in Requests : session'[p] = session[p] /\ (Bearer(p)' <=> Bearer(p))
    BY <1>5 DEF Resume, Move, Bearer
  <2>2. QED
    BY <2>1, Stutter
<1>6. ASSUME NEW r \in Requests, LogoutJob(r) PROVE Abstract!RotationNext
  <2>1. uses[r] \in Requests /\ stage[uses[r]] = "issued" /\ uses[r] # r
    BY <1>6 DEF LogoutJob
  <2>2. \A p \in Requests : session'[p] = session[p]
    BY <1>6 DEF LogoutJob
  <2> DEFINE over == {uses[r]}
  <2>3. over \in SUBSET Requests
    BY <2>1
  <2>4. \A p \in Requests : Bearer(p)' <=> Bearer(p) /\ p \notin over
    BY <1>6, <2>1 DEF LogoutJob, Move, Bearer
  <2> HIDE DEF over
  <2>5. QED
    BY <2>2, <2>3, <2>4, Ending
<1>7. ASSUME NEW r \in Requests, HangUp(r)
      PROVE  Abstract!RotationNext \/ UNCHANGED <<Right, Used>>
  <2>1. \A p \in Requests : session'[p] = session[p]
    BY <1>7 DEF HangUp
  <2>2. CASE stage[r] = "redeemed" /\ Move(r, "broken")
    <3> DEFINE over == {r}
    <3>1. over \in SUBSET Requests
      OBVIOUS
    <3>2. \A p \in Requests : Bearer(p)' <=> Bearer(p) /\ p \notin over
      BY <1>7, <2>2 DEF HangUp, Move, Bearer
    <3> HIDE DEF over
    <3>3. QED
      BY <2>1, <3>1, <3>2, Ending
  <2>3. CASE \/ stage[r] = "refreshing" /\ Move(r, "deafRefreshing")
             \/ stage[r] = "issuing" /\ Move(r, "deafIssuing")
    <3>1. \A p \in Requests : Bearer(p)' <=> Bearer(p)
      BY <1>7, <2>3 DEF HangUp, Move, Bearer
    <3>2. QED
      BY <2>1, <3>1, Stutter
  <2>4. QED
    BY <1>7, <2>2, <2>3 DEF HangUp
<1>8. ASSUME NEW r \in Requests, Expire(r) PROVE UNCHANGED <<Right, Used>>
  BY <1>8 DEF Expire, Right, Used, Bearer
<1>9. ASSUME Crash PROVE Abstract!RotationNext
  <2> DEFINE over == {r \in Requests : stage[r] \in {"redeemed", "issuing", "deafIssuing"}}
  <2>1. over \in SUBSET Requests
    OBVIOUS
  <2>2. \A p \in Requests : session'[p] = session[p]
    BY <1>9 DEF Crash
  <2>3. \A p \in Requests : Bearer(p)' <=> Bearer(p) /\ p \notin over
    BY <1>9 DEF Crash, Bearer
  <2> HIDE DEF over
  <2>4. QED
    BY <2>1, <2>2, <2>3, Ending
<1>10. CASE UNCHANGED vars
  BY <1>10 DEF vars, Right, Used, Bearer
<1>11. QED
  BY <1>1, <1>2, <1>3, <1>4, <1>5, <1>6, <1>7, <1>8, <1>9, <1>10 DEF Next, Handle

(* For any number of requests, sessions implement rotation.                *)
THEOREM SessionsImplementRotation == Spec => ImplementsRotation
<1>1. Init => Abstract!RotationInit
  BY DEF Init, Abstract!RotationInit, Bearer, None
<1>2. IInv /\ [Next]_vars => [Abstract!RotationNext]_<<Right, Used>>
  BY RotationStep
<1>3. QED
  BY <1>1, <1>2, Invariance, PTL DEF Spec, ImplementsRotation, Abstract!RotationSpec, Right, Used
=============================================================================
