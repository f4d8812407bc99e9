--------------------------- MODULE TwoFactor_proofs ---------------------------
(***************************************************************************)
(* For any number of requests and any set of backup codes: the invariants  *)
(* of TwoFactor and the strengthening that makes them inductive.           *)
(***************************************************************************)
EXTENDS TwoFactor, TLAPS

(* A secret was given out by a request that is done, and the current one   *)
(* was given out.                                                          *)
GivenInv ==
  /\ \A s \in given : step[s] = "done"
  /\ secret \in given \cup {NoSecret}

(* A confirm that is about to write, and the one that wrote last, had a    *)
(* code of the secret they read.                                           *)
ConfirmInv ==
  /\ \A c \in Calls : step[c] = "confirming" => seen[c] \in proven
  /\ confirmer # NoSecret => step[confirmer] = "done"
  /\ enabled => confirmer # NoSecret /\ seen[confirmer] \in proven

(* A backup code that has passed a request is of a batch that was given    *)
(* out, and is not unused.                                                 *)
SpentInv ==
  \A c \in Calls : accepted[c] # BadCode =>
    /\ accepted[c] \notin unused
    /\ \E s \in given : accepted[c] \in Batch(s)

IInv == /\ TypeOK /\ GivenInv /\ ConfirmInv /\ SpentInv
        /\ BackupSingleUse /\ CodesOfCurrentSecret

(* Batches of different secrets share no code, and no code of a batch is   *)
(* the wrong code.                                                         *)
LEMMA Batches ==
  /\ \A s, t : s # t => Batch(s) \cap Batch(t) = {}
  /\ \A s : BadCode \notin Batch(s)
  /\ \A s \in Calls : Batch(s) \subseteq BackupCodes
  /\ BackupCodes \subseteq Codes /\ BadCode \in Codes
  /\ \A s \in Calls : Totp(s) \in Codes
  /\ \A s, t : Totp(s) \notin Batch(t)
<1>1. \A s, t, i, j : Backup(s, i) = Backup(t, j) => s = t
  BY DEF Backup
<1>2. \A s, i : Backup(s, i) # BadCode
  <2> SUFFICES ASSUME NEW s, NEW i, Backup(s, i) = BadCode PROVE FALSE
    OBVIOUS
  <2>1. Backup(s, i).kind = "backup" /\ BadCode.kind = "bad"
    BY DEF Backup, BadCode
  <2>2. QED
    BY <2>1
<1>3. \A s, t, i : Backup(s, i) # Totp(t)
  <2> SUFFICES ASSUME NEW s, NEW t, NEW i, Backup(s, i) = Totp(t) PROVE FALSE
    OBVIOUS
  <2>1. Backup(s, i).kind = "backup" /\ Totp(t).kind = "totp"
    BY DEF Backup, Totp
  <2>2. QED
    BY <2>1
<1>4. QED
  BY <1>1, <1>2, <1>3 DEF Batch, BackupCodes, Codes

(* What a user can send is a code.                                         *)
LEMMA SendableCodes ==
  ASSUME TypeOK
  PROVE  Sendable \subseteq Codes
BY Batches DEF TypeOK, Sendable, Codes, BackupCodes

(* Every step keeps the variables in their types.                          *)
LEMMA TypeStep ==
  ASSUME TypeOK, CodesOfCurrentSecret, [Next]_vars
  PROVE  TypeOK'
<1>0. USE TwoFactorAssumption, Batches, SendableCodes
      DEF TypeOK, Calls, NoSecret, Steps, Go, factor, history
<1>1. ASSUME NEW c \in Calls, Enable(c) PROVE TypeOK'
  BY <1>1 DEF Enable
<1>2. ASSUME NEW c \in Calls, EnableJob(c) PROVE TypeOK'
  BY <1>2 DEF EnableJob
<1>3. ASSUME NEW c \in Calls, Confirm(c) PROVE TypeOK'
  BY <1>3 DEF Confirm
<1>4. ASSUME NEW c \in Calls, ConfirmJob(c) PROVE TypeOK'
  BY <1>4 DEF ConfirmJob
<1>5. ASSUME NEW c \in Calls, Disable(c) PROVE TypeOK'
  BY <1>5 DEF Disable
<1>6. ASSUME NEW c \in Calls, DisableCheck(c) PROVE TypeOK'
  BY <1>6 DEF DisableCheck
<1>7. ASSUME NEW c \in Calls, DisableJob(c) PROVE TypeOK'
  BY <1>7 DEF DisableJob
<1>8. ASSUME NEW c \in Calls, Login(c) PROVE TypeOK'
  BY <1>8 DEF Login
<1>9. ASSUME NEW c \in Calls, Verify2fa(c) PROVE TypeOK'
  BY <1>9 DEF Verify2fa
<1>10. ASSUME NEW c \in Calls, ConsumeBackup(c) PROVE TypeOK'
  BY <1>10 DEF ConsumeBackup, Consumer
<1>11. ASSUME NEW c \in Calls, Cut(c) PROVE TypeOK'
  BY <1>11 DEF Cut
<1>12. CASE UNCHANGED vars
  BY <1>12 DEF vars
<1>13. QED
  BY <1>1, <1>2, <1>3, <1>4, <1>5, <1>6, <1>7, <1>8, <1>9, <1>10, <1>11, <1>12
     DEF Next, Start, Continue

(* Secrets stay given out, and the current one is one of them.             *)
LEMMA GivenStep ==
  ASSUME TypeOK, GivenInv, [Next]_vars
  PROVE  GivenInv'
<1>0. USE TwoFactorAssumption
      DEF TypeOK, GivenInv, Calls, NoSecret, Go, Fresh, factor, history
<1>1. ASSUME NEW c \in Calls, Enable(c) PROVE GivenInv'
  BY <1>1 DEF Enable
<1>2. ASSUME NEW c \in Calls, EnableJob(c) PROVE GivenInv'
  BY <1>2 DEF EnableJob
<1>3. ASSUME NEW c \in Calls, Confirm(c) PROVE GivenInv'
  BY <1>3 DEF Confirm
<1>4. ASSUME NEW c \in Calls, ConfirmJob(c) PROVE GivenInv'
  BY <1>4 DEF ConfirmJob
<1>5. ASSUME NEW c \in Calls, Disable(c) PROVE GivenInv'
  BY <1>5 DEF Disable
<1>6. ASSUME NEW c \in Calls, DisableCheck(c) PROVE GivenInv'
  BY <1>6 DEF DisableCheck
<1>7. ASSUME NEW c \in Calls, DisableJob(c) PROVE GivenInv'
  BY <1>7 DEF DisableJob
<1>8. ASSUME NEW c \in Calls, Login(c) PROVE GivenInv'
  BY <1>8 DEF Login
<1>9. ASSUME NEW c \in Calls, Verify2fa(c) PROVE GivenInv'
  BY <1>9 DEF Verify2fa
<1>10. ASSUME NEW c \in Calls, ConsumeBackup(c) PROVE GivenInv'
  BY <1>10 DEF ConsumeBackup, Consumer
<1>11. ASSUME NEW c \in Calls, Cut(c) PROVE GivenInv'
  BY <1>11 DEF Cut
<1>12. CASE UNCHANGED vars
  BY <1>12 DEF vars
<1>13. QED
  BY <1>1, <1>2, <1>3, <1>4, <1>5, <1>6, <1>7, <1>8, <1>9, <1>10, <1>11, <1>12
     DEF Next, Start, Continue

(* A request that is done stays done, and keeps the secret it has seen.    *)
LEMMA ConfirmStep ==
  ASSUME TypeOK, GivenInv, ConfirmInv, [Next]_vars
  PROVE  ConfirmInv'
<1>0. USE TwoFactorAssumption
      DEF TypeOK, GivenInv, ConfirmInv, Calls, NoSecret, Go, Fresh, factor, history
<1>1. ASSUME NEW c \in Calls, Enable(c) PROVE ConfirmInv'
  BY <1>1 DEF Enable
<1>2. ASSUME NEW c \in Calls, EnableJob(c) PROVE ConfirmInv'
  BY <1>2 DEF EnableJob
<1>3. ASSUME NEW c \in Calls, Confirm(c) PROVE ConfirmInv'
  BY <1>3 DEF Confirm
<1>4. ASSUME NEW c \in Calls, ConfirmJob(c) PROVE ConfirmInv'
  BY <1>4 DEF ConfirmJob
<1>5. ASSUME NEW c \in Calls, Disable(c) PROVE ConfirmInv'
  BY <1>5 DEF Disable
<1>6. ASSUME NEW c \in Calls, DisableCheck(c) PROVE ConfirmInv'
  BY <1>6 DEF DisableCheck
<1>7. ASSUME NEW c \in Calls, DisableJob(c) PROVE ConfirmInv'
  BY <1>7 DEF DisableJob
<1>8. ASSUME NEW c \in Calls, Login(c) PROVE ConfirmInv'
  BY <1>8 DEF Login
<1>9. ASSUME NEW c \in Calls, Verify2fa(c) PROVE ConfirmInv'
  BY <1>9 DEF Verify2fa
<1>10. ASSUME NEW c \in Calls, ConsumeBackup(c) PROVE ConfirmInv'
  BY <1>10 DEF ConsumeBackup, Consumer
<1>11. ASSUME NEW c \in Calls, Cut(c) PROVE ConfirmInv'
  BY <1>11 DEF Cut
<1>12. CASE UNCHANGED vars
  BY <1>12 DEF vars
<1>13. QED
  BY <1>1, <1>2, <1>3, <1>4, <1>5, <1>6, <1>7, <1>8, <1>9, <1>10, <1>11, <1>12
     DEF Next, Start, Continue

(* The codes on file stay those of the current secret.                     *)
LEMMA CodesStep ==
  ASSUME TypeOK, CodesOfCurrentSecret, [Next]_vars
  PROVE  CodesOfCurrentSecret'
<1>0. USE TwoFactorAssumption
      DEF TypeOK, CodesOfCurrentSecret, Calls, NoSecret, Go, factor, history
<1>1. ASSUME NEW c \in Calls, Enable(c) PROVE CodesOfCurrentSecret'
  BY <1>1 DEF Enable
<1>2. ASSUME NEW c \in Calls, EnableJob(c) PROVE CodesOfCurrentSecret'
  BY <1>2 DEF EnableJob
<1>3. ASSUME NEW c \in Calls, Confirm(c) PROVE CodesOfCurrentSecret'
  BY <1>3 DEF Confirm
<1>4. ASSUME NEW c \in Calls, ConfirmJob(c) PROVE CodesOfCurrentSecret'
  BY <1>4 DEF ConfirmJob
<1>5. ASSUME NEW c \in Calls, Disable(c) PROVE CodesOfCurrentSecret'
  BY <1>5 DEF Disable
<1>6. ASSUME NEW c \in Calls, DisableCheck(c) PROVE CodesOfCurrentSecret'
  BY <1>6 DEF DisableCheck
<1>7. ASSUME NEW c \in Calls, DisableJob(c) PROVE CodesOfCurrentSecret'
  BY <1>7 DEF DisableJob
<1>8. ASSUME NEW c \in Calls, Login(c) PROVE CodesOfCurrentSecret'
  BY <1>8 DEF Login
<1>9. ASSUME NEW c \in Calls, Verify2fa(c) PROVE CodesOfCurrentSecret'
  BY <1>9 DEF Verify2fa
<1>10. ASSUME NEW c \in Calls, ConsumeBackup(c) PROVE CodesOfCurrentSecret'
  BY <1>10 DEF ConsumeBackup, Consumer
<1>11. ASSUME NEW c \in Calls, Cut(c) PROVE CodesOfCurrentSecret'
  BY <1>11 DEF Cut
<1>12. CASE UNCHANGED vars
  BY <1>12 DEF vars
<1>13. QED
  BY <1>1, <1>2, <1>3, <1>4, <1>5, <1>6, <1>7, <1>8, <1>9, <1>10, <1>11, <1>12
     DEF Next, Start, Continue

(* A code that has passed never becomes unused again: a new batch is that  *)
(* of a secret which was not given out before.                             *)
LEMMA SpentStep ==
  ASSUME TypeOK, GivenInv, SpentInv, CodesOfCurrentSecret, [Next]_vars
  PROVE  SpentInv'
<1>0. USE TwoFactorAssumption, Batches
      DEF TypeOK, GivenInv, SpentInv, Calls, NoSecret, Go, factor, history
<1>1. ASSUME NEW c \in Calls, Enable(c) PROVE SpentInv'
  BY <1>1 DEF Enable
<1>2. ASSUME NEW c \in Calls, EnableJob(c) PROVE SpentInv'
  BY <1>2 DEF EnableJob
<1>3. ASSUME NEW c \in Calls, Confirm(c) PROVE SpentInv'
  BY <1>3 DEF Confirm
<1>4. ASSUME NEW c \in Calls, ConfirmJob(c) PROVE SpentInv'
  BY <1>4 DEF ConfirmJob
<1>5. ASSUME NEW c \in Calls, Disable(c) PROVE SpentInv'
  BY <1>5 DEF Disable
<1>6. ASSUME NEW c \in Calls, DisableCheck(c) PROVE SpentInv'
  BY <1>6 DEF DisableCheck
<1>7. ASSUME NEW c \in Calls, DisableJob(c) PROVE SpentInv'
  BY <1>7 DEF DisableJob
<1>8. ASSUME NEW c \in Calls, Login(c) PROVE SpentInv'
  BY <1>8 DEF Login
<1>9. ASSUME NEW c \in Calls, Verify2fa(c) PROVE SpentInv'
  BY <1>9 DEF Verify2fa
<1>10. ASSUME NEW c \in Calls, ConsumeBackup(c) PROVE SpentInv'
  BY <1>10 DEF ConsumeBackup, Consumer, CodesOfCurrentSecret
<1>11. ASSUME NEW c \in Calls, Cut(c) PROVE SpentInv'
  BY <1>11 DEF Cut
<1>12. CASE UNCHANGED vars
  BY <1>12 DEF vars
<1>13. QED
  BY <1>1, <1>2, <1>3, <1>4, <1>5, <1>6, <1>7, <1>8, <1>9, <1>10, <1>11, <1>12
     DEF Next, Start, Continue

(* A code that passes was unused, and so had not passed before.            *)
LEMMA SingleUseStep ==
  ASSUME TypeOK, SpentInv, BackupSingleUse, [Next]_vars
  PROVE  BackupSingleUse'
<1>0. USE TwoFactorAssumption
      DEF TypeOK, SpentInv, BackupSingleUse, Calls, NoSecret, factor, history
<1>1. ASSUME NEW c \in Calls, Enable(c) PROVE BackupSingleUse'
  BY <1>1 DEF Enable
<1>2. ASSUME NEW c \in Calls, EnableJob(c) PROVE BackupSingleUse'
  BY <1>2 DEF EnableJob
<1>3. ASSUME NEW c \in Calls, Confirm(c) PROVE BackupSingleUse'
  BY <1>3 DEF Confirm
<1>4. ASSUME NEW c \in Calls, ConfirmJob(c) PROVE BackupSingleUse'
  BY <1>4 DEF ConfirmJob
<1>5. ASSUME NEW c \in Calls, Disable(c) PROVE BackupSingleUse'
  BY <1>5 DEF Disable
<1>6. ASSUME NEW c \in Calls, DisableCheck(c) PROVE BackupSingleUse'
  BY <1>6 DEF DisableCheck
<1>7. ASSUME NEW c \in Calls, DisableJob(c) PROVE BackupSingleUse'
  BY <1>7 DEF DisableJob
<1>8. ASSUME NEW c \in Calls, Login(c) PROVE BackupSingleUse'
  BY <1>8 DEF Login
<1>9. ASSUME NEW c \in Calls, Verify2fa(c) PROVE BackupSingleUse'
  BY <1>9 DEF Verify2fa
<1>10. ASSUME NEW c \in Calls, ConsumeBackup(c) PROVE BackupSingleUse'
  BY <1>10 DEF ConsumeBackup, Consumer, Go
<1>11. ASSUME NEW c \in Calls, Cut(c) PROVE BackupSingleUse'
  BY <1>11 DEF Cut
<1>12. CASE UNCHANGED vars
  BY <1>12 DEF vars
<1>13. QED
  BY <1>1, <1>2, <1>3, <1>4, <1>5, <1>6, <1>7, <1>8, <1>9, <1>10, <1>11, <1>12
     DEF Next, Start, Continue

(* The conjunction is an invariant.                                        *)
THEOREM Invariance == Spec => []IInv
<1>1. Init => IInv
  <2> SUFFICES ASSUME Init PROVE IInv
    OBVIOUS
  <2>1. TypeOK
    BY TwoFactorAssumption, Batches DEF Init, TypeOK, Calls, NoSecret, Steps
  <2>2. GivenInv /\ ConfirmInv /\ SpentInv /\ BackupSingleUse /\ CodesOfCurrentSecret
    BY DEF Init, GivenInv, ConfirmInv, SpentInv, BackupSingleUse, CodesOfCurrentSecret
  <2>3. QED
    BY <2>1, <2>2 DEF IInv
<1>2. IInv /\ [Next]_vars => IInv'
  BY TypeStep, GivenStep, ConfirmStep, CodesStep, SpentStep, SingleUseStep DEF IInv
<1>3. QED
  BY <1>1, <1>2, PTL DEF Spec

(* The types, for every number of requests.                                *)
THEOREM TypeCorrect == Spec => []TypeOK
BY Invariance, PTL DEF IInv

(* "Backup codes are single-use" (totp.rs): whatever requests race for a   *)
(* code, it passes at most one.                                            *)
THEOREM BackupSingleUseAlways == Spec => []BackupSingleUse
BY Invariance, PTL DEF IInv

(* The codes on file, used or not, are those of the current secret.        *)
THEOREM CodesOfCurrentSecretAlways == Spec => []CodesOfCurrentSecret
BY Invariance, PTL DEF IInv

(* A factor that nobody has proven is on only after an enable came between *)
(* the read and the write of a confirm.                                    *)
THEOREM LockoutNeedsRaceAlways == Spec => []LockoutNeedsRace
<1>1. IInv => LockoutNeedsRace
  BY DEF IInv, ConfirmInv, LockoutNeedsRace
<1>2. QED
  BY Invariance, <1>1, PTL
=============================================================================
