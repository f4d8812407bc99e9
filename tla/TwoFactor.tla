------------------------------ MODULE TwoFactor ------------------------------
(***************************************************************************)
(* One user's second factor (src/src/api/totp.rs) and the sign-ins that    *)
(* depend on it (login and verify_2fa of src/src/api/auth.rs).             *)
(*                                                                         *)
(* enable, confirm, disable and verify_2fa read the user's row through the *)
(* read pool, check a code or a password, and only then post a job to the  *)
(* writer; requests of several devices interleave between the read and     *)
(* the write. A secret, and its batch of backup codes, is named by the     *)
(* enable request that generated it. Deriving a code from a secret is not  *)
(* modelled: a code is the secret it was derived from, and a code that is  *)
(* wrong, or out of its time window, is BadCode.                           *)
(***************************************************************************)
EXTENDS Naturals

CONSTANTS
  NCalls,    (* bound on requests, numbered in the order they start        *)
  BackupIds  (* the backup codes of one batch                              *)

ASSUME TwoFactorAssumption == NCalls \in Nat

Calls == 1..NCalls
NoSecret == 0
BadCode == [kind |-> "bad"]
Totp(s) == [kind |-> "totp", secret |-> s]
Backup(s, i) == [kind |-> "backup", batch |-> s, id |-> i]
Batch(s) == {Backup(s, i) : i \in BackupIds}
BackupCodes == UNION {Batch(s) : s \in Calls}
Codes == {BadCode} \cup {Totp(s) : s \in Calls} \cup BackupCodes

VARIABLES
  step,      (* where each request is                                      *)
  code,      (* the code each request carries                              *)
  seen,      (* totp_secret as the request read it                         *)
  secret,    (* users.totp_secret                                          *)
  enabled,   (* users.totp_enabled                                         *)
  verified,  (* users.totp_verified_at is set                              *)
  unused,    (* rows of user_backup_codes with used_at NULL                *)
  used,      (* rows with used_at set                                      *)
  given,     (* secrets that an enable response has handed to the user     *)
  proven,    (* history: secrets of which confirm has checked a code       *)
  confirmer, (* history: the confirm that last wrote totp_enabled          *)
  accepted   (* history: for each request, the backup code it passed with  *)

factor == <<secret, enabled, verified, unused, used>>
history == <<given, proven, confirmer, accepted>>
vars == <<step, code, seen, factor, history>>

Steps == {"idle", "enabling", "confirming", "authenticating", "checking",
          "consuming", "clearing", "pending", "verifying", "spending",
          "passed", "refused", "failed", "done", "cut"}

TypeOK ==
  /\ step \in [Calls -> Steps]
  /\ code \in [Calls -> Codes]
  /\ seen \in [Calls -> Calls \cup {NoSecret}]
  /\ secret \in Calls \cup {NoSecret}
  /\ enabled \in BOOLEAN /\ verified \in BOOLEAN
  /\ unused \subseteq BackupCodes /\ used \subseteq BackupCodes
  /\ verified = enabled /\ unused \cap used = {}
  /\ given \subseteq Calls /\ proven \subseteq Calls
  /\ confirmer \in Calls \cup {NoSecret}
  /\ accepted \in [Calls -> Codes]

Init ==
  /\ step = [c \in Calls |-> "idle"]
  /\ code = [c \in Calls |-> BadCode]
  /\ seen = [c \in Calls |-> NoSecret]
  /\ secret = NoSecret /\ enabled = FALSE /\ verified = FALSE
  /\ unused = {} /\ used = {}
  /\ given = {} /\ proven = {} /\ confirmer = NoSecret
  /\ accepted = [c \in Calls |-> BadCode]

Go(c, to) == step' = [step EXCEPT ![c] = to]
Fresh(c) == step[c] = "idle" /\ \A b \in 1..(c-1) : step[b] # "idle"

(* What a user can send: a code of a secret, or a backup code, that an     *)
(* enable response gave out, or something that matches nothing.            *)
Sendable == {BadCode} \cup {Totp(s) : s \in given} \cup UNION {Batch(s) : s \in given}

-----------------------------------------------------------------------------
(* enable                                                                  *)

Enable(c) ==
  /\ Fresh(c)
  /\ Go(c, "enabling")
  /\ UNCHANGED <<code, seen, factor, history>>

(* A plausible slip: the previous batch of backup codes is left in place.  *)
EnableJobKeepingCodes(c) ==
  /\ step[c] = "enabling"
  /\ secret' = c /\ enabled' = FALSE /\ verified' = FALSE
  /\ unused' = unused \cup Batch(c) /\ UNCHANGED used
  /\ given' = given \cup {c}
  /\ Go(c, "done")
  /\ UNCHANGED <<code, seen, proven, confirmer, accepted>>

(* A plausible slip: totp_verified_at is not reset.                        *)
EnableJobStillVerified(c) ==
  /\ step[c] = "enabling"
  /\ secret' = c /\ enabled' = FALSE /\ UNCHANGED verified
  /\ unused' = Batch(c) /\ used' = {}
  /\ given' = given \cup {c}
  /\ Go(c, "done")
  /\ UNCHANGED <<code, seen, proven, confirmer, accepted>>

(* One transaction: a new secret, not enabled, and a new batch of codes.   *)
EnableJob(c) ==
  /\ step[c] = "enabling"
  /\ secret' = c /\ enabled' = FALSE /\ verified' = FALSE
  /\ unused' = Batch(c) /\ used' = {}
  /\ given' = given \cup {c}
  /\ Go(c, "done")
  /\ UNCHANGED <<code, seen, proven, confirmer, accepted>>

-----------------------------------------------------------------------------
(* confirm                                                                 *)

(* A plausible slip: any code is taken for a proof of possession.          *)
ConfirmUnchecked(c) ==
  /\ Fresh(c)
  /\ \E k \in Sendable : code' = [code EXCEPT ![c] = k]
  /\ seen' = [seen EXCEPT ![c] = secret]
  /\ Go(c, IF secret = NoSecret THEN "refused"
           ELSE IF enabled THEN "done" ELSE "confirming")
  /\ UNCHANGED <<factor, history>>

(* Reads the row and checks the code against the secret it read.           *)
Confirm(c) ==
  /\ Fresh(c)
  /\ \E k \in Sendable :
       /\ code' = [code EXCEPT ![c] = k]
       /\ Go(c, IF secret = NoSecret THEN "refused"
                ELSE IF enabled THEN "done"
                ELSE IF k = Totp(secret) THEN "confirming" ELSE "refused")
       /\ proven' = IF secret # NoSecret /\ ~enabled /\ k = Totp(secret)
                    THEN proven \cup {secret} ELSE proven
  /\ seen' = [seen EXCEPT ![c] = secret]
  /\ UNCHANGED <<factor, given, confirmer, accepted>>

(* The UPDATE sets totp_enabled whatever the row holds by now.             *)
ConfirmJob(c) ==
  /\ step[c] = "confirming"
  /\ enabled' = TRUE /\ verified' = TRUE
  /\ confirmer' = c
  /\ Go(c, "done")
  /\ UNCHANGED <<code, seen, secret, unused, used, given, proven, accepted>>

-----------------------------------------------------------------------------
(* disable                                                                 *)

(* Reads totp_enabled, then verifies the password on a blocking thread.    *)
Disable(c) ==
  /\ Fresh(c)
  /\ \E k \in Sendable : code' = [code EXCEPT ![c] = k]
  /\ Go(c, IF enabled THEN "authenticating" ELSE "refused")
  /\ UNCHANGED <<seen, factor, history>>

(* With the password verified, reads the secret and checks the code. The   *)
(* query fails on a NULL secret.                                           *)
DisableCheck(c) ==
  /\ step[c] = "authenticating"
  /\ \/ Go(c, IF secret = NoSecret THEN "failed"
              ELSE IF code[c] = Totp(secret) THEN "clearing" ELSE "consuming")
     \/ Go(c, "refused")
  /\ seen' = [seen EXCEPT ![c] = secret]
  /\ UNCHANGED <<code, factor, history>>

(* One transaction: clears the factor and deletes its backup codes.        *)
DisableJob(c) ==
  /\ step[c] = "clearing"
  /\ secret' = NoSecret /\ enabled' = FALSE /\ verified' = FALSE
  /\ unused' = {} /\ used' = {}
  /\ Go(c, "done")
  /\ UNCHANGED <<code, seen, history>>

-----------------------------------------------------------------------------
(* login and verify_2fa                                                    *)

(* With valid credentials: a session at once, or a pending token.          *)
Login(c) ==
  /\ Fresh(c)
  /\ Go(c, IF enabled THEN "pending" ELSE "passed")
  /\ UNCHANGED <<code, seen, factor, history>>

(* verify_factor reads the row and tries the TOTP code, then the backup    *)
(* codes. A pending token may be presented more than once until it expires.*)
Verify2fa(c) ==
  /\ Fresh(c)
  /\ \E b \in Calls : step[b] = "pending"
  /\ \E k \in Sendable :
       /\ code' = [code EXCEPT ![c] = k]
       /\ Go(c, IF ~enabled THEN "refused"
                ELSE IF secret = NoSecret THEN "failed"
                ELSE IF k = Totp(secret) THEN "passed" ELSE "spending")
  /\ seen' = [seen EXCEPT ![c] = secret]
  /\ UNCHANGED <<factor, history>>

Consumer(c, success) ==
  Go(c, IF ~success THEN "refused"
        ELSE IF step[c] = "consuming" THEN "clearing" ELSE "passed")

(* A plausible slip: the row is found by its hash alone, used or not.      *)
ConsumeBackupAgain(c) ==
  /\ step[c] \in {"consuming", "spending"}
  /\ unused' = unused \ {code[c]}
  /\ used' = IF code[c] \in unused THEN used \cup {code[c]} ELSE used
  /\ accepted' = IF code[c] \in unused \cup used
                 THEN [accepted EXCEPT ![c] = code[c]] ELSE accepted
  /\ Consumer(c, code[c] \in unused \cup used)
  /\ UNCHANGED <<code, seen, secret, enabled, verified, given, proven, confirmer>>

(* consume_backup: one UPDATE sets used_at where it is NULL.               *)
ConsumeBackup(c) ==
  /\ step[c] \in {"consuming", "spending"}
  /\ unused' = unused \ {code[c]}
  /\ used' = IF code[c] \in unused THEN used \cup {code[c]} ELSE used
  /\ accepted' = IF code[c] \in unused THEN [accepted EXCEPT ![c] = code[c]] ELSE accepted
  /\ Consumer(c, code[c] \in unused)
  /\ UNCHANGED <<code, seen, secret, enabled, verified, given, proven, confirmer>>

-----------------------------------------------------------------------------
(* A crash, or a client hanging up before its handler's next job is posted. *)
Cut(c) ==
  /\ step[c] \in {"enabling", "confirming", "authenticating", "consuming",
                  "clearing", "spending", "passed"}
  /\ Go(c, "cut")
  /\ UNCHANGED <<code, seen, factor, history>>

Start(c) == Enable(c) \/ Confirm(c) \/ Disable(c) \/ Login(c) \/ Verify2fa(c)
Continue(c) == EnableJob(c) \/ ConfirmJob(c) \/ DisableCheck(c) \/ DisableJob(c)
                 \/ ConsumeBackup(c)

Next == \E c \in Calls : Start(c) \/ Continue(c) \/ Cut(c)

Spec == Init /\ [][Next]_vars

-----------------------------------------------------------------------------
(* Properties.                                                             *)

(* "Backup codes are single-use" (totp.rs): a code passes at most one      *)
(* request, whatever requests race for it.                                 *)
BackupSingleUse ==
  \A b, c \in Calls : accepted[b] = accepted[c] /\ accepted[b] # BadCode => b = c

(* The backup codes on file are always those issued with the current       *)
(* secret, none of an earlier enrolment, and there are none without one.   *)
CodesOfCurrentSecret ==
  unused \cup used \subseteq IF secret = NoSecret THEN {} ELSE Batch(secret)

(* A secret of which nobody has proven possession is on only when the      *)
(* confirm that turned it on had checked another one: unless the secret    *)
(* changes between confirm's read and its write, nobody is locked out.     *)
LockoutNeedsRace ==
  enabled /\ seen[confirmer] = secret => secret \in proven

(* totp.rs: "totp_enabled stays 0 until the user proves possession of a    *)
(* valid code": whenever the factor is on, its secret has been proven.     *)
EnabledMeansProven == enabled => secret \in proven
=============================================================================
