-------------------------------- MODULE Mfa --------------------------------
(***************************************************************************)
(* TOTP and backup codes of one user (src/src/auth/mfa.ts): enrolment,     *)
(* verification at login, replay marker, single-use codes.                 *)
(*                                                                         *)
(* Every function is a read followed by separate, unconditional writes.    *)
(* A TOTP code is its secret and its time step; the codes of a backup set  *)
(* are alike, so one code stands for its set.  Codes that match nothing    *)
(* change nothing and are left out.                                        *)
(***************************************************************************)
EXTENDS Integers

CONSTANTS
    Calls,      \* concurrent calls
    MaxTime,    \* bound: the time step, which starts at 2
    MaxSecrets, \* bound: enrolments, and sets of backup codes
    MaxCalls    \* bound: calls in all

Steps == 1 .. MaxTime + 1
Secrets == 1 .. MaxSecrets
Sets == 1 .. MaxSecrets

Totp == [secret : Secrets, step : Steps]
Backup == [set : Sets]

Idle == [phase |-> "idle"]
Verifying == {"delete", "insert", "enable"}

VARIABLES
    secret,   \* users.mfa_secret: number of the enrolment, 0 for none
    enabled,  \* users.mfa_enabled
    lastStep, \* users.mfa_last_step, 0 for NULL
    unused,   \* sets in mfa_backup_codes with an unused code
    issued,   \* sets of backup codes issued
    now,      \* currentStep()
    begun,    \* calls begun (bounded by MaxCalls)
    call,     \* call[c]: what call c is doing
    accepted, \* history: codes that have let somebody in
    verified, \* history: secrets one of whose codes was verified
    raced,    \* history: secrets set while a verification was under way
    reopened  \* history: secrets whose replay marker was moved back

codes == <<secret, enabled, lastStep, unused, issued>>
history == <<accepted, verified, raced, reopened>>
mfaVars == <<codes, now, begun, call, history>>

MfaInit ==
    /\ secret = 0
    /\ enabled = FALSE
    /\ lastStep = 0
    /\ unused = {}
    /\ issued = 0
    /\ now = 2
    /\ begun = 0
    /\ call = [c \in Calls |-> Idle]
    /\ accepted = {}
    /\ verified = {}
    /\ raced = {}
    /\ reopened = {}

Begin == begun < MaxCalls /\ begun' = begun + 1

Start(c, work) ==
    /\ Begin
    /\ call[c] = Idle
    /\ call' = [call EXCEPT ![c] = work]
    /\ UNCHANGED <<codes, now, history>>

In(c, phase) == call[c].phase = phase

Advance(c, phase) ==
    /\ call' = [call EXCEPT ![c] = IF phase = "idle" THEN Idle ELSE [@ EXCEPT !.phase = phase]]
    /\ UNCHANGED <<begun, now>>

\* matchStep, with its tolerance of one step.
matchStep(step) == secret # 0 /\ step \in (now - 1) .. (now + 1)

\* UPDATE users SET mfa_last_step: unconditional.
SetLastStep(step) ==
    /\ lastStep' = step
    /\ reopened' = IF step < lastStep THEN reopened \cup {secret} ELSE reopened

-----------------------------------------------------------------------------
(* Enrolment *)

\* Mutant: enrolling again leaves the second factor on.
EnrollKeepingEnabled ==
    /\ Begin
    /\ secret < MaxSecrets /\ secret' = secret + 1
    /\ lastStep' = 0
    /\ raced' = IF \E c \in Calls : call[c].phase \in Verifying
                  THEN raced \cup {secret'} ELSE raced
    /\ UNCHANGED <<enabled, unused, issued, now, call, accepted, verified, reopened>>

\* beginEnrollment: one UPDATE.
beginEnrollment ==
    /\ Begin
    /\ secret < MaxSecrets /\ secret' = secret + 1
    /\ enabled' = FALSE
    /\ lastStep' = 0
    /\ raced' = IF \E c \in Calls : call[c].phase \in Verifying
                  THEN raced \cup {secret'} ELSE raced
    /\ UNCHANGED <<unused, issued, now, call, accepted, verified, reopened>>

\* verifyAndEnable: the user is read and the code matched.
BeginVerify(c, step) ==
    /\ matchStep(step)
    /\ Start(c, [phase |-> "delete", secret |-> secret, step |-> step])

\* regenerateBackupCodes: DELETE, hash new codes, INSERT.
DeleteCodes(c) ==
    /\ In(c, "delete")
    /\ unused' = {}
    /\ Advance(c, "insert")
    /\ UNCHANGED <<secret, enabled, lastStep, issued, history>>

InsertCodes(c) ==
    /\ In(c, "insert")
    /\ issued < MaxSecrets /\ issued' = issued + 1
    /\ unused' = unused \cup {issued'}
    /\ Advance(c, "enable")
    /\ UNCHANGED <<secret, enabled, lastStep, history>>

\* The last UPDATE of verifyAndEnable, whatever secret is there by now.
Enable(c) ==
    /\ In(c, "enable")
    /\ enabled' = TRUE
    /\ SetLastStep(call[c].step)
    /\ verified' = verified \cup {call[c].secret}
    /\ Advance(c, "idle")
    /\ UNCHANGED <<secret, unused, issued, accepted, raced>>

-----------------------------------------------------------------------------
(* Login *)

\* Mutant: the replay check lets the same step pass.
BeginTotpAgain(c, step) ==
    /\ enabled /\ matchStep(step)
    /\ lastStep = 0 \/ step >= lastStep
    /\ LET code == [secret |-> secret, step |-> step]
       IN  Start(c, [phase |-> "totp", code |-> code, again |-> code \in accepted])

\* verifyTotp: the user is read, the code matched and compared with the marker.
BeginTotp(c, step) ==
    /\ enabled /\ matchStep(step)
    /\ lastStep = 0 \/ step > lastStep
    /\ LET code == [secret |-> secret, step |-> step]
       IN  Start(c, [phase |-> "totp", code |-> code, again |-> code \in accepted])

\* UPDATE the marker; the caller is in.
AcceptTotp(c) ==
    /\ In(c, "totp")
    /\ SetLastStep(call[c].code.step)
    /\ accepted' = accepted \cup {call[c].code}
    /\ Advance(c, "idle")
    /\ UNCHANGED <<secret, enabled, unused, issued, verified, raced>>

\* verifyBackupCode: the unused codes are read, one of them matches.
BeginBackup(c, set) ==
    /\ set \in unused
    /\ LET code == [set |-> set]
       IN  Start(c, [phase |-> "backup", code |-> code, again |-> code \in accepted])

\* UPDATE used_at by id, whoever else has done so.
AcceptBackup(c) ==
    /\ In(c, "backup")
    /\ unused' = unused \ {call[c].code.set}
    /\ accepted' = accepted \cup {call[c].code}
    /\ Advance(c, "idle")
    /\ UNCHANGED <<secret, enabled, lastStep, issued, verified, raced, reopened>>

CallDies(c) ==
    /\ call[c] # Idle
    /\ Advance(c, "idle")
    /\ UNCHANGED <<codes, history>>

Tick ==
    /\ now < MaxTime
    /\ now' = now + 1
    /\ UNCHANGED <<codes, begun, call, history>>

MfaNext ==
    \/ beginEnrollment
    \/ \E c \in Calls :
          \/ \E step \in Steps : BeginVerify(c, step) \/ BeginTotp(c, step)
          \/ \E set \in Sets : BeginBackup(c, set)
          \/ DeleteCodes(c) \/ InsertCodes(c) \/ Enable(c)
          \/ AcceptTotp(c) \/ AcceptBackup(c) \/ CallDies(c)
    \/ Tick

MfaSpec == MfaInit /\ [][MfaNext]_mfaVars
-----------------------------------------------------------------------------
\* Every variable keeps its type.
MfaTypeOK ==
    /\ secret \in 0 .. MaxSecrets
    /\ enabled \in BOOLEAN
    /\ lastStep \in {0} \cup Steps
    /\ unused \subseteq Sets
    /\ issued \in 0 .. MaxSecrets
    /\ now \in 2 .. MaxTime
    /\ begun \in 0 .. MaxCalls
    /\ call \in [Calls -> {Idle}
                    \cup [phase : Verifying, secret : Secrets, step : Steps]
                    \cup [phase : {"totp"}, code : Totp, again : BOOLEAN]
                    \cup [phase : {"backup"}, code : Backup, again : BOOLEAN]]
    /\ accepted \subseteq Totp \cup Backup
    /\ verified \subseteq Secrets
    /\ raced \subseteq Secrets
    /\ reopened \subseteq Secrets

\* No code lets anybody in once a login with it is over: a second use overlaps the
\* first.  The exception is a TOTP secret whose replay marker somebody moved back,
\* as an overlapping login with an older code does, and as verifyAndEnable with an
\* older code does without any overlap (mfa.ts:15-17, 89, 116-118, 128-138).
CodesAreSpentOnce ==
    \A c \in Calls :
        /\ In(c, "totp") /\ call[c].again => call[c].code.secret \in reopened
        /\ In(c, "backup") => ~call[c].again

\* The second factor is never on for a secret nobody has shown a code of, unless
\* the secret was replaced while a verification was under way, which then enables
\* the new one unseen (mfa.ts:12-13, 62-65, 81-89).
EnabledSecretWasVerified == enabled => secret \in verified \cup raced
=============================================================================
