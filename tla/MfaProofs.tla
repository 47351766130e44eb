------------------------------ MODULE MfaProofs ------------------------------
(***************************************************************************)
(* Two properties of the second factor, for any number of calls, secrets   *)
(* and time steps: it is never on for a secret nobody showed a code of,    *)
(* and a code is spent by its first use.                                   *)
(***************************************************************************)
EXTENDS Mfa, TLAPS

VerifyCall == [phase : Verifying, secret : Nat, step : Nat]
TotpCode == [secret : Nat, step : Nat]
BackupCode == [set : Nat]
TotpCall == [phase : {"totp"}, code : TotpCode, again : BOOLEAN]
BackupCall == [phase : {"backup"}, code : BackupCode, again : BOOLEAN]

\* What the types contribute to the argument.
Typed ==
    /\ secret \in Nat
    /\ lastStep \in Nat
    /\ issued \in Nat
    /\ unused \subseteq Nat
    /\ call \in [Calls -> {Idle} \cup VerifyCall \cup TotpCall \cup BackupCall]

\* A verification under way is of the secret in force, or that one was set meanwhile.
VerifiesCurrent ==
    \A c \in Calls : call[c].phase \in Verifying => call[c].secret = secret \/ secret \in raced

\* What has let somebody in: a code of a set that was issued, or of an enrolment; one of
\* the secret in force is behind the replay marker unless that was moved back.
Accepted ==
    \A x \in accepted :
        \/ x \in BackupCode /\ x.set <= issued
        \/ /\ x \in TotpCode /\ x.secret <= secret /\ x.step > 0
           /\ x.secret = secret => secret \in reopened \/ x.step <= lastStep

\* An unused backup code has let nobody in.
UnusedIsFresh == \A s \in unused : s <= issued /\ [set |-> s] \notin accepted

\* The codes of the logins under way.
CodesUnderWay ==
    \A c \in Calls :
        /\ call[c].phase = "backup" => ~call[c].again /\ call[c].code.set <= issued
        /\ call[c].phase = "totp" =>
              /\ call[c].code.secret <= secret
              /\ call[c].code.step > 0
              /\ call[c].again => call[c].code.secret \in reopened

\* Why a code is spent once.
CodesInv == Typed /\ Accepted /\ UnusedIsFresh /\ CodesUnderWay

\* Why an enabled secret was verified.
SecretInv == Typed /\ VerifiesCurrent /\ EnabledSecretWasVerified

-----------------------------------------------------------------------------
LEMMA PhasesDiffer ==
    /\ Idle.phase = "idle"
    /\ \A x \in VerifyCall : x.phase \in Verifying
    /\ \A x \in TotpCall : x.phase = "totp"
    /\ \A x \in BackupCall : x.phase = "backup"
BY DEF Idle, VerifyCall, TotpCall, BackupCall

\* The phase of a call tells which kind of record it is.
LEMMA KindOfCall ==
    ASSUME Typed, NEW c \in Calls
    PROVE  /\ call[c].phase \in Verifying => call[c] \in VerifyCall
           /\ call[c].phase = "totp" => call[c] \in TotpCall
           /\ call[c].phase = "backup" => call[c] \in BackupCall
<1>1. call[c] \in {Idle} \cup VerifyCall \cup TotpCall \cup BackupCall
  BY DEF Typed
<1>2. QED
  BY <1>1, PhasesDiffer DEF Verifying

\* A verification that moves on keeps its secret and its step.
LEMMA MovedOn ==
    ASSUME NEW x \in VerifyCall, NEW p \in Verifying
    PROVE  /\ [x EXCEPT !.phase = p] \in VerifyCall
           /\ [x EXCEPT !.phase = p].secret = x.secret
BY DEF VerifyCall

\* The time steps are positive.
LEMMA StepsPositive == ASSUME MaxTime \in Nat PROVE \A s \in Steps : s \in Nat /\ s > 0
BY DEF Steps

LEMMA TypedInit == MfaInit => Typed
<1> SUFFICES ASSUME MfaInit PROVE Typed
  OBVIOUS
<1>1. call \in [Calls -> {Idle} \cup VerifyCall \cup TotpCall \cup BackupCall]
  BY DEF MfaInit
<1>2. secret = 0 /\ lastStep = 0 /\ issued = 0 /\ unused = {}
  BY DEF MfaInit
<1>3. QED
  BY <1>1, <1>2 DEF Typed

LEMMA TypedStep ==
    ASSUME MaxTime \in Nat, Typed, [MfaNext]_mfaVars
    PROVE  Typed'
<1> USE DEF In
<1>1. CASE beginEnrollment
  BY <1>1 DEF beginEnrollment, Typed
<1>2. ASSUME NEW c \in Calls, NEW s \in Steps, BeginVerify(c, s) PROVE Typed'
  <2>1. [phase |-> "delete", secret |-> secret, step |-> s] \in VerifyCall
    BY StepsPositive DEF VerifyCall, Verifying, Typed
  <2>2. QED
    BY <1>2, <2>1 DEF BeginVerify, Start, codes, Typed
<1>3. ASSUME NEW c \in Calls, NEW s \in Steps, BeginTotp(c, s) PROVE Typed'
  <2> DEFINE k == [secret |-> secret, step |-> s]
  <2>1. [phase |-> "totp", code |-> k, again |-> k \in accepted] \in TotpCall
    BY StepsPositive DEF TotpCall, TotpCode, Typed
  <2>2. QED
    BY <1>3, <2>1 DEF BeginTotp, Start, codes, Typed
<1>4. ASSUME NEW c \in Calls, NEW s \in Sets, BeginBackup(c, s) PROVE Typed'
  <2> DEFINE k == [set |-> s]
  <2>1. s \in Nat
    BY <1>4 DEF BeginBackup, Typed
  <2>2. [phase |-> "backup", code |-> k, again |-> k \in accepted] \in BackupCall
    BY <2>1 DEF BackupCall, BackupCode
  <2>3. QED
    BY <1>4, <2>2 DEF BeginBackup, Start, codes, Typed
<1>5. ASSUME NEW c \in Calls, DeleteCodes(c) PROVE Typed'
  <2>1. [call[c] EXCEPT !.phase = "insert"] \in VerifyCall
    BY <1>5, KindOfCall, MovedOn DEF DeleteCodes, Verifying
  <2>2. QED
    BY <1>5, <2>1 DEF DeleteCodes, Advance, Typed
<1>6. ASSUME NEW c \in Calls, InsertCodes(c) PROVE Typed'
  <2>1. [call[c] EXCEPT !.phase = "enable"] \in VerifyCall
    BY <1>6, KindOfCall, MovedOn DEF InsertCodes, Verifying
  <2>2. QED
    BY <1>6, <2>1 DEF InsertCodes, Advance, Typed
<1>7. ASSUME NEW c \in Calls, Enable(c) PROVE Typed'
  <2>1. call[c].step \in Nat
    BY <1>7, KindOfCall DEF Enable, Verifying, VerifyCall
  <2>2. QED
    BY <1>7, <2>1 DEF Enable, SetLastStep, Advance, Typed
<1>8. ASSUME NEW c \in Calls, AcceptTotp(c) PROVE Typed'
  <2>1. call[c].code.step \in Nat
    BY <1>8, KindOfCall DEF AcceptTotp, TotpCall, TotpCode
  <2>2. QED
    BY <1>8, <2>1 DEF AcceptTotp, SetLastStep, Advance, Typed
<1>9. ASSUME NEW c \in Calls, AcceptBackup(c) PROVE Typed'
  BY <1>9 DEF AcceptBackup, Advance, Typed
<1>10. ASSUME NEW c \in Calls, CallDies(c) PROVE Typed'
  BY <1>10 DEF CallDies, Advance, Typed, codes
<1>11. CASE Tick
  BY <1>11 DEF Tick, Typed, codes
<1>12. CASE UNCHANGED mfaVars
  BY <1>12 DEF mfaVars, codes, Typed
<1>13. QED
  BY <1>1, <1>2, <1>3, <1>4, <1>5, <1>6, <1>7, <1>8, <1>9, <1>10, <1>11, <1>12 DEF MfaNext

-----------------------------------------------------------------------------
(* The second factor is on for a secret that was shown. *)

LEMMA SecretStep ==
    ASSUME MaxTime \in Nat, SecretInv, [MfaNext]_mfaVars
    PROVE  SecretInv'
<1> USE DEF In
<1>0. Typed /\ VerifiesCurrent /\ EnabledSecretWasVerified /\ Typed'
  BY TypedStep DEF SecretInv
<1> SUFFICES VerifiesCurrent' /\ EnabledSecretWasVerified'
  BY <1>0 DEF SecretInv
<1>1. CASE beginEnrollment
  BY <1>1 DEF beginEnrollment, VerifiesCurrent, EnabledSecretWasVerified
<1>2. ASSUME NEW c \in Calls, NEW s \in Steps, BeginVerify(c, s)
      PROVE  VerifiesCurrent' /\ EnabledSecretWasVerified'
  BY <1>0, <1>2 DEF BeginVerify, Start, codes, history, Typed, VerifiesCurrent,
                    EnabledSecretWasVerified
<1>3. ASSUME NEW c \in Calls, NEW s \in Steps, BeginTotp(c, s)
      PROVE  VerifiesCurrent' /\ EnabledSecretWasVerified'
  BY <1>0, <1>3 DEF BeginTotp, Start, codes, history, Typed, VerifiesCurrent,
                    EnabledSecretWasVerified, Verifying
<1>4. ASSUME NEW c \in Calls, NEW s \in Sets, BeginBackup(c, s)
      PROVE  VerifiesCurrent' /\ EnabledSecretWasVerified'
  BY <1>0, <1>4 DEF BeginBackup, Start, codes, history, Typed, VerifiesCurrent,
                    EnabledSecretWasVerified, Verifying
<1>5. ASSUME NEW c \in Calls, DeleteCodes(c)
      PROVE  VerifiesCurrent' /\ EnabledSecretWasVerified'
  <2>1. call[c].phase \in Verifying
    BY <1>5 DEF DeleteCodes, Verifying
  <2>2. [call[c] EXCEPT !.phase = "insert"].secret = call[c].secret
    BY <1>0, <2>1, KindOfCall, MovedOn DEF Verifying
  <2>3. QED
    BY <1>0, <1>5, <2>1, <2>2 DEF DeleteCodes, Advance, history, Typed, VerifiesCurrent,
                                  EnabledSecretWasVerified
<1>6. ASSUME NEW c \in Calls, InsertCodes(c)
      PROVE  VerifiesCurrent' /\ EnabledSecretWasVerified'
  <2>1. call[c].phase \in Verifying
    BY <1>6 DEF InsertCodes, Verifying
  <2>2. [call[c] EXCEPT !.phase = "enable"].secret = call[c].secret
    BY <1>0, <2>1, KindOfCall, MovedOn DEF Verifying
  <2>3. QED
    BY <1>0, <1>6, <2>1, <2>2 DEF InsertCodes, Advance, history, Typed, VerifiesCurrent,
                                  EnabledSecretWasVerified
<1>7. ASSUME NEW c \in Calls, Enable(c)
      PROVE  VerifiesCurrent' /\ EnabledSecretWasVerified'
  <2>1. call[c].secret = secret \/ secret \in raced
    BY <1>0, <1>7 DEF Enable, VerifiesCurrent, Verifying
  <2>2. call' = [call EXCEPT ![c] = Idle] /\ Idle.phase \notin Verifying
    BY <1>7 DEF Enable, Advance, Idle, Verifying
  <2>3. QED
    BY <1>0, <1>7, <2>1, <2>2 DEF Enable, Typed, VerifiesCurrent, EnabledSecretWasVerified
<1>8. ASSUME NEW c \in Calls, AcceptTotp(c) \/ AcceptBackup(c) \/ CallDies(c)
      PROVE  VerifiesCurrent' /\ EnabledSecretWasVerified'
  <2>1. call' = [call EXCEPT ![c] = Idle] /\ Idle.phase \notin Verifying
    BY <1>8 DEF AcceptTotp, AcceptBackup, CallDies, Advance, Idle, Verifying
  <2>2. QED
    BY <1>0, <1>8, <2>1 DEF AcceptTotp, AcceptBackup, CallDies, codes, history, Typed,
                            VerifiesCurrent, EnabledSecretWasVerified
<1>9. CASE Tick \/ UNCHANGED mfaVars
  BY <1>0, <1>9 DEF Tick, mfaVars, codes, history, VerifiesCurrent, EnabledSecretWasVerified
<1>10. QED
  BY <1>1, <1>2, <1>3, <1>4, <1>5, <1>6, <1>7, <1>8, <1>9 DEF MfaNext

\* Whatever overlaps, the second factor is on only for a secret a code of which was
\* verified, or that was set while a verification was under way (mfa.ts:62-65, 81-89).
THEOREM EnabledMeansVerified ==
    ASSUME MaxTime \in Nat
    PROVE  MfaSpec => []EnabledSecretWasVerified
<1>1. MfaInit => SecretInv
  BY TypedInit DEF MfaInit, SecretInv, VerifiesCurrent, EnabledSecretWasVerified, Idle, Verifying
<1>2. SecretInv /\ [MfaNext]_mfaVars => SecretInv'
  BY SecretStep
<1>3. SecretInv => EnabledSecretWasVerified
  BY DEF SecretInv
<1>4. QED
  BY <1>1, <1>2, <1>3, PTL DEF MfaSpec

-----------------------------------------------------------------------------
(* A code is spent by its first use. *)

\* A TOTP code is not a backup code.
LEMMA KindsDiffer == \A x \in TotpCode : x \notin BackupCode
<1> SUFFICES ASSUME NEW x \in TotpCode, x \in BackupCode PROVE FALSE
  OBVIOUS
<1>1. DOMAIN x = {"secret", "step"} /\ DOMAIN x = {"set"}
  BY DEF TotpCode, BackupCode
<1>2. QED
  BY <1>1

\* Calls that end take nothing with them.
LEMMA CallEnds ==
    ASSUME Typed, CodesUnderWay, NEW c \in Calls, call' = [call EXCEPT ![c] = Idle],
           issued' = issued, secret' = secret, reopened \subseteq reopened'
    PROVE  CodesUnderWay'
<1>1. Idle.phase \notin {"backup", "totp"}
  BY DEF Idle
<1>2. \A d \in Calls : call'[d] = Idle \/ call'[d] = call[d]
  BY DEF Typed
<1>3. QED
  BY <1>1, <1>2 DEF CodesUnderWay

\* A code that is not behind the marker was not accepted before.
LEMMA TotpIsNew ==
    ASSUME MaxTime \in Nat, CodesInv, NEW s \in Steps, lastStep = 0 \/ s > lastStep,
           [secret |-> secret, step |-> s] \in accepted
    PROVE  secret \in reopened
<1> DEFINE x == [secret |-> secret, step |-> s]
<1>1. x \in TotpCode /\ x.secret = secret /\ x.step = s
  BY StepsPositive DEF CodesInv, Typed, TotpCode
<1>2. x \notin BackupCode
  BY <1>1, KindsDiffer
<1>3. secret \in reopened \/ s <= lastStep
  BY <1>1, <1>2 DEF CodesInv, Accepted
<1>4. s \in Nat /\ s > 0 /\ lastStep \in Nat
  BY StepsPositive DEF CodesInv, Typed
<1>5. QED
  BY <1>3, <1>4

\* Moving the marker keeps what is behind it, or is recorded.
LEMMA MarkerMoves ==
    ASSUME Typed, Accepted, NEW s \in Nat, SetLastStep(s),
           secret' = secret, issued' = issued, NEW x \in accepted
    PROVE  \/ x \in BackupCode /\ x.set <= issued'
           \/ /\ x \in TotpCode /\ x.secret <= secret' /\ x.step > 0
              /\ x.secret = secret' => secret' \in reopened' \/ x.step <= lastStep'
<1>1. CASE x \in BackupCode /\ x.set <= issued
  BY <1>1
<1>2. CASE /\ x \in TotpCode /\ x.secret <= secret /\ x.step > 0
           /\ x.secret = secret => secret \in reopened \/ x.step <= lastStep
  <2>1. x.step \in Nat /\ lastStep \in Nat
    BY <1>2 DEF TotpCode, Typed
  <2>2. lastStep' = s /\ (s < lastStep => secret \in reopened') /\ reopened \subseteq reopened'
    BY DEF SetLastStep
  <2>3. QED
    BY <1>2, <2>1, <2>2
<1>3. QED
  BY <1>1, <1>2 DEF Accepted

LEMMA CodesStep ==
    ASSUME MaxTime \in Nat, CodesInv, [MfaNext]_mfaVars
    PROVE  CodesInv'
<1> USE DEF In
<1>0. Typed /\ Accepted /\ UnusedIsFresh /\ CodesUnderWay /\ Typed'
  BY TypedStep DEF CodesInv
<1> SUFFICES Accepted' /\ UnusedIsFresh' /\ CodesUnderWay'
  BY <1>0 DEF CodesInv
<1>1. CASE beginEnrollment
  <2>1. secret' = secret + 1 /\ UNCHANGED <<unused, issued, call, accepted, reopened>>
    BY <1>1 DEF beginEnrollment
  <2>2. Accepted'
    BY <1>0, <2>1 DEF Accepted, Typed, TotpCode
  <2>3. CodesUnderWay'
    <3>1. \A c \in Calls : call[c].phase = "totp" => call[c].code.secret \in Nat
      BY <1>0, KindOfCall DEF TotpCall, TotpCode
    <3>2. QED
      BY <1>0, <2>1, <3>1 DEF CodesUnderWay, Typed
  <2>4. QED
    BY <1>0, <2>1, <2>2, <2>3 DEF UnusedIsFresh
<1>2. ASSUME NEW c \in Calls, NEW s \in Steps, BeginVerify(c, s)
      PROVE  Accepted' /\ UnusedIsFresh' /\ CodesUnderWay'
  BY <1>0, <1>2 DEF BeginVerify, Start, codes, history, Typed, Accepted, UnusedIsFresh,
                    CodesUnderWay
<1>3. ASSUME NEW c \in Calls, NEW s \in Steps, BeginTotp(c, s)
      PROVE  Accepted' /\ UnusedIsFresh' /\ CodesUnderWay'
  <2> DEFINE k == [secret |-> secret, step |-> s]
  <2>1. /\ call' = [call EXCEPT ![c] = [phase |-> "totp", code |-> k, again |-> k \in accepted]]
        /\ UNCHANGED <<secret, lastStep, unused, issued, accepted, reopened>>
        /\ lastStep = 0 \/ s > lastStep
    BY <1>3 DEF BeginTotp, Start, codes, history
  <2>2. k \in accepted => secret \in reopened
    BY <2>1, TotpIsNew
  <2>3. k.secret = secret /\ k.step = s /\ s > 0 /\ secret <= secret
    BY <1>0, StepsPositive DEF Typed
  <2>4. CodesUnderWay'
    BY <1>0, <2>1, <2>2, <2>3 DEF CodesUnderWay, Typed
  <2>5. QED
    BY <1>0, <2>1, <2>4 DEF Accepted, UnusedIsFresh
<1>4. ASSUME NEW c \in Calls, NEW s \in Sets, BeginBackup(c, s)
      PROVE  Accepted' /\ UnusedIsFresh' /\ CodesUnderWay'
  <2> DEFINE k == [set |-> s]
  <2>1. /\ call' = [call EXCEPT ![c] = [phase |-> "backup", code |-> k, again |-> k \in accepted]]
        /\ UNCHANGED <<secret, lastStep, unused, issued, accepted, reopened>>
        /\ s \in unused
    BY <1>4 DEF BeginBackup, Start, codes, history
  <2>2. k \notin accepted /\ k.set <= issued
    BY <1>0, <2>1 DEF UnusedIsFresh
  <2>3. CodesUnderWay'
    BY <1>0, <2>1, <2>2 DEF CodesUnderWay, Typed
  <2>4. QED
    BY <1>0, <2>1, <2>3 DEF Accepted, UnusedIsFresh
<1>5. ASSUME NEW c \in Calls, DeleteCodes(c)
      PROVE  Accepted' /\ UnusedIsFresh' /\ CodesUnderWay'
  <2>1. [call[c] EXCEPT !.phase = "insert"].phase \in Verifying
    BY <1>0, <1>5, KindOfCall, MovedOn, PhasesDiffer DEF DeleteCodes, Verifying
  <2>2. CodesUnderWay'
    BY <1>0, <1>5, <2>1 DEF DeleteCodes, Advance, history, Typed, CodesUnderWay, Verifying
  <2>3. QED
    BY <1>0, <1>5, <2>2 DEF DeleteCodes, history, Accepted, UnusedIsFresh
<1>6. ASSUME NEW c \in Calls, InsertCodes(c)
      PROVE  Accepted' /\ UnusedIsFresh' /\ CodesUnderWay'
  <2>1. /\ issued' = issued + 1 /\ unused' = unused \cup {issued + 1}
        /\ UNCHANGED <<secret, lastStep, accepted, reopened>>
    BY <1>6 DEF InsertCodes, history
  <2>2. Accepted'
    BY <1>0, <2>1 DEF Accepted, Typed, BackupCode
  <2>3. [set |-> issued + 1] \notin accepted
    <3>1. [set |-> issued + 1] \in BackupCode
      BY <1>0 DEF Typed, BackupCode
    <3>2. [set |-> issued + 1] \notin TotpCode
      BY <3>1, KindsDiffer
    <3>3. ~([set |-> issued + 1].set <= issued)
      BY <1>0 DEF Typed
    <3>4. QED
      BY <1>0, <3>2, <3>3 DEF Accepted
  <2>4. UnusedIsFresh'
    <3> SUFFICES ASSUME NEW s \in unused \cup {issued + 1}
                 PROVE  s <= issued + 1 /\ [set |-> s] \notin accepted
      BY <2>1 DEF UnusedIsFresh
    <3>1. CASE s \in unused
      <4>1. s \in Nat /\ issued \in Nat /\ s <= issued
        BY <1>0, <3>1 DEF Typed, UnusedIsFresh
      <4>2. QED
        BY <1>0, <3>1, <4>1 DEF UnusedIsFresh
    <3>2. CASE s = issued + 1
      <4>1. s <= issued + 1
        BY <1>0, <3>2 DEF Typed
      <4>2. QED
        BY <2>3, <3>2, <4>1
    <3>3. QED
      BY <3>1, <3>2
  <2>5. CodesUnderWay'
    <3>1. [call[c] EXCEPT !.phase = "enable"].phase \in Verifying
      BY <1>0, <1>6, KindOfCall, MovedOn, PhasesDiffer DEF InsertCodes, Verifying
    <3>2. \A d \in Calls : call[d].phase = "backup" => call[d].code.set \in Nat
      BY <1>0, KindOfCall DEF BackupCall, BackupCode
    <3>3. QED
      BY <1>0, <1>6, <2>1, <3>1, <3>2 DEF InsertCodes, Advance, Typed, CodesUnderWay, Verifying
  <2>6. QED
    BY <2>2, <2>4, <2>5
<1>7. ASSUME NEW c \in Calls, Enable(c)
      PROVE  Accepted' /\ UnusedIsFresh' /\ CodesUnderWay'
  <2>1. /\ SetLastStep(call[c].step) /\ call' = [call EXCEPT ![c] = Idle]
        /\ UNCHANGED <<secret, unused, issued, accepted>>
    BY <1>7 DEF Enable, Advance
  <2>2. call[c].step \in Nat
    BY <1>0, <1>7, KindOfCall DEF Enable, Verifying, VerifyCall
  <2>3. reopened \subseteq reopened'
    BY <2>1 DEF SetLastStep
  <2>4. Accepted'
    BY <1>0, <2>1, <2>2, MarkerMoves DEF Accepted
  <2>5. QED
    BY <1>0, <2>1, <2>3, <2>4, CallEnds DEF UnusedIsFresh
<1>8. ASSUME NEW c \in Calls, AcceptTotp(c)
      PROVE  Accepted' /\ UnusedIsFresh' /\ CodesUnderWay'
  <2> DEFINE k == call[c].code
  <2>1. /\ SetLastStep(k.step) /\ call' = [call EXCEPT ![c] = Idle]
        /\ accepted' = accepted \cup {k} /\ UNCHANGED <<secret, unused, issued>>
    BY <1>8 DEF AcceptTotp, Advance
  <2>2. k \in TotpCode /\ k.secret <= secret /\ k.step > 0 /\ k.step \in Nat
    BY <1>0, <1>8, KindOfCall DEF AcceptTotp, TotpCall, TotpCode, CodesUnderWay
  <2>3. lastStep' = k.step /\ reopened \subseteq reopened'
    BY <2>1 DEF SetLastStep
  <2>4. Accepted'
    BY <1>0, <2>1, <2>2, <2>3, MarkerMoves DEF Accepted
  <2>5. UnusedIsFresh'
    <3>1. \A s \in unused : [set |-> s] # k
      BY <1>0, <2>2, KindsDiffer DEF BackupCode, Typed
    <3>2. QED
      BY <1>0, <2>1, <3>1 DEF UnusedIsFresh
  <2>6. QED
    BY <1>0, <2>1, <2>3, <2>4, <2>5, CallEnds
<1>9. ASSUME NEW c \in Calls, AcceptBackup(c)
      PROVE  Accepted' /\ UnusedIsFresh' /\ CodesUnderWay'
  <2> DEFINE k == call[c].code
  <2>1. /\ unused' = unused \ {k.set} /\ accepted' = accepted \cup {k}
        /\ call' = [call EXCEPT ![c] = Idle]
        /\ UNCHANGED <<secret, lastStep, issued, reopened>>
    BY <1>9 DEF AcceptBackup, Advance
  <2>2. k \in BackupCode /\ k.set <= issued
    BY <1>0, <1>9, KindOfCall DEF AcceptBackup, BackupCall, CodesUnderWay
  <2>3. Accepted'
    BY <1>0, <2>1, <2>2 DEF Accepted
  <2>4. UnusedIsFresh'
    <3>1. \A s \in unused' : [set |-> s] # k
      BY <2>1
    <3>2. QED
      BY <1>0, <2>1, <3>1 DEF UnusedIsFresh
  <2>5. QED
    BY <1>0, <2>1, <2>3, <2>4, CallEnds
<1>10. ASSUME NEW c \in Calls, CallDies(c)
       PROVE  Accepted' /\ UnusedIsFresh' /\ CodesUnderWay'
  BY <1>0, <1>10, CallEnds DEF CallDies, Advance, codes, history, Accepted, UnusedIsFresh
<1>11. CASE Tick \/ UNCHANGED mfaVars
  BY <1>0, <1>11 DEF Tick, mfaVars, codes, history, Accepted, UnusedIsFresh, CodesUnderWay
<1>12. QED
  BY <1>1, <1>2, <1>3, <1>4, <1>5, <1>6, <1>7, <1>8, <1>9, <1>10, <1>11 DEF MfaNext

\* However many logins overlap, a code that has let somebody in does so again only
\* beside that login, or for a secret whose replay marker was moved back
\* (mfa.ts:15-17, 89, 116-118, 128-138).
THEOREM CodesSpentByFirstUse ==
    ASSUME MaxTime \in Nat
    PROVE  MfaSpec => []CodesAreSpentOnce
<1>1. MfaInit => CodesInv
  <2> SUFFICES ASSUME MfaInit PROVE CodesInv
    OBVIOUS
  <2>1. accepted = {} /\ unused = {} /\ \A c \in Calls : call[c] = Idle
    BY DEF MfaInit
  <2>2. Idle.phase \notin {"backup", "totp"}
    BY DEF Idle
  <2>3. QED
    BY <2>1, <2>2, TypedInit DEF CodesInv, Accepted, UnusedIsFresh, CodesUnderWay
<1>2. CodesInv /\ [MfaNext]_mfaVars => CodesInv'
  BY CodesStep
<1>3. CodesInv => CodesAreSpentOnce
  BY DEF CodesInv, CodesUnderWay, CodesAreSpentOnce, In
<1>4. QED
  BY <1>1, <1>2, <1>3, PTL DEF MfaSpec
=============================================================================
