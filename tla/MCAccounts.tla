----------------------------- MODULE MCAccounts -----------------------------
(* Model-checking instance of the three modules of authentication.  They    *)
(* share no state, so a behaviour exercises one of them: their state spaces  *)
(* add instead of multiplying.                                               *)
EXTENDS Mfa, FiniteSets, TLC

CONSTANTS MaxFailures, Window, LockBase, LockMax, MaxFailureCalls, MaxClock,
          Users, Founder, Admin, GivenRoles, MaxRequests

\* The policy is made of positive numbers (env.schema.ts:53-56), and doubling keeps the
\* duration of a lock one.
ASSUME AccountsAssumption ==
    /\ {Founder, Admin} \subseteq Users
    /\ GivenRoles \subseteq {"viewer", "member", "admin", "owner"}
    /\ {MaxRequests, MaxFailureCalls, MaxSecrets, MaxCalls} \subseteq Nat
    /\ MaxTime \in Nat /\ MaxTime >= 2
    /\ {MaxFailures, Window, LockBase, LockMax, MaxClock} \subseteq Nat \ {0}
    /\ \A n \in 0 .. MaxFailureCalls : LockBase * 2 ^ n \in Nat \ {0}
    /\ IsFiniteSet(Calls)

VARIABLES
    module, \* the module under way
    row, clock, failures, failure, counted, locked, stale,
    status, role, passwords, homes, sessions, scim, sso, requests, job, unrevoked

Lockout == INSTANCE Lockout WITH MaxCalls <- MaxFailureCalls, MaxTime <- MaxClock,
                                 now <- clock, begun <- failures, call <- failure
Accounts == INSTANCE Accounts WITH Requests <- Calls, begun <- requests

lockoutVars == <<row, clock, failures, failure, counted, locked, stale>>
accountsVars == <<status, role, passwords, homes, sessions, scim, sso, requests, job, unrevoked>>
vars == <<module, lockoutVars, mfaVars, accountsVars>>

Init ==
    /\ module \in {"lockout", "mfa", "accounts"}
    /\ Lockout!Init /\ MfaInit /\ Accounts!Init

LockoutStep ==
    module = "lockout" /\ Lockout!Next /\ UNCHANGED <<module, mfaVars, accountsVars>>

MfaStep ==
    module = "mfa" /\ MfaNext /\ UNCHANGED <<module, lockoutVars, accountsVars>>

AccountsStep ==
    module = "accounts" /\ Accounts!Next /\ UNCHANGED <<module, lockoutVars, mfaVars>>

Next == LockoutStep \/ MfaStep \/ AccountsStep

Spec == Init /\ [][Next]_vars

Interchangeable == Permutations(Calls)

\* Every variable of the three modules keeps its type.
TypeOK == Lockout!TypeOK /\ MfaTypeOK /\ Accounts!TypeOK

\* Only overlapping failures weaken the lockout (abuseGuard.ts).
OnlyOverlapsWeakenLockout == Lockout!OnlyOverlapsWeakenLockout

\* A session outlives its account's deactivation only by overlap (users.ts, scim.ts).
SessionsOutliveOnlyOverlaps == Accounts!SessionsOutliveOnlyOverlaps

\* Only owners and the directory demote owners (users.ts, scim.ts).
OwnersFallToOwners == Accounts!OwnersFallToOwners
=============================================================================
