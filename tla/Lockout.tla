------------------------------ MODULE Lockout ------------------------------
(***************************************************************************)
(* Brute-force lockout of one identifier (src/src/auth/abuseGuard.ts) and  *)
(* its administrative release (unlockUser of src/src/admin/users.ts).      *)
(*                                                                         *)
(* recordFailure reads the row in one statement and writes what it         *)
(* computed from it in another, so calls overlap between the two.  The     *)
(* security events and audit entries that follow a statement are left out: *)
(* they are appended to other tables, after the fact.                      *)
(***************************************************************************)
EXTENDS Integers, Sequences, FiniteSets, FiniteSetsExt

CONSTANTS
    Calls,       \* concurrent calls
    MaxFailures, \* policy.maxFailures
    Window,      \* policy.windowMs
    LockBase,    \* policy.lockBaseMs
    LockMax,     \* policy.lockMaxMs
    MaxCalls,    \* bound: calls of recordFailure
    MaxTime      \* bound: the clock

\* The count stays below the limit: the failure that reaches it starts anew.
Rows == [count : 0 .. Max({1, MaxFailures - 1}), locks : 0 .. MaxCalls,
         first : 0 .. MaxTime, until : 0 .. MaxTime + LockMax]

\* No row, and no lock (SQL NULL in locked_until).
NoRow == [count |-> 0, locks |-> 0, first |-> 0, until |-> 0]

Idle == [phase |-> "idle"]

VARIABLES
    row,     \* auth_lockouts of the identifier, or NoRow
    now,     \* Date.now()
    begun,   \* calls of recordFailure begun (bounded by MaxCalls)
    call,    \* call[c]: when call c began and the row it read
    counted, \* history: times of the failures written since the last lock or release
    locked,  \* history: end of the last lock placed, unless released
    stale    \* history: a write since then was computed from a row no longer there

vars == <<row, now, begun, call, counted, locked, stale>>

Init ==
    /\ row = NoRow
    /\ now = 1
    /\ begun = 0
    /\ call = [c \in Calls |-> Idle]
    /\ counted = <<>>
    /\ locked = 0
    /\ stale = FALSE

InForce(r, t) == r.until > t

\* checkLockout: what a login is told before its password is looked at.
checkLockout == InForce(row, now)

lockMs(r) == Min({LockBase * 2 ^ r.locks, LockMax})

\* Mutant: the failure that reaches the limit does not lock yet.
CountPastLimit(r, t) ==
    LET elapsed == t - r.first > Window
        count == IF elapsed THEN 1 ELSE r.count + 1
    IN  IF count <= MaxFailures
          THEN [r EXCEPT !.count = count, !.first = IF elapsed THEN t ELSE @, !.until = 0]
          ELSE [count |-> 0, locks |-> r.locks + 1, first |-> t, until |-> t + lockMs(r)]

\* What recordFailure at time t makes of the row it read.
Counted(r, t) ==
    LET elapsed == t - r.first > Window
        count == IF elapsed THEN 1 ELSE r.count + 1
    IN  IF count < MaxFailures
          THEN [r EXCEPT !.count = count, !.first = IF elapsed THEN t ELSE @, !.until = 0]
          ELSE [count |-> 0, locks |-> r.locks + 1, first |-> t, until |-> t + lockMs(r)]

-----------------------------------------------------------------------------
(* recordFailure *)

\* SELECT.
BeginFailure(c) ==
    /\ call[c] = Idle
    /\ begun < MaxCalls
    /\ begun' = begun + 1
    /\ call' = [call EXCEPT ![c] = [phase |-> "read", row |-> row, at |-> now]]
    /\ UNCHANGED <<row, now, counted, locked, stale>>

Write(c, new) ==
    /\ row' = new
    /\ IF InForce(new, call[c].at)
         THEN counted' = <<>> /\ locked' = new.until
         ELSE counted' = Append(counted, call[c].at) /\ UNCHANGED locked
    /\ stale' = (call[c].row # row \/ (stale /\ ~InForce(new, call[c].at)))

Lost ==
    /\ stale' = TRUE
    /\ UNCHANGED <<row, counted, locked>>

Finish(c) ==
    /\ call' = [call EXCEPT ![c] = Idle]
    /\ UNCHANGED <<now, begun>>

\* No row: INSERT, which the primary key refuses if another call was first.
FirstFailure(c) ==
    /\ call[c].phase = "read" /\ call[c].row = NoRow
    /\ IF row = NoRow
         THEN Write(c, [NoRow EXCEPT !.count = 1, !.first = call[c].at])
         ELSE Lost
    /\ Finish(c)

\* A lock in force: only last_failed_at is written, which nobody reads.
KeepLock(c) ==
    /\ call[c].phase = "read" /\ InForce(call[c].row, call[c].at)
    /\ UNCHANGED <<row, counted, locked, stale>>
    /\ Finish(c)

\* UPDATE ... WHERE identifier: finds nothing if the row was deleted.
CountFailure(c) ==
    /\ call[c].phase = "read" /\ call[c].row # NoRow
    /\ ~InForce(call[c].row, call[c].at)
    /\ IF row # NoRow THEN Write(c, Counted(call[c].row, call[c].at)) ELSE Lost
    /\ Finish(c)

\* The call dies before it has written.
FailureLost(c) ==
    /\ call[c].phase = "read"
    /\ UNCHANGED <<row, counted, locked, stale>>
    /\ Finish(c)

-----------------------------------------------------------------------------
\* recordSuccess, and clearLockout as unlockUser calls it for a member of the
\* administrator's organisation: one DELETE.
clearLockout ==
    /\ row # NoRow
    /\ row' = NoRow
    /\ counted' = <<>>
    /\ locked' = 0
    /\ stale' = FALSE
    /\ UNCHANGED <<now, begun, call>>

Tick ==
    /\ now < MaxTime
    /\ now' = now + 1
    /\ UNCHANGED <<row, begun, call, counted, locked, stale>>

Next ==
    \/ \E c \in Calls :
          \/ BeginFailure(c) \/ FirstFailure(c) \/ KeepLock(c)
          \/ CountFailure(c) \/ FailureLost(c)
    \/ clearLockout
    \/ Tick

Spec == Init /\ [][Next]_vars
-----------------------------------------------------------------------------
\* Every variable keeps its type.
TypeOK ==
    /\ row \in Rows
    /\ now \in 1 .. MaxTime
    /\ begun \in 0 .. MaxCalls
    /\ call \in [Calls -> {Idle} \cup [phase : {"read"}, row : Rows, at : 1 .. MaxTime]]
    /\ counted \in Seq(1 .. MaxTime)
    /\ locked \in Nat
    /\ stale \in BOOLEAN

\* Failures within any Window up to now.
Recent == {i \in DOMAIN counted : counted[i] >= now - Window}

\* A lock once placed holds until it ends or is released, and an account that is
\* open has seen fewer failures within any window than two bursts that each stop
\* short of the limit (the window starts with a failure or a lock and does not slide,
\* so failures may straddle two; the very first never locks, whatever the limit),
\* unless a call wrote what it had computed from an older row: only overlapping
\* calls lose failures or lift a lock (abuseGuard.ts:83-116).
OnlyOverlapsWeakenLockout ==
    ~stale =>
        /\ now < locked => checkLockout
        /\ ~checkLockout => Cardinality(Recent) <= Max({1, 2 * (MaxFailures - 1)})
=============================================================================
