--------------------------- MODULE AccountsProofs ---------------------------
(***************************************************************************)
(* Proofs about the modules of authentication that MCAccounts puts side by *)
(* side, for any users, overlapping requests, policies and bounds.         *)
(***************************************************************************)
EXTENDS MCAccounts, Sequences, FiniteSetTheorems, TLAPS

-----------------------------------------------------------------------------
(* Lockout *)

Reading == {c \in Calls : failure[c].phase = "read"}

\* A burst has begun before anybody counts it on, and nobody reads the future.
BurstsBeganBefore ==
    /\ row.first <= clock
    /\ \A c \in Reading : failure[c].at <= clock /\ failure[c].row.first <= failure[c].at

\* A call places one lock at most.
LocksAreCounted ==
    /\ row.locks + Cardinality(Reading) <= failures
    /\ \A c \in Reading : failure[c].row.locks + Cardinality(Reading) <= failures

\* The failures since the last lock or release, as bursts: the last row.count of them
\* began at row.first, those before began and ended before it, and all but less than
\* MaxFailures of these more than a window before it.
Bursts ==
    LET n == Len(counted)
        k == row.count
    IN  /\ k <= n
        /\ MaxFailures = 1 => n <= 1
        /\ \A i \in 1 .. n : counted[i] <= row.first + Window
        /\ \A i \in 1 .. (n - k) : counted[i] < row.first
        /\ \E m \in 0 .. (MaxFailures - 1) :
              \A i \in 1 .. (n - k - m) : counted[i] + Window < row.first

LockHolds == locked <= clock \/ row.until = locked

LockoutTyped == Lockout!TypeOK /\ BurstsBeganBefore /\ LocksAreCounted

LockoutInv ==
    /\ LockoutTyped
    /\ ~stale => IF row = Lockout!NoRow THEN counted = <<>> /\ locked = 0 ELSE Bursts /\ LockHolds

LEMMA MaxOfTwo ==
    ASSUME NEW a \in Int, NEW b \in Int
    PROVE  Lockout!Max({a, b}) = IF a >= b THEN a ELSE b
BY DEF Lockout!Max

LEMMA MinOfTwo ==
    ASSUME NEW a \in Int, NEW b \in Int
    PROVE  Lockout!Min({a, b}) = IF a <= b THEN a ELSE b
BY DEF Lockout!Min

LEMMA LimitIsPositive ==
    /\ MaxFailures \in Nat \ {0} /\ Window \in Nat \ {0} /\ LockMax \in Nat \ {0}
    /\ MaxClock \in Nat \ {0} /\ MaxFailureCalls \in Nat
    /\ Lockout!Max({1, MaxFailures - 1}) = IF MaxFailures = 1 THEN 1 ELSE
          IF MaxFailures = 2 THEN 1 ELSE MaxFailures - 1
<1>1. /\ MaxFailures \in Nat \ {0} /\ Window \in Nat \ {0} /\ LockMax \in Nat \ {0}
      /\ MaxClock \in Nat \ {0} /\ MaxFailureCalls \in Nat
  BY AccountsAssumption
<1>2. Lockout!Max({1, MaxFailures - 1}) = IF 1 >= MaxFailures - 1 THEN 1 ELSE MaxFailures - 1
  BY <1>1, MaxOfTwo
<1> QED  BY <1>1, <1>2

\* What the rows of the table hold.
LEMMA RowsAreTyped ==
    /\ \A r \in Lockout!Rows :
          /\ r.count \in Nat /\ r.count <= Lockout!Max({1, MaxFailures - 1})
          /\ r.locks \in 0 .. MaxFailureCalls /\ r.first \in 0 .. MaxClock
          /\ r.until \in 0 .. MaxClock + LockMax
    /\ \A count, locks, first, until \in Nat :
          (/\ count <= Lockout!Max({1, MaxFailures - 1}) /\ locks <= MaxFailureCalls
           /\ first <= MaxClock /\ until <= MaxClock + LockMax) =>
             [count |-> count, locks |-> locks, first |-> first, until |-> until] \in Lockout!Rows
<1> DEFINE most == Lockout!Max({1, MaxFailures - 1})
<1>1. most \in Nat
  BY LimitIsPositive
<1>2. Lockout!Rows = [count : 0 .. most, locks : 0 .. MaxFailureCalls, first : 0 .. MaxClock,
                      until : 0 .. MaxClock + LockMax]
  BY DEF Lockout!Rows
<1> HIDE DEF most
<1>3. /\ \A r \in Lockout!Rows :
            /\ r.count \in Nat /\ r.count <= most
            /\ r.locks \in 0 .. MaxFailureCalls /\ r.first \in 0 .. MaxClock
            /\ r.until \in 0 .. MaxClock + LockMax
      /\ \A count, locks, first, until \in Nat :
            (/\ count <= most /\ locks <= MaxFailureCalls
             /\ first <= MaxClock /\ until <= MaxClock + LockMax) =>
               [count |-> count, locks |-> locks, first |-> first, until |-> until] \in Lockout!Rows
  BY <1>1, <1>2, LimitIsPositive
<1> QED  BY <1>3 DEF most

LEMMA LocksEnd ==
    ASSUME NEW r \in Lockout!Rows
    PROVE  Lockout!lockMs(r) \in 1 .. LockMax
<1> DEFINE doubled == LockBase * 2 ^ r.locks
<1>1. doubled \in Nat \ {0} /\ LockMax \in Nat \ {0}
  BY AccountsAssumption, RowsAreTyped
<1>2. Lockout!lockMs(r) = Lockout!Min({doubled, LockMax})
  BY DEF Lockout!lockMs
<1> HIDE DEF doubled
<1> QED  BY <1>1, <1>2, MinOfTwo

\* What a failure at time t makes of a row: it starts a burst, goes on with the one
\* under way, or reaches the limit and locks.
Restarts(r, t, new) ==
    /\ t - r.first > Window /\ MaxFailures > 1
    /\ new.count = 1 /\ new.locks = r.locks /\ new.first = t /\ new.until = 0
GoesOnFrom(r, t, new) ==
    /\ t - r.first <= Window /\ r.count + 1 < MaxFailures
    /\ new.count = r.count + 1 /\ new.locks = r.locks /\ new.first = r.first /\ new.until = 0
Locks(r, t, new) ==
    /\ new.count = 0 /\ new.locks = r.locks + 1 /\ new.first = t /\ new.until > t

LEMMA FailuresAreCounted ==
    ASSUME NEW r \in Lockout!Rows, NEW t \in 1 .. MaxClock, r.locks < MaxFailureCalls
    PROVE  LET new == Lockout!Counted(r, t)
           IN  /\ new \in Lockout!Rows
               /\ Restarts(r, t, new) \/ GoesOnFrom(r, t, new) \/ Locks(r, t, new)
<1> DEFINE new == Lockout!Counted(r, t)
           elapsed == t - r.first > Window
           count == IF elapsed THEN 1 ELSE r.count + 1
<1>0. r = [count |-> r.count, locks |-> r.locks, first |-> r.first, until |-> r.until]
  BY DEF Lockout!Rows
<1>1. CASE count < MaxFailures
  <2>1. new = [count |-> count, locks |-> r.locks, first |-> IF elapsed THEN t ELSE r.first,
               until |-> 0]
    BY <1>0, <1>1 DEF Lockout!Counted
  <2>2. new \in Lockout!Rows
    <3> DEFINE first == IF elapsed THEN t ELSE r.first
    <3>1. count \in Nat /\ count <= Lockout!Max({1, MaxFailures - 1})
      BY <1>1, RowsAreTyped, LimitIsPositive
    <3>2. first \in Nat /\ first <= MaxClock
      BY RowsAreTyped, LimitIsPositive
    <3>3. r.locks \in Nat /\ r.locks <= MaxFailureCalls /\ 0 <= MaxClock + LockMax
      BY RowsAreTyped, LimitIsPositive
    <3> HIDE DEF count, first
    <3>4. [count |-> count, locks |-> r.locks, first |-> first, until |-> 0] \in Lockout!Rows
      BY <3>1, <3>2, <3>3, RowsAreTyped
    <3> QED  BY <2>1, <3>4 DEF first
  <2>3. Restarts(r, t, new) \/ GoesOnFrom(r, t, new)
    BY <1>1, <2>1, RowsAreTyped, LimitIsPositive DEF Restarts, GoesOnFrom
  <2> QED  BY <2>2, <2>3
<1>2. CASE ~(count < MaxFailures)
  <2>1. new = [count |-> 0, locks |-> r.locks + 1, first |-> t, until |-> t + Lockout!lockMs(r)]
    BY <1>2 DEF Lockout!Counted
  <2>2. Lockout!lockMs(r) \in 1 .. LockMax
    BY LocksEnd
  <2>3. new \in Lockout!Rows
    <3> DEFINE locks == r.locks + 1
               until == t + Lockout!lockMs(r)
    <3>1. /\ locks \in Nat /\ locks <= MaxFailureCalls
          /\ until \in Nat /\ until <= MaxClock + LockMax
          /\ t \in Nat /\ t <= MaxClock
          /\ 0 <= Lockout!Max({1, MaxFailures - 1})
      BY <2>2, RowsAreTyped, LimitIsPositive
    <3> HIDE DEF locks, until
    <3>2. [count |-> 0, locks |-> locks, first |-> t, until |-> until] \in Lockout!Rows
      BY <3>1, RowsAreTyped
    <3> QED  BY <2>1, <3>2 DEF locks, until
  <2>4. Locks(r, t, new)
    BY <2>1, <2>2, RowsAreTyped, LimitIsPositive DEF Locks
  <2> QED  BY <2>3, <2>4
<1> QED  BY <1>1, <1>2

LEMMA ReadersAreTyped ==
    ASSUME Lockout!TypeOK, NEW c \in Reading
    PROVE  /\ c \in Calls /\ failure[c] # Lockout!Idle
           /\ failure[c].row \in Lockout!Rows /\ failure[c].at \in 1 .. MaxClock
BY DEF Lockout!TypeOK, Lockout!Idle, Reading

LEMMA ReadingIsFinite ==
    /\ IsFiniteSet(Reading) /\ Cardinality(Reading) \in Nat
    /\ IsFiniteSet(Reading') /\ Cardinality(Reading') \in Nat
<1>1. Reading \in SUBSET Calls /\ Reading' \in SUBSET Calls
  BY DEF Reading
<1>2. IsFiniteSet(Reading) /\ IsFiniteSet(Reading')
  BY <1>1, FS_Subset, AccountsAssumption
<1> QED  BY <1>2, FS_CardinalityType

\* A call that ends reads no more.
LEMMA ReadersLeave ==
    ASSUME Lockout!TypeOK, NEW c \in Reading, Lockout!Finish(c)
    PROVE  /\ Reading' = Reading \ {c} /\ Cardinality(Reading') = Cardinality(Reading) - 1
           /\ \A d \in Reading' : failure'[d] = failure[d]
           /\ failure' \in [Calls -> {Lockout!Idle}
                                \cup [phase : {"read"}, row : Lockout!Rows, at : 1 .. MaxClock]]
<1>0. failure' = [failure EXCEPT ![c] = Lockout!Idle] /\ c \in Calls
  BY ReadersAreTyped DEF Lockout!Finish
<1>1. failure' \in [Calls -> {Lockout!Idle}
                        \cup [phase : {"read"}, row : Lockout!Rows, at : 1 .. MaxClock]]
  BY <1>0 DEF Lockout!TypeOK
<1>2. failure'[c].phase = "idle" /\ \A d \in Calls \ {c} : failure'[d] = failure[d]
  BY <1>0 DEF Lockout!TypeOK, Lockout!Idle
<1>3. Reading' = Reading \ {c}
  BY <1>2 DEF Reading
<1>4. Cardinality(Reading') = Cardinality(Reading) - 1
  BY <1>3, ReadingIsFinite, FS_RemoveElement
<1>5. \A d \in Reading' : failure'[d] = failure[d]
  BY <1>2, <1>3 DEF Reading
<1> QED  BY <1>1, <1>3, <1>4, <1>5

LEMMA FinishKeepsTypes ==
    ASSUME LockoutTyped, NEW c \in Reading, Lockout!Finish(c),
           row' \in Lockout!Rows, row'.first <= clock,
           row'.locks <= row.locks \/ row'.locks <= failure[c].row.locks + 1,
           counted' \in Seq(1 .. MaxClock), locked' \in Nat, stale' \in BOOLEAN
    PROVE  LockoutTyped'
<1>0. Lockout!TypeOK /\ BurstsBeganBefore /\ LocksAreCounted
  BY DEF LockoutTyped
<1>1. UNCHANGED <<clock, failures>>
  BY DEF Lockout!Finish
<1>2. Lockout!TypeOK'
  BY <1>0, <1>1, ReadersLeave DEF Lockout!TypeOK
<1>3. BurstsBeganBefore'
  BY <1>0, <1>1, ReadersLeave DEF BurstsBeganBefore
<1>4. LocksAreCounted'
  <2>1. /\ Cardinality(Reading') = Cardinality(Reading) - 1 /\ Cardinality(Reading) \in Nat
        /\ Reading' \subseteq Reading /\ \A d \in Reading' : failure'[d] = failure[d]
        /\ failures \in Nat
    BY <1>0, ReadersLeave, ReadingIsFinite DEF Lockout!TypeOK
  <2>2. row'.locks \in Nat /\ \A d \in Reading : failure[d].row.locks \in Nat
    BY <1>0, RowsAreTyped, ReadersAreTyped
  <2>3. row.locks \in Nat
    BY <1>0, RowsAreTyped DEF Lockout!TypeOK
  <2>4. row'.locks + Cardinality(Reading') <= failures'
    <3>1. /\ row.locks + Cardinality(Reading) <= failures
          /\ failure[c].row.locks + Cardinality(Reading) <= failures /\ failure[c].row.locks \in Nat
          /\ row'.locks \in Nat /\ row.locks \in Nat /\ failures' = failures
      BY <1>0, <1>1, <2>2, <2>3 DEF LocksAreCounted
    <3> QED  BY ONLY <2>1, <3>1, row'.locks <= row.locks \/ row'.locks <= failure[c].row.locks + 1
  <2>5. ASSUME NEW d \in Reading' PROVE failure'[d].row.locks + Cardinality(Reading') <= failures'
    <3>1. /\ failure'[d] = failure[d] /\ failures' = failures
          /\ failure[d].row.locks \in Nat
          /\ failure[d].row.locks + Cardinality(Reading) <= failures
      BY <1>0, <1>1, <2>1, <2>2 DEF LocksAreCounted
    <3>2. failure[d].row.locks + Cardinality(Reading') <= failures
      BY ONLY <2>1, <3>1
    <3> QED  BY <3>1, <3>2
  <2> QED  BY <2>4, <2>5 DEF LocksAreCounted
<1> QED  BY <1>2, <1>3, <1>4 DEF LockoutTyped

LEMMA NoRowIsTyped == Lockout!NoRow \in Lockout!Rows /\ Lockout!NoRow.first = 0 /\ Lockout!NoRow.locks = 0
<1>1. 0 \in Nat /\ 0 <= Lockout!Max({1, MaxFailures - 1}) /\ 0 <= MaxFailureCalls /\ 0 <= MaxClock
      /\ 0 <= MaxClock + LockMax
  BY LimitIsPositive
<1>2. [count |-> 0, locks |-> 0, first |-> 0, until |-> 0] \in Lockout!Rows
  BY <1>1, RowsAreTyped
<1> QED  BY <1>2 DEF Lockout!NoRow

LEMMA FirstRow ==
    ASSUME NEW t \in Nat
    PROVE  [Lockout!NoRow EXCEPT !.count = 1, !.first = t]
               = [count |-> 1, locks |-> 0, first |-> t, until |-> 0]
<1> DEFINE new == [Lockout!NoRow EXCEPT !.count = 1, !.first = t]
<1>1. new \in [count : {1}, locks : {0}, first : Nat, until : {0}] /\ new.first = t
  BY DEF Lockout!NoRow
<1> HIDE DEF new
<1>2. new = [count |-> 1, locks |-> 0, first |-> t, until |-> 0]
  BY <1>1
<1> QED  BY <1>2 DEF new

\* What a call writes over the row it read.
Writes(c, new) ==
    /\ Lockout!Write(c, new) /\ Lockout!Finish(c)
    /\ new \in Lockout!Rows
    /\ \/ /\ failure[c].row = Lockout!NoRow /\ row = Lockout!NoRow
          /\ new = [Lockout!NoRow EXCEPT !.count = 1, !.first = failure[c].at]
       \/ /\ failure[c].row # Lockout!NoRow /\ row # Lockout!NoRow
          /\ failure[c].row.until <= failure[c].at
          /\ \/ Restarts(failure[c].row, failure[c].at, new)
             \/ GoesOnFrom(failure[c].row, failure[c].at, new)
             \/ Locks(failure[c].row, failure[c].at, new)

LEMMA LockoutSteps ==
    ASSUME LockoutTyped, Lockout!Next
    PROVE  \/ \E c \in Calls : Lockout!BeginFailure(c)
           \/ \E c \in Reading :
                 /\ Lockout!Finish(c)
                 /\ \/ \E new \in Lockout!Rows : Writes(c, new)
                    \/ /\ UNCHANGED <<row, counted, locked>>
                       /\ stale' = TRUE \/ stale' = stale
           \/ Lockout!clearLockout \/ Lockout!Tick
<1>0. Lockout!TypeOK
  BY DEF LockoutTyped
<1>1. CASE \E c \in Calls : Lockout!BeginFailure(c)
  BY <1>1
<1>2. ASSUME NEW c \in Calls,
             Lockout!FirstFailure(c) \/ Lockout!KeepLock(c) \/ Lockout!CountFailure(c) \/ Lockout!FailureLost(c)
      PROVE  /\ c \in Reading /\ Lockout!Finish(c)
             /\ \/ \E new \in Lockout!Rows : Writes(c, new)
                \/ UNCHANGED <<row, counted, locked>> /\ (stale' = TRUE \/ stale' = stale)
  <2>1. c \in Reading /\ Lockout!Finish(c)
    BY <1>2 DEF Lockout!FirstFailure, Lockout!KeepLock, Lockout!CountFailure, Lockout!FailureLost, Reading
  <2>2. CASE Lockout!KeepLock(c) \/ Lockout!FailureLost(c)
    BY <2>1, <2>2 DEF Lockout!KeepLock, Lockout!FailureLost
  <2>3. CASE Lockout!Lost
    BY <2>1, <2>3 DEF Lockout!Lost
  <2>4. CASE Lockout!FirstFailure(c) /\ ~Lockout!Lost
    <3> DEFINE new == [Lockout!NoRow EXCEPT !.count = 1, !.first = failure[c].at]
    <3>1. failure[c].row = Lockout!NoRow /\ row = Lockout!NoRow /\ Lockout!Write(c, new)
      BY <2>4 DEF Lockout!FirstFailure
    <3>2. /\ 1 <= Lockout!Max({1, MaxFailures - 1})
          /\ failure[c].at \in Nat /\ failure[c].at <= MaxClock /\ 0 <= MaxClock + LockMax
          /\ 0 <= MaxFailureCalls
      BY <1>0, <2>1, ReadersAreTyped, LimitIsPositive
    <3>3. new = [count |-> 1, locks |-> 0, first |-> failure[c].at, until |-> 0]
      BY <3>2, FirstRow
    <3>4. new \in Lockout!Rows
      <4> DEFINE t == failure[c].at
      <4>1. \A x \in Nat : x <= MaxClock =>
               [count |-> 1, locks |-> 0, first |-> x, until |-> 0] \in Lockout!Rows
        BY <3>2, RowsAreTyped
      <4> QED  BY <3>2, <3>3, <4>1
    <3> QED  BY <2>1, <3>1, <3>4 DEF Writes
  <2>5. CASE Lockout!CountFailure(c) /\ ~Lockout!Lost
    <3> DEFINE new == Lockout!Counted(failure[c].row, failure[c].at)
    <3>1. /\ failure[c].row # Lockout!NoRow /\ row # Lockout!NoRow /\ Lockout!Write(c, new)
          /\ ~Lockout!InForce(failure[c].row, failure[c].at)
      BY <2>5 DEF Lockout!CountFailure
    <3>2. failure[c].row \in Lockout!Rows /\ failure[c].at \in 1 .. MaxClock
      BY <1>0, <2>1, ReadersAreTyped
    <3>3. failure[c].row.until <= failure[c].at
      BY <3>1, <3>2, RowsAreTyped DEF Lockout!InForce
    <3>4. failure[c].row.locks < MaxFailureCalls
      <4>1. Cardinality(Reading) \in Nat /\ Cardinality(Reading) > 0
        BY <2>1, ReadingIsFinite, FS_EmptySet
      <4>2. failure[c].row.locks + Cardinality(Reading) <= failures /\ failures <= MaxFailureCalls
        BY <1>0, <2>1, AccountsAssumption DEF LockoutTyped, LocksAreCounted, Lockout!TypeOK
      <4>3. failures \in Nat /\ MaxFailureCalls \in Nat /\ failure[c].row.locks \in Nat
        BY <1>0, <3>2, RowsAreTyped, LimitIsPositive DEF Lockout!TypeOK
      <4> QED  BY ONLY <4>1, <4>2, <4>3
    <3>5. /\ new \in Lockout!Rows
          /\ \/ Restarts(failure[c].row, failure[c].at, new)
             \/ GoesOnFrom(failure[c].row, failure[c].at, new)
             \/ Locks(failure[c].row, failure[c].at, new)
      BY <3>2, <3>4, FailuresAreCounted
    <3> HIDE DEF new
    <3> QED  BY <2>1, <3>1, <3>3, <3>5 DEF Writes
  <2> QED  BY <1>2, <2>1, <2>2, <2>3, <2>4, <2>5
<1>3. CASE Lockout!clearLockout \/ Lockout!Tick
  BY <1>3
<1> QED  BY <1>1, <1>2, <1>3 DEF Lockout!Next

LEMMA OneMoreFailure ==
    ASSUME counted \in Seq(1 .. MaxClock), NEW t \in 1 .. MaxClock, counted' = Append(counted, t)
    PROVE  /\ counted' \in Seq(1 .. MaxClock) /\ Len(counted) \in Nat
           /\ Len(counted') = Len(counted) + 1 /\ counted'[Len(counted')] = t
           /\ \A i \in 1 .. Len(counted) : counted'[i] = counted[i] /\ counted[i] \in 1 .. MaxClock
<1> DEFINE S == 1 .. MaxClock
<1>1. counted \in Seq(S) /\ t \in S /\ counted' = Append(counted, t)
  OBVIOUS
<1> HIDE DEF S
<1>2. /\ counted' \in Seq(S) /\ Len(counted) \in Nat
      /\ Len(counted') = Len(counted) + 1 /\ counted'[Len(counted) + 1] = t
  BY <1>1
<1>3. \A i \in 1 .. Len(counted) : counted'[i] = counted[i] /\ counted[i] \in S
  BY <1>1
<1> QED  BY <1>2, <1>3 DEF S

\* The first failure is a burst.
LEMMA BurstBegins ==
    ASSUME Lockout!TypeOK, counted = <<>>, NEW t \in 1 .. MaxClock, counted' = Append(counted, t),
           row'.count = 1, row'.first = t
    PROVE  Bursts'
<1>1. Len(counted') = 1 /\ counted'[1] = t
  BY OneMoreFailure DEF Lockout!TypeOK
<1>2. 0 \in 0 .. (MaxFailures - 1) /\ Window \in Nat /\ t \in Nat
  BY LimitIsPositive
<1> QED  BY <1>1, <1>2 DEF Bursts

\* A failure within the window of its burst lengthens it.
LEMMA BurstGoesOn ==
    ASSUME Lockout!TypeOK, Bursts, NEW t \in 1 .. MaxClock, counted' = Append(counted, t),
           row'.count = row.count + 1, row'.first = row.first, t <= row.first + Window,
           row.count + 1 < MaxFailures
    PROVE  Bursts'
<1> DEFINE n == Len(counted)
           k == row.count
           first == row.first
<1>1. /\ Len(counted') = n + 1 /\ counted'[n + 1] = t /\ n \in Nat
      /\ \A i \in 1 .. n : counted'[i] = counted[i] /\ counted[i] \in Nat
  BY OneMoreFailure DEF Lockout!TypeOK
<1>2. k \in Nat /\ first \in Nat /\ Window \in Nat /\ MaxFailures \in Nat
  BY LimitIsPositive, RowsAreTyped DEF Lockout!TypeOK
<1>3. /\ k <= n
      /\ \A i \in 1 .. n : counted[i] <= first + Window
      /\ \A i \in 1 .. (n - k) : counted[i] < first
  BY DEF Bursts
<1>4. PICK m \in 0 .. (MaxFailures - 1) : \A i \in 1 .. (n - k - m) : counted[i] + Window < first
  BY DEF Bursts
<1> HIDE DEF n, k, first
<1>5. \A i \in 1 .. (n + 1) : counted'[i] <= first + Window
  BY <1>1, <1>2, <1>3 DEF first
<1>6. \A i \in 1 .. (n + 1 - (k + 1)) : counted'[i] < first
  BY <1>1, <1>2, <1>3
<1>7. \A i \in 1 .. (n + 1 - (k + 1) - m) : counted'[i] + Window < first
  BY <1>1, <1>2, <1>4
<1>8. k + 1 <= n + 1 /\ MaxFailures # 1
  BY <1>1, <1>2, <1>3 DEF k
<1>9. Len(counted') = n + 1 /\ row'.count = k + 1 /\ row'.first = first
  BY <1>1 DEF k, first
<1>10. \A i \in 1 .. Len(counted') : counted'[i] <= row'.first + Window
  BY <1>5, <1>9
<1>11. \A i \in 1 .. (Len(counted') - row'.count) : counted'[i] < row'.first
  BY <1>1, <1>2, <1>6, <1>9
<1>12. \A i \in 1 .. (Len(counted') - row'.count - m) : counted'[i] + Window < row'.first
  BY <1>1, <1>2, <1>7, <1>9
<1>13. row'.count <= Len(counted') /\ MaxFailures # 1
  BY <1>8, <1>9
<1> QED  BY <1>4, <1>10, <1>11, <1>12, <1>13 DEF Bursts

\* A failure after the window of a burst starts the next.
LEMMA BurstEnds ==
    ASSUME Lockout!TypeOK, Bursts, NEW t \in 1 .. MaxClock, counted' = Append(counted, t),
           row'.count = 1, row'.first = t, t - row.first > Window, MaxFailures > 1
    PROVE  Bursts'
<1> DEFINE n == Len(counted)
           k == row.count
           first == row.first
<1>1. /\ Len(counted') = n + 1 /\ counted'[n + 1] = t /\ n \in Nat
      /\ \A i \in 1 .. n : counted'[i] = counted[i] /\ counted[i] \in Nat
  BY OneMoreFailure DEF Lockout!TypeOK
<1>2. k \in Nat /\ first \in Nat /\ Window \in Nat /\ MaxFailures \in Nat /\ t \in Nat
  BY LimitIsPositive, RowsAreTyped DEF Lockout!TypeOK
<1>3. /\ k <= n
      /\ \A i \in 1 .. n : counted[i] <= first + Window
      /\ \A i \in 1 .. (n - k) : counted[i] < first
  BY DEF Bursts
<1>4. k \in 0 .. (MaxFailures - 1)
  <2>1. k <= Lockout!Max({1, MaxFailures - 1})
    BY RowsAreTyped DEF Lockout!TypeOK
  <2>2. Lockout!Max({1, MaxFailures - 1}) = MaxFailures - 1
    BY LimitIsPositive
  <2> HIDE DEF k
  <2> QED  BY <1>2, <2>1, <2>2
<1>5. first + Window < t
  BY <1>2
<1> HIDE DEF n, k, first
<1>6. \A i \in 1 .. (n + 1) : counted'[i] <= t + Window
  <2> SUFFICES ASSUME NEW i \in 1 .. (n + 1) PROVE counted'[i] <= t + Window
    OBVIOUS
  <2>1. CASE i = n + 1
    BY <1>1, <1>2, <2>1
  <2>2. CASE i \in 1 .. n
    BY <1>1, <1>2, <1>3, <1>5, <2>2
  <2> QED  BY <1>1, <2>1, <2>2
<1>7. \A i \in 1 .. (n + 1 - 1) : counted'[i] < t
  BY <1>1, <1>2, <1>3, <1>5
<1>8. \A i \in 1 .. (n + 1 - 1 - k) : counted'[i] + Window < t
  BY <1>1, <1>2, <1>3, <1>5
<1>9. 1 <= n + 1 /\ MaxFailures # 1
  BY <1>1, <1>2
<1> QED  BY <1>1, <1>4, <1>6, <1>7, <1>8, <1>9 DEF Bursts

\* A lock ends all bursts.
LEMMA LockEndsBursts ==
    ASSUME counted' = <<>>, row'.count = 0
    PROVE  Bursts'
<1>1. Len(counted') = 0
  OBVIOUS
<1>2. 0 \in 0 .. (MaxFailures - 1)
  BY LimitIsPositive
<1> QED  BY <1>1, <1>2 DEF Bursts

LEMMA WritesKeepLockoutInv ==
    ASSUME LockoutInv, NEW c \in Reading, NEW new \in Lockout!Rows, Writes(c, new)
    PROVE  LockoutInv'
<1> DEFINE r == failure[c].row
           t == failure[c].at
<1>0. /\ LockoutTyped /\ Lockout!TypeOK
      /\ r \in Lockout!Rows /\ t \in 1 .. MaxClock /\ t <= clock /\ r.first <= t
      /\ clock \in Nat /\ clock' = clock
  BY ReadersAreTyped DEF LockoutInv, LockoutTyped, BurstsBeganBefore, Writes, Lockout!Finish, Lockout!TypeOK
<1>1. /\ row' = new
      /\ IF new.until > t THEN counted' = <<>> /\ locked' = new.until
                          ELSE counted' = Append(counted, t) /\ locked' = locked
      /\ stale' = (r # row \/ (stale /\ ~(new.until > t)))
      /\ Lockout!Finish(c)
  BY DEF Writes, Lockout!Write, Lockout!InForce
<1>2. \/ /\ r = Lockout!NoRow /\ row = Lockout!NoRow
         /\ new = [Lockout!NoRow EXCEPT !.count = 1, !.first = t]
      \/ /\ r # Lockout!NoRow /\ row # Lockout!NoRow /\ r.until <= t
         /\ Restarts(r, t, new) \/ GoesOnFrom(r, t, new) \/ Locks(r, t, new)
  BY DEF Writes
<1>3. ~stale => IF row = Lockout!NoRow THEN counted = <<>> /\ locked = 0 ELSE Bursts /\ LockHolds
  BY DEF LockoutInv
<1> HIDE DEF r, t
<1>4. \/ new = [count |-> 1, locks |-> 0, first |-> t, until |-> 0] /\ row = Lockout!NoRow /\ r = row
      \/ Restarts(r, t, new) /\ row # Lockout!NoRow /\ r.until <= t
      \/ GoesOnFrom(r, t, new) /\ row # Lockout!NoRow /\ r.until <= t
      \/ Locks(r, t, new)
  <2>1. t \in Nat
    BY <1>0, LimitIsPositive
  <2> QED  BY <1>2, <2>1, FirstRow
<1>5. new.first <= clock /\ new.locks <= r.locks + 1 /\ new # Lockout!NoRow
  BY <1>0, <1>4, RowsAreTyped, LimitIsPositive DEF Restarts, GoesOnFrom, Locks, Lockout!NoRow
<1>6. counted' \in Seq(1 .. MaxClock) /\ locked' \in Nat /\ stale' \in BOOLEAN
  <2>1. counted' \in Seq(1 .. MaxClock)
    <3>1. counted' = <<>> \/ counted' = Append(counted, t)
      BY <1>1
    <3>2. counted' = <<>> => counted' \in Seq(1 .. MaxClock)
      OBVIOUS
    <3> QED  BY <1>0, <3>1, <3>2, OneMoreFailure DEF Lockout!TypeOK
  <2>2. locked' \in Nat
    BY <1>0, <1>1, RowsAreTyped DEF Lockout!TypeOK
  <2>3. stale' \in BOOLEAN
    BY <1>1
  <2> QED  BY <2>1, <2>2, <2>3
<1>7. LockoutTyped'
  BY <1>0, <1>1, <1>5, <1>6, FinishKeepsTypes DEF r
<1>8. CASE Locks(r, t, new)
  <2>1. counted' = <<>> /\ locked' = row'.until /\ row'.count = 0
    BY <1>1, <1>8 DEF Locks
  <2> QED  BY <1>1, <1>5, <1>7, <2>1, LockEndsBursts DEF LockoutInv, LockHolds
<1>9. CASE ~Locks(r, t, new)
  <2>1. new.until = 0 /\ ~(new.until > t)
    BY <1>0, <1>4, <1>9 DEF Restarts, GoesOnFrom
  <2>2. counted' = Append(counted, t) /\ locked' = locked /\ row' = new
    BY <1>1, <2>1
  <2> SUFFICES ASSUME ~stale' PROVE Bursts' /\ LockHolds'
    BY <1>1, <1>5, <1>7 DEF LockoutInv
  <2>3. r = row /\ ~stale
    BY <1>1, <2>1
  <2>4. LockHolds'
    <3>1. locked <= clock
      BY <1>0, <1>3, <1>4, <1>9, <2>3, RowsAreTyped DEF LockHolds, Lockout!TypeOK
    <3> QED  BY <1>0, <2>2, <3>1 DEF LockHolds
  <2>5. Bursts'
    <3>1. CASE new = [count |-> 1, locks |-> 0, first |-> t, until |-> 0] /\ row = Lockout!NoRow
      BY <1>0, <1>3, <2>2, <2>3, <3>1, BurstBegins
    <3>2. CASE Restarts(r, t, new) /\ row # Lockout!NoRow
      BY <1>0, <1>3, <2>2, <2>3, <3>2, BurstEnds DEF Restarts
    <3>3. CASE GoesOnFrom(r, t, new) /\ row # Lockout!NoRow
      <4>1. t <= row.first + Window
        BY <1>0, <2>3, <3>3, RowsAreTyped, LimitIsPositive DEF GoesOnFrom
      <4> QED  BY <1>0, <1>3, <2>2, <2>3, <3>3, <4>1, BurstGoesOn DEF GoesOnFrom
    <3> QED  BY <1>4, <1>9, <3>1, <3>2, <3>3
  <2> QED  BY <2>4, <2>5
<1> QED  BY <1>8, <1>9

\* A step that leaves the row and the history alone, or marks it stale.
LEMMA LockoutFrame ==
    ASSUME LockoutInv, LockoutTyped', UNCHANGED <<row, counted, locked>>,
           stale' = TRUE \/ stale' = stale, clock' >= clock
    PROVE  LockoutInv'
<1>1. ~stale' => ~stale
  OBVIOUS
<1>2. Bursts => Bursts'
  BY DEF Bursts
<1>3. LockHolds => LockHolds'
  BY DEF LockHolds, LockoutInv, LockoutTyped, Lockout!TypeOK
<1> QED  BY <1>1, <1>2, <1>3 DEF LockoutInv

LEMMA NextLockoutInv == LockoutInv /\ [Lockout!Next]_lockoutVars => LockoutInv'
<1> SUFFICES ASSUME LockoutInv, [Lockout!Next]_lockoutVars PROVE LockoutInv'
  OBVIOUS
<1>0. /\ LockoutTyped /\ Lockout!TypeOK /\ BurstsBeganBefore /\ LocksAreCounted
      /\ clock \in Nat /\ failures \in Nat /\ row.first \in Nat /\ row.locks \in Nat
      /\ row \in Lockout!Rows
  BY RowsAreTyped DEF LockoutInv, LockoutTyped, Lockout!TypeOK
<1>1. ASSUME NEW c \in Calls, Lockout!BeginFailure(c) PROVE LockoutInv'
  <2> DEFINE new == [phase |-> "read", row |-> row, at |-> clock]
  <2>1. /\ failure[c] = Lockout!Idle /\ failures < MaxFailureCalls /\ failures' = failures + 1
        /\ failure' = [failure EXCEPT ![c] = new]
        /\ UNCHANGED <<row, clock, counted, locked, stale>>
    BY <1>1 DEF Lockout!BeginFailure
  <2>2. new \in [phase : {"read"}, row : Lockout!Rows, at : 1 .. MaxClock] /\ c \notin Reading
    BY <1>0, <2>1 DEF Lockout!TypeOK, Lockout!Idle, Reading
  <2>3. Lockout!TypeOK'
    BY <1>0, <2>1, <2>2, LimitIsPositive DEF Lockout!TypeOK
  <2>4. Reading' = Reading \cup {c} /\ failure'[c] = new /\ \A d \in Reading : failure'[d] = failure[d]
    <3>1. failure'[c] = new /\ \A d \in Calls \ {c} : failure'[d] = failure[d]
      BY <1>0, <2>1 DEF Lockout!TypeOK
    <3>2. new.phase = "read"
      OBVIOUS
    <3> HIDE DEF new
    <3> QED  BY <2>2, <3>1, <3>2 DEF Reading
  <2>5. Cardinality(Reading') = Cardinality(Reading) + 1 /\ Cardinality(Reading) \in Nat
    BY <2>2, <2>4, ReadingIsFinite, FS_AddElement
  <2>6. new.row = row /\ new.at = clock
    OBVIOUS
  <2> HIDE DEF new
  <2>7. BurstsBeganBefore'
    BY <1>0, <2>1, <2>4, <2>6 DEF BurstsBeganBefore
  <2>8. LocksAreCounted'
    <3>1. row'.locks + Cardinality(Reading') <= failures'
      BY <1>0, <2>1, <2>5 DEF LocksAreCounted
    <3>2. ASSUME NEW d \in Reading' PROVE failure'[d].row.locks + Cardinality(Reading') <= failures'
      <4>1. CASE d = c
        BY <2>1, <2>4, <2>6, <3>1, <4>1
      <4>2. CASE d \in Reading
        <5>1. failure[d].row.locks \in Nat
          BY <1>0, <4>2, ReadersAreTyped, RowsAreTyped
        <5>2. failure'[d] = failure[d] /\ failure[d].row.locks + Cardinality(Reading) <= failures
          BY <1>0, <2>4, <4>2 DEF LocksAreCounted
        <5> QED  BY <1>0, <2>1, <2>5, <5>1, <5>2
      <4> QED  BY <2>4, <4>1, <4>2
    <3> QED  BY <3>1, <3>2 DEF LocksAreCounted
  <2> QED  BY <1>0, <2>1, <2>3, <2>7, <2>8, LockoutFrame DEF LockoutTyped
<1>2. ASSUME NEW c \in Reading, Lockout!Finish(c), UNCHANGED <<row, counted, locked>>,
             stale' = TRUE \/ stale' = stale
      PROVE  LockoutInv'
  <2>1. clock' = clock
    BY <1>2 DEF Lockout!Finish
  <2>2. /\ row' \in Lockout!Rows /\ row'.first <= clock /\ row'.locks <= row.locks
        /\ counted' \in Seq(1 .. MaxClock) /\ locked' \in Nat /\ stale' \in BOOLEAN
    <3>1. stale' \in BOOLEAN
      BY <1>0, <1>2 DEF Lockout!TypeOK
    <3>2. counted' \in Seq(1 .. MaxClock) /\ locked' \in Nat
      BY <1>0, <1>2 DEF Lockout!TypeOK
    <3>3. row.first <= clock /\ row.locks <= row.locks
      BY <1>0 DEF BurstsBeganBefore
    <3> QED  BY <1>0, <1>2, <3>1, <3>2, <3>3
  <2>3. LockoutTyped'
    BY <1>0, <1>2, <2>2, FinishKeepsTypes
  <2>4. clock' >= clock
    BY <1>0, <2>1
  <2> QED  BY <1>0, <1>2, <2>3, <2>4, LockoutFrame
<1>3. CASE Lockout!clearLockout
  <2>1. /\ row' = Lockout!NoRow /\ counted' = <<>> /\ locked' = 0 /\ stale' = FALSE
        /\ UNCHANGED <<clock, failures, failure>> /\ Reading' = Reading
    BY <1>3 DEF Lockout!clearLockout, Reading
  <2>2. Lockout!NoRow \in Lockout!Rows /\ Lockout!NoRow.first = 0 /\ Lockout!NoRow.locks = 0
    BY NoRowIsTyped
  <2>3. Lockout!TypeOK'
    <3>1. <<>> \in Seq(1 .. MaxClock)
      OBVIOUS
    <3> QED  BY <1>0, <2>1, <2>2, <3>1 DEF Lockout!TypeOK
  <2>4. BurstsBeganBefore'
    BY <1>0, <2>1, <2>2 DEF BurstsBeganBefore
  <2>5. LocksAreCounted'
    BY <1>0, <2>1, <2>2, ReadingIsFinite DEF LocksAreCounted
  <2>6. LockoutTyped'
    BY <2>3, <2>4, <2>5 DEF LockoutTyped
  <2> QED  BY <2>1, <2>6 DEF LockoutInv
<1>4. CASE Lockout!Tick
  <2>1. /\ clock < MaxClock /\ clock' = clock + 1
        /\ UNCHANGED <<row, failures, failure, counted, locked, stale>> /\ Reading' = Reading
    BY <1>4 DEF Lockout!Tick, Reading
  <2>2. \A c \in Reading : failure[c].at \in Nat
    BY <1>0, ReadersAreTyped
  <2>3. LockoutTyped'
    BY <1>0, <2>1, <2>2, LimitIsPositive
       DEF LockoutTyped, Lockout!TypeOK, BurstsBeganBefore, LocksAreCounted
  <2> QED  BY <1>0, <2>1, <2>3, LockoutFrame
<1>5. CASE UNCHANGED lockoutVars
  <2>1. Reading' = Reading
    BY <1>5 DEF lockoutVars, Reading
  <2>2. LockoutTyped'
    BY <1>0, <1>5, <2>1
       DEF lockoutVars, LockoutTyped, Lockout!TypeOK, BurstsBeganBefore, LocksAreCounted
  <2> QED  BY <1>0, <1>5, <2>2, LockoutFrame DEF lockoutVars
<1> QED  BY <1>0, <1>1, <1>2, <1>3, <1>4, <1>5, LockoutSteps, WritesKeepLockoutInv

LEMMA InitLockoutInv == Lockout!Init => LockoutInv
<1> SUFFICES ASSUME Lockout!Init PROVE LockoutInv
  OBVIOUS
<1>1. Lockout!TypeOK
  <2>1. <<>> \in Seq(1 .. MaxClock) /\ 1 \in 1 .. MaxClock /\ 0 \in 0 .. MaxFailureCalls
    BY LimitIsPositive
  <2> QED  BY <2>1, NoRowIsTyped DEF Lockout!Init, Lockout!TypeOK
<1>2. Reading = {}
  BY DEF Lockout!Init, Lockout!Idle, Reading
<1>3. BurstsBeganBefore /\ LocksAreCounted
  BY <1>2, NoRowIsTyped, FS_EmptySet DEF Lockout!Init, BurstsBeganBefore, LocksAreCounted
<1> QED  BY <1>1, <1>3 DEF Lockout!Init, LockoutInv, LockoutTyped

\* Two bursts at most reach into a window.
LEMMA RecentFailuresAreFew ==
    ASSUME LockoutTyped, Bursts
    PROVE  Cardinality(Lockout!Recent) <= Lockout!Max({1, 2 * (MaxFailures - 1)})
<1> DEFINE n == Len(counted)
           k == row.count
           first == row.first
           recent == Lockout!Recent
<1>1. /\ n \in Nat /\ k \in Nat /\ first \in Nat /\ clock \in Nat /\ first <= clock /\ k <= n
      /\ \A i \in 1 .. n : counted[i] \in Nat
      /\ Window \in Nat /\ MaxFailures \in Nat \ {0}
  <2>1. counted \in Seq(1 .. MaxClock) /\ row \in Lockout!Rows /\ clock \in 1 .. MaxClock
    BY DEF LockoutTyped, Lockout!TypeOK
  <2>2. first <= clock /\ k <= n
    BY DEF LockoutTyped, BurstsBeganBefore, Bursts
  <2> QED  BY <2>1, <2>2, RowsAreTyped, LimitIsPositive
<1>2. recent = {i \in 1 .. n : counted[i] >= clock - Window}
  BY DEF Lockout!Recent, LockoutTyped, Lockout!TypeOK
<1>3. PICK m \in 0 .. (MaxFailures - 1) : \A i \in 1 .. (n - k - m) : counted[i] + Window < first
  BY DEF Bursts
<1>4. /\ MaxFailures = 1 => n <= 1
      /\ MaxFailures # 1 => k <= MaxFailures - 1
  <2>1. k <= Lockout!Max({1, MaxFailures - 1})
    BY RowsAreTyped DEF LockoutTyped, Lockout!TypeOK
  <2>2. MaxFailures # 1 => Lockout!Max({1, MaxFailures - 1}) = MaxFailures - 1
    BY LimitIsPositive
  <2> HIDE DEF k
  <2>3. MaxFailures # 1 => k <= MaxFailures - 1
    BY <1>1, <2>1, <2>2
  <2>4. MaxFailures = 1 => n <= 1
    BY DEF Bursts
  <2> QED  BY <2>3, <2>4
<1>5. /\ Lockout!Max({1, 2 * (MaxFailures - 1)}) >= 1
      /\ Lockout!Max({1, 2 * (MaxFailures - 1)}) >= 2 * (MaxFailures - 1)
      /\ Lockout!Max({1, 2 * (MaxFailures - 1)}) \in Int
  <2> DEFINE bound == 2 * (MaxFailures - 1)
  <2>1. bound \in Int
    BY <1>1
  <2> HIDE DEF bound
  <2>2. /\ Lockout!Max({1, bound}) >= 1 /\ Lockout!Max({1, bound}) >= bound
        /\ Lockout!Max({1, bound}) \in Int
    BY <2>1, MaxOfTwo
  <2> QED  BY <2>2 DEF bound
<1> DEFINE from == n - k - m + 1
           most == Lockout!Max({1, 2 * (MaxFailures - 1)})
<1> HIDE DEF n, k, first, recent, most
<1>6. recent \subseteq from .. n /\ recent \subseteq 1 .. n
  BY <1>1, <1>2, <1>3
<1>7. from \in Int /\ n \in Int
  BY <1>1, <1>3
<1>8. /\ IsFiniteSet(from .. n) /\ IsFiniteSet(1 .. n)
      /\ Cardinality(from .. n) = k + m /\ Cardinality(1 .. n) = n
  <2>1. /\ IsFiniteSet(from .. n) /\ Cardinality(from .. n) = IF from > n THEN 0 ELSE n - from + 1
        /\ IsFiniteSet(1 .. n) /\ Cardinality(1 .. n) = IF 1 > n THEN 0 ELSE n - 1 + 1
    BY <1>7, FS_Interval
  <2> QED  BY <1>1, <1>3, <2>1
<1>9. Cardinality(recent) <= k + m /\ Cardinality(recent) <= n /\ Cardinality(recent) \in Nat
  BY <1>6, <1>8, FS_Subset, FS_CardinalityType
<1>10. Cardinality(recent) <= most
  <2>1. most >= 1 /\ most >= 2 * (MaxFailures - 1) /\ most \in Int
    BY <1>5 DEF most
  <2>2. m \in Nat /\ m <= MaxFailures - 1
    BY <1>1
  <2> QED  BY ONLY <1>1, <1>4, <1>9, <2>1, <2>2
<1> QED  BY <1>10 DEF recent, most

LEMMA SameCardinality == ASSUME NEW S PROVE Lockout!Cardinality(S) = Cardinality(S)
BY DEF Lockout!Cardinality, Cardinality

LEMMA StepsOfLockout == [Next]_vars => [Lockout!Next]_lockoutVars
BY DEF Next, LockoutStep, MfaStep, AccountsStep, vars

LEMMA LockoutInvariance == Spec => []LockoutInv
<1>1. Init => LockoutInv
  BY InitLockoutInv DEF Init
<1>2. LockoutInv /\ [Next]_vars => LockoutInv'
  BY NextLockoutInv, StepsOfLockout
<1> QED  BY <1>1, <1>2, PTL DEF Spec

\* While no call writes what it computed from an older row, a lock holds until it ends
\* or is released, and an account that is open has seen fewer failures within any window
\* than two bursts that stop short of the limit (abuseGuard.ts:83-116).
THEOREM LockoutHolds == Spec => []OnlyOverlapsWeakenLockout
<1>1. LockoutInv => OnlyOverlapsWeakenLockout
  <2> SUFFICES ASSUME LockoutInv, ~stale
               PROVE  /\ clock < locked => Lockout!checkLockout
                      /\ ~Lockout!checkLockout =>
                            Cardinality(Lockout!Recent) <= Lockout!Max({1, 2 * (MaxFailures - 1)})
    BY SameCardinality DEF OnlyOverlapsWeakenLockout, Lockout!OnlyOverlapsWeakenLockout
  <2>1. LockoutTyped /\ clock \in Nat /\ locked \in Nat
    BY DEF LockoutInv, LockoutTyped, Lockout!TypeOK
  <2>2. CASE row = Lockout!NoRow
    <3>1. counted = <<>> /\ locked = 0
      BY <2>2 DEF LockoutInv
    <3>2. Lockout!Recent = {} /\ Cardinality({}) = 0
      BY <3>1, FS_EmptySet DEF Lockout!Recent
    <3>3. 0 <= Lockout!Max({1, 2 * (MaxFailures - 1)})
      <4> DEFINE bound == 2 * (MaxFailures - 1)
      <4>1. bound \in Int
        BY LimitIsPositive
      <4> HIDE DEF bound
      <4>2. 0 <= Lockout!Max({1, bound})
        BY <4>1, MaxOfTwo
      <4> QED  BY <4>2 DEF bound
    <3> QED  BY <2>1, <3>1, <3>2, <3>3
  <2>3. CASE row # Lockout!NoRow
    <3>1. Bursts /\ LockHolds
      BY <2>3 DEF LockoutInv
    <3>2. clock < locked => Lockout!checkLockout
      BY <2>1, <3>1 DEF LockHolds, Lockout!checkLockout, Lockout!InForce
    <3> QED  BY <2>1, <3>1, <3>2, RecentFailuresAreFew
  <2> QED  BY <2>2, <2>3
<1> QED  BY <1>1, LockoutInvariance, PTL

-----------------------------------------------------------------------------
(* The second factor *)

MfaCalls ==
    {Idle}
        \cup [phase : Verifying, secret : Secrets, step : Steps]
        \cup [phase : {"totp"}, code : Totp, again : BOOLEAN]
        \cup [phase : {"backup"}, code : Backup, again : BOOLEAN]

\* Whoever has shown a code of a secret has enrolled one.
SecretsAreEnrolled == \A c \in Calls : call[c].phase \in Verifying \cup {"totp"} => secret # 0

LEMMA MfaBounds ==
    /\ MaxSecrets \in Nat /\ MaxCalls \in Nat /\ MaxTime \in Nat /\ MaxTime >= 2
    /\ \A s \in Steps : s \in Nat \ {0} /\ s <= MaxTime + 1
BY AccountsAssumption DEF Steps

LEMMA MfaCallKinds ==
    ASSUME MfaTypeOK, NEW c \in Calls
    PROVE  /\ call[c].phase \in Verifying => call[c] \in [phase : Verifying, secret : Secrets, step : Steps]
           /\ call[c].phase = "totp" => call[c] \in [phase : {"totp"}, code : Totp, again : BOOLEAN]
           /\ call[c].phase = "backup" => call[c] \in [phase : {"backup"}, code : Backup, again : BOOLEAN]
BY DEF MfaTypeOK, Idle, Verifying

\* A call goes on or ends.
LEMMA AdvanceKeepsCalls ==
    ASSUME MfaTypeOK, NEW c \in Calls, NEW phase \in {"idle", "insert", "enable"}, Advance(c, phase),
           phase = "idle" \/ call[c].phase \in Verifying
    PROVE  call' \in [Calls -> MfaCalls] /\ begun' \in 0 .. MaxCalls /\ now' \in 2 .. MaxTime
<1>1. call \in [Calls -> MfaCalls]
  BY DEF MfaTypeOK, MfaCalls
<1>2. (IF phase = "idle" THEN Idle ELSE [call[c] EXCEPT !.phase = phase]) \in MfaCalls
  <2>1. CASE phase = "idle"
    BY <2>1 DEF MfaCalls
  <2>2. CASE phase # "idle"
    <3>1. call[c] \in [phase : Verifying, secret : Secrets, step : Steps] /\ phase \in Verifying
      BY <2>2, MfaCallKinds DEF Verifying
    <3>2. [call[c] EXCEPT !.phase = phase] \in [phase : Verifying, secret : Secrets, step : Steps]
      BY <3>1
    <3> QED  BY <2>2, <3>2 DEF MfaCalls
  <2> QED  BY <2>1, <2>2
<1>3. call' = [call EXCEPT ![c] = IF phase = "idle" THEN Idle ELSE [call[c] EXCEPT !.phase = phase]]
  BY DEF Advance
<1>4. call' \in [Calls -> MfaCalls]
  BY <1>1, <1>2, <1>3
<1> QED  BY <1>4 DEF Advance, MfaTypeOK

LEMMA StartKeepsMfaTypes ==
    ASSUME MfaTypeOK, NEW c \in Calls, NEW work \in MfaCalls, Start(c, work)
    PROVE  MfaTypeOK'
<1>1. call' \in [Calls -> MfaCalls]
  BY DEF Start, MfaTypeOK, MfaCalls
<1>2. begun' \in 0 .. MaxCalls
  BY MfaBounds DEF Start, Begin, MfaTypeOK
<1> QED  BY <1>1, <1>2 DEF Start, MfaTypeOK, MfaCalls, codes, history

LEMMA NextMfaTypeOK == MfaTypeOK /\ SecretsAreEnrolled /\ [MfaNext]_mfaVars => MfaTypeOK'
<1> SUFFICES ASSUME MfaTypeOK, SecretsAreEnrolled, [MfaNext]_mfaVars PROVE MfaTypeOK'
  OBVIOUS
<1> USE DEF codes, history
<1>1. CASE beginEnrollment
  <2>1. secret' \in 1 .. MaxSecrets /\ begun' \in 0 .. MaxCalls
    BY <1>1, MfaBounds DEF beginEnrollment, Begin, MfaTypeOK
  <2>2. secret' \in 0 .. MaxSecrets /\ raced' \subseteq Secrets
    <3>1. secret' \in 0 .. MaxSecrets /\ secret' \in Secrets
      BY <2>1, MfaBounds DEF Secrets
    <3>2. raced' = raced \cup {secret'} \/ raced' = raced
      BY <1>1 DEF beginEnrollment
    <3> QED  BY <3>1, <3>2 DEF MfaTypeOK
  <2> QED  BY <1>1, <2>1, <2>2 DEF beginEnrollment, MfaTypeOK
<1>2. ASSUME NEW c \in Calls, NEW step \in Steps, BeginVerify(c, step) PROVE MfaTypeOK'
  <2> DEFINE work == [phase |-> "delete", secret |-> secret, step |-> step]
  <2>1. secret \in Secrets
    BY <1>2, MfaBounds DEF BeginVerify, matchStep, MfaTypeOK, Secrets
  <2>2. work \in MfaCalls
    BY <2>1 DEF MfaCalls, Verifying
  <2> QED  BY <1>2, <2>2, StartKeepsMfaTypes DEF BeginVerify
<1>3. ASSUME NEW c \in Calls, NEW step \in Steps, BeginTotp(c, step) PROVE MfaTypeOK'
  <2> DEFINE code == [secret |-> secret, step |-> step]
             work == [phase |-> "totp", code |-> code, again |-> code \in accepted]
  <2>1. code \in Totp
    BY <1>3, MfaBounds DEF BeginTotp, matchStep, MfaTypeOK, Secrets, Totp
  <2>2. work \in MfaCalls /\ Start(c, work)
    BY <1>3, <2>1 DEF BeginTotp, MfaCalls
  <2> QED  BY <2>2, StartKeepsMfaTypes
<1>4. ASSUME NEW c \in Calls, NEW set \in Sets, BeginBackup(c, set) PROVE MfaTypeOK'
  <2> DEFINE code == [set |-> set]
             work == [phase |-> "backup", code |-> code, again |-> code \in accepted]
  <2>1. code \in Backup
    BY DEF Backup
  <2>2. work \in MfaCalls /\ Start(c, work)
    BY <1>4, <2>1 DEF BeginBackup, MfaCalls
  <2> QED  BY <2>2, StartKeepsMfaTypes
<1>5. ASSUME NEW c \in Calls, DeleteCodes(c) PROVE MfaTypeOK'
  <2>1. /\ Advance(c, "insert") /\ call[c].phase \in Verifying /\ unused' = {}
        /\ UNCHANGED <<secret, enabled, lastStep, issued, history>>
    BY <1>5 DEF DeleteCodes, In, Verifying
  <2>2. call' \in [Calls -> MfaCalls] /\ begun' \in 0 .. MaxCalls /\ now' \in 2 .. MaxTime
    BY <2>1, AdvanceKeepsCalls
  <2> QED  BY <2>1, <2>2 DEF MfaTypeOK, MfaCalls
<1>6. ASSUME NEW c \in Calls, InsertCodes(c) PROVE MfaTypeOK'
  <2>1. /\ Advance(c, "enable") /\ call[c].phase \in Verifying
        /\ issued < MaxSecrets /\ issued' = issued + 1 /\ unused' = unused \cup {issued'}
        /\ UNCHANGED <<secret, enabled, lastStep, history>>
    BY <1>6 DEF InsertCodes, In, Verifying
  <2>2. call' \in [Calls -> MfaCalls] /\ begun' \in 0 .. MaxCalls /\ now' \in 2 .. MaxTime
    BY <2>1, AdvanceKeepsCalls
  <2>3. issued' \in 0 .. MaxSecrets /\ issued' \in Sets
    BY <2>1, MfaBounds DEF MfaTypeOK, Sets
  <2> QED  BY <2>1, <2>2, <2>3 DEF MfaTypeOK, MfaCalls
<1>7. ASSUME NEW c \in Calls, Enable(c) PROVE MfaTypeOK'
  <2>1. /\ Advance(c, "idle") /\ SetLastStep(call[c].step) /\ verified' = verified \cup {call[c].secret}
        /\ enabled' = TRUE /\ UNCHANGED <<secret, unused, issued, accepted, raced>>
    BY <1>7 DEF Enable
  <2>2. call[c].step \in Steps /\ call[c].secret \in Secrets
    BY <1>7, MfaCallKinds DEF Enable, In, Verifying
  <2>3. call' \in [Calls -> MfaCalls] /\ begun' \in 0 .. MaxCalls /\ now' \in 2 .. MaxTime
    BY <2>1, AdvanceKeepsCalls
  <2>4. secret \in Secrets
    BY <1>7, MfaBounds DEF Enable, In, SecretsAreEnrolled, Verifying, MfaTypeOK, Secrets
  <2> QED  BY <2>1, <2>2, <2>3, <2>4 DEF MfaTypeOK, MfaCalls, SetLastStep
<1>8. ASSUME NEW c \in Calls, AcceptTotp(c) PROVE MfaTypeOK'
  <2>1. /\ Advance(c, "idle") /\ SetLastStep(call[c].code.step) /\ accepted' = accepted \cup {call[c].code}
        /\ UNCHANGED <<secret, enabled, unused, issued, verified, raced>>
    BY <1>8 DEF AcceptTotp
  <2>2. call[c].code \in Totp /\ call[c].code.step \in Steps
    BY <1>8, MfaCallKinds DEF AcceptTotp, In, Totp
  <2>3. call' \in [Calls -> MfaCalls] /\ begun' \in 0 .. MaxCalls /\ now' \in 2 .. MaxTime
    BY <2>1, AdvanceKeepsCalls
  <2>4. secret \in Secrets
    BY <1>8, MfaBounds DEF AcceptTotp, In, SecretsAreEnrolled, MfaTypeOK, Secrets
  <2> QED  BY <2>1, <2>2, <2>3, <2>4 DEF MfaTypeOK, MfaCalls, SetLastStep
<1>9. ASSUME NEW c \in Calls, AcceptBackup(c) PROVE MfaTypeOK'
  <2>1. /\ Advance(c, "idle") /\ accepted' = accepted \cup {call[c].code}
        /\ unused' = unused \ {call[c].code.set}
        /\ UNCHANGED <<secret, enabled, lastStep, issued, verified, raced, reopened>>
    BY <1>9 DEF AcceptBackup
  <2>2. call[c].code \in Backup
    BY <1>9, MfaCallKinds DEF AcceptBackup, In
  <2>3. call' \in [Calls -> MfaCalls] /\ begun' \in 0 .. MaxCalls /\ now' \in 2 .. MaxTime
    BY <2>1, AdvanceKeepsCalls
  <2> QED  BY <2>1, <2>2, <2>3 DEF MfaTypeOK, MfaCalls
<1>10. ASSUME NEW c \in Calls, CallDies(c) PROVE MfaTypeOK'
  <2>1. Advance(c, "idle") /\ UNCHANGED <<codes, history>>
    BY <1>10 DEF CallDies
  <2>2. call' \in [Calls -> MfaCalls] /\ begun' \in 0 .. MaxCalls /\ now' \in 2 .. MaxTime
    BY <2>1, AdvanceKeepsCalls
  <2> QED  BY <2>1, <2>2 DEF MfaTypeOK, MfaCalls
<1>11. CASE Tick
  BY <1>11, MfaBounds DEF Tick, MfaTypeOK
<1>12. CASE UNCHANGED mfaVars
  BY <1>12 DEF mfaVars, MfaTypeOK
<1> QED  BY <1>1, <1>2, <1>3, <1>4, <1>5, <1>6, <1>7, <1>8, <1>9, <1>10, <1>11, <1>12 DEF MfaNext

LEMMA SecretsStayEnrolled ==
    MfaTypeOK /\ SecretsAreEnrolled /\ [MfaNext]_mfaVars => SecretsAreEnrolled'
<1> SUFFICES ASSUME MfaTypeOK, SecretsAreEnrolled, [MfaNext]_mfaVars, secret' = 0, NEW d \in Calls,
                    call'[d].phase \in Verifying \cup {"totp"}
             PROVE  FALSE
  BY DEF SecretsAreEnrolled
<1> USE DEF codes, history
<1>0. /\ secret \in Nat /\ DOMAIN call = Calls
      /\ secret = 0 => \A c \in Calls : call[c].phase \notin Verifying \cup {"totp"}
  BY MfaBounds DEF MfaTypeOK, SecretsAreEnrolled
<1>1. ~beginEnrollment
  BY <1>0 DEF beginEnrollment
<1>2. ASSUME NEW c \in Calls, NEW step \in Steps, BeginVerify(c, step) \/ BeginTotp(c, step) PROVE FALSE
  BY <1>2 DEF BeginVerify, BeginTotp, matchStep, Start
<1>3. ASSUME NEW c \in Calls, NEW set \in Sets, BeginBackup(c, set) PROVE FALSE
  <2> DEFINE again == [set |-> set] \in accepted
  <2>1. Start(c, [phase |-> "backup", code |-> [set |-> set], again |-> again])
    BY <1>3 DEF BeginBackup
  <2>2. call' = [call EXCEPT ![c] = [phase |-> "backup", code |-> [set |-> set], again |-> again]]
    BY <2>1 DEF Start
  <2>3. secret' = secret
    BY <2>1 DEF Start
  <2>4. call'[d].phase = "backup" \/ call'[d] = call[d]
    BY <1>0, <2>2
  <2> QED  BY <1>0, <2>3, <2>4 DEF Verifying
<1>4. ASSUME NEW c \in Calls, DeleteCodes(c) \/ InsertCodes(c) PROVE FALSE
  <2>1. call[c].phase \in Verifying /\ secret' = secret
    BY <1>4 DEF DeleteCodes, InsertCodes, In, Verifying
  <2> QED  BY <1>0, <2>1
<1>5. ASSUME NEW c \in Calls, Enable(c) \/ AcceptTotp(c) \/ AcceptBackup(c) \/ CallDies(c) PROVE FALSE
  <2>1. Advance(c, "idle") /\ secret' = secret
    BY <1>5 DEF Enable, AcceptTotp, AcceptBackup, CallDies
  <2>2. call' = [call EXCEPT ![c] = Idle]
    BY <2>1 DEF Advance
  <2>3. call'[d] = Idle \/ call'[d] = call[d]
    BY <1>0, <2>2
  <2> QED  BY <1>0, <2>1, <2>3 DEF Idle, Verifying
<1>6. ~Tick /\ ~UNCHANGED mfaVars
  BY <1>0 DEF Tick, mfaVars
<1> QED  BY <1>1, <1>2, <1>3, <1>4, <1>5, <1>6 DEF MfaNext

LEMMA MfaInvariance == Spec => [](MfaTypeOK /\ SecretsAreEnrolled)
<1>1. Init => MfaTypeOK /\ SecretsAreEnrolled
  <2> SUFFICES ASSUME MfaInit PROVE MfaTypeOK /\ SecretsAreEnrolled
    BY DEF Init
  <2>1. SecretsAreEnrolled
    BY DEF MfaInit, SecretsAreEnrolled, Idle, Verifying
  <2>2. 0 \in 0 .. MaxSecrets /\ 0 \in 0 .. MaxCalls /\ 2 \in 2 .. MaxTime
    BY MfaBounds
  <2>3. MfaTypeOK
    BY <2>2 DEF MfaInit, MfaTypeOK
  <2> QED  BY <2>1, <2>3
<1>2. MfaTypeOK /\ SecretsAreEnrolled /\ [Next]_vars => (MfaTypeOK /\ SecretsAreEnrolled)'
  <2>1. [Next]_vars => [MfaNext]_mfaVars
    BY DEF Next, LockoutStep, MfaStep, AccountsStep, vars
  <2> QED  BY <2>1, NextMfaTypeOK, SecretsStayEnrolled
<1> QED  BY <1>1, <1>2, PTL DEF Spec

-----------------------------------------------------------------------------
(* Requests about accounts *)

Provisions ==
    [op : Accounts!Provisioning, phase : {"secret", "look", "insert", "join"}, user : Users,
     role : Accounts!NoneOr(Accounts!Roles), status : Accounts!Statuses]
Logins == [op : {"login"}, phase : {"session"}, user : Users, id : 0 .. MaxRequests]
Activations ==
    [op : {"deactivate", "setActive"}, phase : {"status", "sessions"}, user : Users,
     active : BOOLEAN]
RoleChanges ==
    [op : {"role"}, phase : {"read", "write"}, user : Users, role : Accounts!Roles,
     actor : Accounts!Roles, was : Accounts!NoneOr(Accounts!Roles)]
GroupChanges == [op : {"group"}, phase : {"write"}, user : Users, role : Accounts!Roles]

Works == {Accounts!Idle} \cup Provisions \cup Logins \cup Activations \cup RoleChanges \cup GroupChanges

LEMMA WorksAreTyped == Accounts!TypeOK => job \in [Calls -> Works]
BY DEF Accounts!TypeOK, Works, Provisions, Logins, Activations, RoleChanges, GroupChanges

\* Which record goes with which operation.
LEMMA WorkKinds ==
    ASSUME Accounts!TypeOK, NEW q \in Calls
    PROVE  /\ job[q].op \in Accounts!Provisioning => job[q] \in Provisions
           /\ job[q].op = "login" => job[q] \in Logins
           /\ job[q].op \in {"deactivate", "setActive"} => job[q] \in Activations
           /\ job[q].op = "role" => job[q] \in RoleChanges
           /\ job[q].op = "group" => job[q] \in GroupChanges
           /\ job[q] \in Works
BY WorksAreTyped DEF Works, Provisions, Logins, Activations, RoleChanges, GroupChanges,
   Accounts!Idle, Accounts!Provisioning

\* A request goes on as another piece of work.
LEMMA WorkGoesOn ==
    ASSUME Accounts!TypeOK, NEW q \in Calls, NEW w \in Works, job' = [job EXCEPT ![q] = w]
    PROVE  job' \in [Calls -> Works] /\ job'[q] = w /\ \A p \in Calls \ {q} : job'[p] = job[p]
BY WorksAreTyped

LEMMA StartedWork ==
    ASSUME Accounts!TypeOK, NEW q \in Calls, NEW w \in Works, Accounts!Start(q, w)
    PROVE  Accounts!TypeOK'
BY WorkGoesOn, AccountsAssumption
   DEF Accounts!Start, Accounts!Count, Accounts!TypeOK, Works, Provisions, Logins, Activations, RoleChanges,
       GroupChanges, Accounts!accounts, Accounts!configs

\* What a request may be asked to do.
LEMMA RequestsAreTyped ==
    ASSUME Accounts!TypeOK, NEW q \in Calls, NEW u \in Users,
           \/ Accounts!register(q, u) \/ Accounts!authenticate(q, u)
           \/ Accounts!deactivateUser(q, u) \/ Accounts!ssoLogin(q, u)
           \/ \E s \in {"active", "inactive"} : Accounts!scimCreateUser(q, u, s)
           \/ \E active \in BOOLEAN : Accounts!setActive(q, u, active)
           \/ \E r \in GivenRoles :
                 \/ Accounts!inviteUser(q, u, r) \/ Accounts!scimPatchGroup(q, u, r)
                 \/ \E a \in Users : Accounts!changeRole(q, a, u, r)
    PROVE  \E w \in Works : Accounts!Start(q, w)
<1>1. CASE Accounts!authenticate(q, u)
  BY <1>1 DEF Accounts!authenticate, Accounts!TypeOK, Works, Logins
<1>2. CASE Accounts!deactivateUser(q, u) \/ \E active \in BOOLEAN : Accounts!setActive(q, u, active)
  <2>1. PICK op \in {"deactivate", "setActive"}, active \in BOOLEAN :
          Accounts!Start(q, Accounts!Activation(op, u, active))
    BY <1>2 DEF Accounts!deactivateUser, Accounts!setActive
  <2> QED  BY <2>1 DEF Accounts!Activation, Works, Activations
<1>3. CASE \/ Accounts!register(q, u) \/ Accounts!ssoLogin(q, u)
           \/ \E s \in {"active", "inactive"} : Accounts!scimCreateUser(q, u, s)
           \/ \E r \in GivenRoles : Accounts!inviteUser(q, u, r)
  <2>1. PICK how \in Accounts!Provisioning, phase \in {"secret", "look"},
             r \in Accounts!NoneOr(Accounts!Roles), s \in Accounts!Statuses :
          Accounts!Start(q, Accounts!Provision(how, phase, u, r, s))
    <3>1. /\ {"none", "member", sso.role} \cup GivenRoles \subseteq Accounts!NoneOr(Accounts!Roles)
          /\ {"active", "inactive", "invited"} \subseteq Accounts!Statuses
          /\ {"register", "sso", "scim", "invite"} \subseteq Accounts!Provisioning
      BY AccountsAssumption DEF Accounts!TypeOK, Accounts!NoneOr, Accounts!Roles, Accounts!Statuses,
         Accounts!Provisioning
    <3> QED  BY <1>3, <3>1 DEF Accounts!register, Accounts!ssoLogin, Accounts!scimCreateUser,
                Accounts!inviteUser
  <2> QED  BY <2>1 DEF Accounts!Provision, Works, Provisions
<1>4. CASE \E r \in GivenRoles :
              Accounts!scimPatchGroup(q, u, r) \/ \E a \in Users : Accounts!changeRole(q, a, u, r)
  <2>1. PICK r \in GivenRoles :
          Accounts!scimPatchGroup(q, u, r) \/ \E a \in Users : Accounts!changeRole(q, a, u, r)
    BY <1>4
  <2>2. r \in Accounts!Roles
    BY AccountsAssumption DEF Accounts!Roles
  <2>3. CASE Accounts!scimPatchGroup(q, u, r)
    BY <2>2, <2>3 DEF Accounts!scimPatchGroup, Works, GroupChanges
  <2>4. CASE \E a \in Users : Accounts!changeRole(q, a, u, r)
    <3>1. PICK a \in Users : Accounts!changeRole(q, a, u, r)
      BY <2>4
    <3>2. role[a] \in Accounts!NoneOr(Accounts!Roles) /\ Accounts!hasAtLeastRole(role[a], "admin")
      BY <3>1 DEF Accounts!changeRole, Accounts!Admins, Accounts!TypeOK
    <3>3. role[a] \in Accounts!Roles
      BY <3>2 DEF Accounts!hasAtLeastRole, Accounts!ROLE_RANK, Accounts!NoneOr
    <3> QED  BY <2>2, <3>1, <3>3 DEF Accounts!changeRole, Works, RoleChanges, Accounts!NoneOr
  <2> QED  BY <2>1, <2>3, <2>4
<1> QED  BY <1>1, <1>2, <1>3, <1>4

\* How a request goes on.
LEMMA WorkIsTyped ==
    ASSUME Accounts!TypeOK, NEW q \in Calls,
           \/ Accounts!ReadSecret(q) \/ Accounts!LookUp(q) \/ Accounts!InsertAccount(q)
           \/ Accounts!Join(q) \/ Accounts!createSession(q) \/ Accounts!SetStatus(q)
           \/ Accounts!RevokeSessions(q) \/ Accounts!ReadRole(q) \/ Accounts!WriteRole(q)
           \/ Accounts!RequestDies(q)
    PROVE  \E w \in Works :
              /\ job' = [job EXCEPT ![q] = w] /\ requests' = requests
              /\ w = Accounts!Idle \/ (w.op = job[q].op /\ w.user = job[q].user)
<1>1. CASE Accounts!Done(q)
  <2>1. Accounts!Idle \in Works
    BY DEF Works
  <2>2. job' = [job EXCEPT ![q] = Accounts!Idle] /\ requests' = requests
    BY <1>1 DEF Accounts!Done
  <2> QED  BY <2>1, <2>2
<1>2. CASE \E phase \in {"look", "insert", "join", "sessions"} :
              /\ Accounts!Goto(q, phase)
              /\ phase = "sessions" => job[q] \in Activations
              /\ phase # "sessions" => job[q] \in Provisions
  <2>1. PICK phase \in {"look", "insert", "join", "sessions"} :
          /\ Accounts!Goto(q, phase)
          /\ phase = "sessions" => job[q] \in Activations
          /\ phase # "sessions" => job[q] \in Provisions
    BY <1>2
  <2> DEFINE w == [job[q] EXCEPT !.phase = phase]
  <2>2. w \in Works /\ w.op = job[q].op /\ w.user = job[q].user
    BY <2>1 DEF Works, Activations, Provisions
  <2>3. job' = [job EXCEPT ![q] = w] /\ requests' = requests
    BY <2>1 DEF Accounts!Goto
  <2> QED  BY <2>2, <2>3
<1>3. CASE Accounts!ReadRole(q) /\ ~Accounts!Done(q)
  <2> DEFINE w == [job[q] EXCEPT !.phase = "write", !.was = role[job[q].user]]
  <2>1. job[q] \in RoleChanges
    BY <1>3, WorkKinds DEF Accounts!ReadRole, Accounts!At
  <2>2. role[job[q].user] \in Accounts!NoneOr(Accounts!Roles)
    BY <2>1 DEF RoleChanges, Accounts!TypeOK
  <2>3. w \in Works /\ w.op = job[q].op /\ w.user = job[q].user
    BY <2>1, <2>2 DEF Works, RoleChanges
  <2>4. job' = [job EXCEPT ![q] = w] /\ requests' = requests
    <3>1. /\ job' = [job EXCEPT ![q].phase = "write", ![q].was = role[job[q].user]]
          /\ requests' = requests
      BY <1>3 DEF Accounts!ReadRole
    <3> QED  BY <3>1, WorksAreTyped
  <2> QED  BY <2>3, <2>4
<1>4. CASE Accounts!ReadSecret(q) \/ Accounts!LookUp(q) \/ Accounts!InsertAccount(q)
  <2>1. job[q] \in Provisions
    BY <1>4, WorkKinds DEF Accounts!ReadSecret, Accounts!LookUp, Accounts!InsertAccount, Accounts!At,
       Accounts!Provisioning
  <2> QED  BY <1>1, <1>2, <1>4, <2>1 DEF Accounts!ReadSecret, Accounts!LookUp, Accounts!InsertAccount
<1>5. CASE Accounts!SetStatus(q)
  <2>1. job[q] \in Activations
    BY <1>5, WorkKinds DEF Accounts!SetStatus, Accounts!At
  <2> QED  BY <1>1, <1>2, <1>5, <2>1 DEF Accounts!SetStatus
<1> QED  BY <1>1, <1>3, <1>4, <1>5
         DEF Accounts!Join, Accounts!createSession, Accounts!RevokeSessions, Accounts!WriteRole,
             Accounts!RequestDies

Begins(q) ==
    \/ \E u \in Users :
          \/ Accounts!register(q, u) \/ Accounts!authenticate(q, u)
          \/ Accounts!deactivateUser(q, u) \/ Accounts!ssoLogin(q, u)
          \/ \E s \in {"active", "inactive"} : Accounts!scimCreateUser(q, u, s)
          \/ \E active \in BOOLEAN : Accounts!setActive(q, u, active)
          \/ \E r \in GivenRoles :
                \/ Accounts!inviteUser(q, u, r) \/ Accounts!scimPatchGroup(q, u, r)
                \/ \E a \in Users : Accounts!changeRole(q, a, u, r)

GoesOn(q) ==
    \/ Accounts!ReadSecret(q) \/ Accounts!LookUp(q) \/ Accounts!InsertAccount(q)
    \/ Accounts!Join(q) \/ Accounts!createSession(q) \/ Accounts!SetStatus(q)
    \/ Accounts!RevokeSessions(q) \/ Accounts!ReadRole(q) \/ Accounts!WriteRole(q)
    \/ Accounts!RequestDies(q)

Configures ==
    \/ Accounts!generateScimToken \/ Accounts!revokeScimToken \/ Accounts!deleteSsoConfig
    \/ \E r \in GivenRoles, active \in BOOLEAN : Accounts!upsertSsoConfig(r, active)

LEMMA AccountsSteps ==
    ASSUME Accounts!Next
    PROVE  \/ \E q \in Calls : Begins(q) \/ GoesOn(q)
           \/ \E s \in sessions : Accounts!EndSession(s)
           \/ Configures
BY DEF Accounts!Next, Begins, GoesOn, Configures

\* Whose account a request is about.
LEMMA WorkHasUser ==
    ASSUME Accounts!TypeOK, NEW q \in Calls, job[q] # Accounts!Idle
    PROVE  job[q].user \in Users
BY WorksAreTyped DEF Works, Provisions, Logins, Activations, RoleChanges, GroupChanges

LEMMA NextAccountsType == Accounts!TypeOK /\ [Accounts!Next]_accountsVars => Accounts!TypeOK'
<1> SUFFICES ASSUME Accounts!TypeOK, [Accounts!Next]_accountsVars PROVE Accounts!TypeOK'
  OBVIOUS
<1> USE DEF Accounts!accounts, Accounts!configs
<1>1. ASSUME NEW q \in Calls, Begins(q) PROVE Accounts!TypeOK'
  <2>1. PICK w \in Works : Accounts!Start(q, w)
    BY <1>1, RequestsAreTyped DEF Begins
  <2> QED  BY <2>1, StartedWork
<1>2. ASSUME NEW q \in Calls, GoesOn(q) PROVE Accounts!TypeOK'
  <2>1. PICK w \in Works : job' = [job EXCEPT ![q] = w] /\ requests' = requests
    BY <1>2, WorkIsTyped DEF GoesOn
  <2>2. job' \in [Calls -> Works]
    BY <2>1, WorkGoesOn
  <2>3. /\ status' \in [Users -> Accounts!NoneOr(Accounts!Statuses)]
        /\ role' \in [Users -> Accounts!NoneOr(Accounts!Roles)]
        /\ passwords' \subseteq Users /\ homes' \subseteq Users /\ unrevoked' \subseteq Users
        /\ sessions' \subseteq [id : 0 .. MaxRequests, user : Users, late : BOOLEAN]
        /\ scim' = scim /\ sso' = sso
    <3>1. CASE Accounts!InsertAccount(q)
      <4>1. job[q] \in Provisions
        BY <3>1, WorkKinds DEF Accounts!InsertAccount, Accounts!At, Accounts!Provisioning
      <4>2. job[q].user \in Users /\ job[q].status \in Accounts!NoneOr(Accounts!Statuses)
        BY <4>1 DEF Provisions, Accounts!NoneOr
      <4> QED  BY <3>1, <4>2 DEF Accounts!InsertAccount, Accounts!TypeOK
    <3>2. CASE Accounts!Join(q)
      <4>1. job[q] \in Provisions
        BY <3>2, WorkKinds DEF Accounts!Join, Accounts!At, Accounts!Provisioning
      <4>2. job[q].user \in Users /\ job[q].role \in Accounts!NoneOr(Accounts!Roles)
        BY <4>1 DEF Provisions
      <4> QED  BY <3>2, <4>2 DEF Accounts!Join, Accounts!TypeOK
    <3>3. CASE Accounts!createSession(q)
      <4>1. job[q] \in Logins
        BY <3>3, WorkKinds DEF Accounts!createSession, Accounts!At
      <4>2. [id |-> job[q].id, user |-> job[q].user, late |-> status[job[q].user] # "active"]
              \in [id : 0 .. MaxRequests, user : Users, late : BOOLEAN]
        BY <4>1 DEF Logins
      <4> QED  BY <3>3, <4>2 DEF Accounts!createSession, Accounts!TypeOK
    <3>4. CASE Accounts!SetStatus(q)
      BY <3>4 DEF Accounts!SetStatus, Accounts!TypeOK, Accounts!NoneOr, Accounts!Statuses
    <3>5. CASE Accounts!RevokeSessions(q)
      BY <3>5 DEF Accounts!RevokeSessions, Accounts!TypeOK
    <3>6. CASE Accounts!WriteRole(q)
      <4>1. job[q].role \in Accounts!NoneOr(Accounts!Roles)
        BY <3>6, WorkKinds DEF Accounts!WriteRole, Accounts!At, RoleChanges, GroupChanges,
           Accounts!NoneOr
      <4> QED  BY <3>6, <4>1 DEF Accounts!WriteRole, Accounts!TypeOK
    <3>7. CASE Accounts!RequestDies(q)
      <4>1. job[q].user \in Users
        BY <3>7, WorkHasUser DEF Accounts!RequestDies
      <4> QED  BY <3>7, <4>1 DEF Accounts!RequestDies, Accounts!TypeOK
    <3>8. CASE Accounts!ReadSecret(q) \/ Accounts!LookUp(q) \/ Accounts!ReadRole(q)
      BY <3>8 DEF Accounts!ReadSecret, Accounts!LookUp, Accounts!ReadRole, Accounts!TypeOK
    <3> QED  BY <1>2, <3>1, <3>2, <3>3, <3>4, <3>5, <3>6, <3>7, <3>8 DEF GoesOn
  <2> QED  BY <2>1, <2>2, <2>3 DEF Accounts!TypeOK, Works, Provisions, Logins, Activations,
              RoleChanges, GroupChanges
<1>3. ASSUME NEW s \in sessions, Accounts!EndSession(s) PROVE Accounts!TypeOK'
  BY <1>3 DEF Accounts!EndSession, Accounts!TypeOK
<1>4. CASE Configures
  <2>1. sso' \in [role : Accounts!NoneOr(Accounts!Roles), active : BOOLEAN] /\ scim' \in BOOLEAN
    <3>1. GivenRoles \cup {"none"} \subseteq Accounts!NoneOr(Accounts!Roles)
      BY AccountsAssumption DEF Accounts!NoneOr, Accounts!Roles
    <3>2. CASE \E r \in GivenRoles, active \in BOOLEAN : Accounts!upsertSsoConfig(r, active)
      BY <3>1, <3>2 DEF Accounts!upsertSsoConfig, Accounts!TypeOK
    <3>3. CASE Accounts!deleteSsoConfig
      BY <3>1, <3>3 DEF Accounts!deleteSsoConfig, Accounts!NoSso, Accounts!TypeOK
    <3>4. CASE Accounts!generateScimToken \/ Accounts!revokeScimToken
      BY <3>4 DEF Accounts!generateScimToken, Accounts!revokeScimToken, Accounts!TypeOK
    <3> QED  BY <1>4, <3>2, <3>3, <3>4 DEF Configures
  <2>2. requests' \in 0 .. MaxRequests
    BY <1>4, AccountsAssumption DEF Configures, Accounts!generateScimToken, Accounts!revokeScimToken,
       Accounts!deleteSsoConfig, Accounts!upsertSsoConfig, Accounts!Configure, Accounts!Count,
       Accounts!TypeOK
  <2>3. UNCHANGED <<status, role, passwords, homes, sessions, job, unrevoked>>
    BY <1>4 DEF Configures, Accounts!generateScimToken, Accounts!revokeScimToken,
       Accounts!deleteSsoConfig, Accounts!upsertSsoConfig, Accounts!Configure
  <2> QED  BY <2>1, <2>2, <2>3 DEF Accounts!TypeOK
<1>5. CASE UNCHANGED accountsVars
  BY <1>5 DEF accountsVars, Accounts!TypeOK
<1> QED  BY <1>1, <1>2, <1>3, <1>4, <1>5, AccountsSteps

-----------------------------------------------------------------------------
(* Sessions and roles *)

\* A login reads an account, and accounts are not deleted here.
SessionsHaveAccounts == \A s \in sessions : s.late \/ status[s.user] # "none"

\* What ReadRole refused to let pass.
ChangesAreEntitled ==
    \A q \in Calls :
        Accounts!At(q, {"role"}, "write") =>
            job[q].actor = "owner" \/ job[q].role = "owner" \/ job[q].was # "owner"

AccountsInv ==
    /\ Accounts!TypeOK
    /\ SessionsHaveAccounts
    /\ Accounts!SessionsOutliveOnlyOverlaps
    /\ ChangesAreEntitled

\* A step that leaves accounts, sessions and the revocations under way alone.
LEMMA SessionsFrame ==
    ASSUME AccountsInv, Accounts!TypeOK', ChangesAreEntitled',
           status' = status, sessions' \subseteq sessions, unrevoked \subseteq unrevoked',
           \A q \in Calls : Accounts!At(q, {"deactivate", "setActive"}, "sessions") =>
               \/ Accounts!At(q, {"deactivate", "setActive"}, "sessions")' /\ job'[q].user = job[q].user
               \/ job[q].user \in unrevoked'
    PROVE  AccountsInv'
<1>1. SessionsHaveAccounts'
  BY DEF AccountsInv, SessionsHaveAccounts
<1>2. Accounts!SessionsOutliveOnlyOverlaps'
  <2> SUFFICES ASSUME NEW s \in sessions', status[s.user] # "none", status[s.user] = "inactive",
                      ~s.late, s.user \notin unrevoked'
               PROVE  \E q \in Calls :
                         Accounts!At(q, {"deactivate", "setActive"}, "sessions")' /\ job'[q].user = s.user
    BY DEF Accounts!SessionsOutliveOnlyOverlaps, Accounts!validateSession
  <2>1. PICK q \in Calls : Accounts!At(q, {"deactivate", "setActive"}, "sessions") /\ job[q].user = s.user
    BY DEF AccountsInv, Accounts!SessionsOutliveOnlyOverlaps, Accounts!validateSession
  <2> QED  BY <2>1
<1> QED  BY <1>1, <1>2 DEF AccountsInv

\* A step of request q: of ChangesAreEntitled only what q has become matters.
LEMMA EntitledFrame ==
    ASSUME ChangesAreEntitled, NEW q \in Calls, \A p \in Calls \ {q} : job'[p] = job[p],
           Accounts!At(q, {"role"}, "write")' =>
               job'[q].actor = "owner" \/ job'[q].role = "owner" \/ job'[q].was # "owner"
    PROVE  ChangesAreEntitled'
BY DEF ChangesAreEntitled, Accounts!At

LEMMA OthersKeepWork ==
    ASSUME Accounts!TypeOK, NEW q \in Calls, Begins(q) \/ GoesOn(q)
    PROVE  \A p \in Calls \ {q} : job'[p] = job[p]
<1>1. CASE Begins(q)
  <2>1. PICK w \in Works : Accounts!Start(q, w)
    BY <1>1, RequestsAreTyped DEF Begins
  <2> QED  BY <2>1, WorkGoesOn DEF Accounts!Start
<1>2. CASE GoesOn(q)
  <2>1. PICK w \in Works : job' = [job EXCEPT ![q] = w]
    BY <1>2, WorkIsTyped DEF GoesOn
  <2> QED  BY <2>1, WorkGoesOn
<1> QED  BY <1>1, <1>2

LEMMA WorkStaysEntitled ==
    ASSUME AccountsInv, NEW q \in Calls, Begins(q) \/ GoesOn(q)
    PROVE  ChangesAreEntitled'
<1>0. Accounts!TypeOK /\ ChangesAreEntitled
  BY DEF AccountsInv
<1> SUFFICES ASSUME Accounts!At(q, {"role"}, "write")'
             PROVE  job'[q].actor = "owner" \/ job'[q].role = "owner" \/ job'[q].was # "owner"
  BY <1>0, OthersKeepWork, EntitledFrame
<1>1. job'[q].op = "role" /\ job'[q].phase = "write"
  BY DEF Accounts!At
<1>2. ~Begins(q)
  <2> SUFFICES ASSUME Begins(q) PROVE FALSE
    OBVIOUS
  <2>1. \A w : Accounts!Start(q, w) => w.op = "role" /\ w.phase = "write"
    BY <1>0, <1>1, WorksAreTyped DEF Accounts!Start
  <2>2. PICK u \in Users : 
          \/ Accounts!register(q, u) \/ Accounts!authenticate(q, u)
          \/ Accounts!deactivateUser(q, u) \/ Accounts!ssoLogin(q, u)
          \/ \E s \in {"active", "inactive"} : Accounts!scimCreateUser(q, u, s)
          \/ \E active \in BOOLEAN : Accounts!setActive(q, u, active)
          \/ \E r \in GivenRoles :
                \/ Accounts!inviteUser(q, u, r) \/ Accounts!scimPatchGroup(q, u, r)
                \/ \E a \in Users : Accounts!changeRole(q, a, u, r)
    BY DEF Begins
  <2>3. ~Accounts!authenticate(q, u)
    BY <2>1 DEF Accounts!authenticate
  <2>4. ~Accounts!deactivateUser(q, u) /\ \A active \in BOOLEAN : ~Accounts!setActive(q, u, active)
    BY <2>1 DEF Accounts!deactivateUser, Accounts!setActive, Accounts!Activation
  <2>5. \A r \in GivenRoles : ~Accounts!scimPatchGroup(q, u, r)
    BY <2>1 DEF Accounts!scimPatchGroup
  <2>6. \A r \in GivenRoles, a \in Users : ~Accounts!changeRole(q, a, u, r)
    BY <2>1 DEF Accounts!changeRole
  <2>7. \A how, phase, r, s : Accounts!Start(q, Accounts!Provision(how, phase, u, r, s)) => how = "role"
    BY <2>1 DEF Accounts!Provision
  <2>8. ~Accounts!register(q, u) /\ ~Accounts!ssoLogin(q, u)
    BY <2>7 DEF Accounts!register, Accounts!ssoLogin
  <2>9. /\ \A s \in {"active", "inactive"} : ~Accounts!scimCreateUser(q, u, s)
        /\ \A r \in GivenRoles : ~Accounts!inviteUser(q, u, r)
    BY <2>7 DEF Accounts!scimCreateUser, Accounts!inviteUser
  <2> QED  BY <2>2, <2>3, <2>4, <2>5, <2>6, <2>8, <2>9
<1>3. PICK w \in Works :
        /\ job' = [job EXCEPT ![q] = w]
        /\ w = Accounts!Idle \/ (w.op = job[q].op /\ w.user = job[q].user)
  BY <1>0, <1>2, WorkIsTyped DEF GoesOn
<1>4. job[q].op = "role" /\ job[q] \in RoleChanges
  <2>1. w = job'[q]
    BY <1>0, <1>3, WorkGoesOn
  <2>2. w # Accounts!Idle
    BY <1>1, <2>1 DEF Accounts!Idle
  <2> QED  BY <1>0, <1>1, <1>3, <2>1, <2>2, WorkKinds
<1>5. ~Accounts!Done(q)
  BY <1>0, <1>1, WorksAreTyped DEF Accounts!Done, Accounts!Idle
<1>6. Accounts!ReadRole(q)
  <2>1. ~Accounts!RequestDies(q) /\ ~Accounts!WriteRole(q)
    BY <1>5 DEF Accounts!RequestDies, Accounts!WriteRole
  <2> QED  BY <1>2, <1>4, <2>1 DEF GoesOn, Accounts!ReadSecret, Accounts!LookUp, Accounts!InsertAccount,
         Accounts!Join, Accounts!createSession, Accounts!SetStatus, Accounts!RevokeSessions,
         Accounts!At, Accounts!Provisioning
<1>7. /\ job' = [job EXCEPT ![q].phase = "write", ![q].was = role[job[q].user]]
      /\ ~(role[job[q].user] = "owner" /\ job[q].role # "owner" /\ job[q].actor # "owner")
  BY <1>5, <1>6 DEF Accounts!ReadRole
<1>8. /\ job'[q].was = role[job[q].user]
      /\ job'[q].role = job[q].role /\ job'[q].actor = job[q].actor
  BY <1>0, <1>4, <1>7, WorksAreTyped DEF RoleChanges
<1> QED  BY <1>7, <1>8

LEMMA WorkKeepsAccountsInv ==
    ASSUME AccountsInv, NEW q \in Calls, Begins(q) \/ GoesOn(q), Accounts!TypeOK'
    PROVE  AccountsInv'
<1>0. Accounts!TypeOK /\ SessionsHaveAccounts /\ Accounts!SessionsOutliveOnlyOverlaps
  BY DEF AccountsInv
<1>1. ChangesAreEntitled' /\ \A p \in Calls \ {q} : job'[p] = job[p]
  BY <1>0, WorkStaysEntitled, OthersKeepWork
<1> DEFINE Revoking(p) == Accounts!At(p, {"deactivate", "setActive"}, "sessions")
<1>2. CASE Begins(q)
  <2>1. PICK w \in Works : Accounts!Start(q, w)
    BY <1>0, <1>2, RequestsAreTyped DEF Begins
  <2>2. ~Revoking(q)
    BY <2>1 DEF Accounts!Start, Accounts!At, Accounts!Idle
  <2>3. UNCHANGED <<status, sessions, unrevoked>>
    BY <2>1 DEF Accounts!Start, Accounts!accounts
  <2> QED  BY <1>1, <2>2, <2>3, SessionsFrame DEF Accounts!At
<1>3. CASE \/ Accounts!ReadSecret(q) \/ Accounts!LookUp(q) \/ Accounts!Join(q)
           \/ Accounts!ReadRole(q) \/ Accounts!WriteRole(q)
  <2>1. ~Revoking(q)
    BY <1>3 DEF Accounts!ReadSecret, Accounts!LookUp, Accounts!Join, Accounts!ReadRole,
       Accounts!WriteRole, Accounts!At, Accounts!Provisioning
  <2>2. UNCHANGED <<status, sessions, unrevoked>>
    BY <1>3 DEF Accounts!ReadSecret, Accounts!LookUp, Accounts!Join, Accounts!ReadRole,
       Accounts!WriteRole, Accounts!accounts
  <2> QED  BY <1>1, <2>1, <2>2, SessionsFrame DEF Accounts!At
<1>4. CASE Accounts!RequestDies(q)
  <2>1. /\ UNCHANGED <<status, sessions>> /\ unrevoked \subseteq unrevoked'
        /\ Revoking(q) => job[q].user \in unrevoked'
    BY <1>4 DEF Accounts!RequestDies, Accounts!At, Accounts!accounts
  <2>2. \A p \in Calls : Revoking(p) =>
           \/ (Accounts!At(p, {"deactivate", "setActive"}, "sessions")' /\ job'[p].user = job[p].user)
           \/ job[p].user \in unrevoked'
    <3> SUFFICES ASSUME NEW p \in Calls, p # q, Revoking(p)
                 PROVE  /\ Accounts!At(p, {"deactivate", "setActive"}, "sessions")'
                        /\ job'[p].user = job[p].user
      BY <2>1
    <3> QED  BY <1>1 DEF Accounts!At
  <2>3. status' = status /\ sessions' \subseteq sessions /\ unrevoked \subseteq unrevoked'
    BY <2>1
  <2> QED  BY <1>1, <2>2, <2>3, SessionsFrame
<1>5. CASE Accounts!InsertAccount(q) /\ UNCHANGED status
  <2>1. ~Revoking(q)
    BY <1>5 DEF Accounts!InsertAccount, Accounts!At, Accounts!Provisioning
  <2>2. UNCHANGED <<status, sessions, unrevoked>>
    BY <1>5 DEF Accounts!InsertAccount
  <2> QED  BY <1>1, <2>1, <2>2, SessionsFrame DEF Accounts!At
<1>6. CASE Accounts!InsertAccount(q) /\ status' # status
  <2> DEFINE u == job[q].user
  <2>1. /\ status[u] = "none" /\ \A v \in Users \ {u} : status'[v] = status[v]
        /\ sessions' = sessions /\ unrevoked' = unrevoked
    BY <1>0, <1>6 DEF Accounts!InsertAccount, Accounts!TypeOK
  <2>2. job[q] \in Provisions /\ u \in Users /\ status' = [status EXCEPT ![u] = job[q].status]
    <3>1. job[q] \in Provisions
      BY <1>0, <1>6, WorkKinds DEF Accounts!InsertAccount, Accounts!At, Accounts!Provisioning
    <3> QED  BY <1>6, <3>1 DEF Accounts!InsertAccount, Provisions
  <2>3. status'[u] # "none"
    BY <1>0, <2>2 DEF Accounts!TypeOK, Provisions, Accounts!Statuses
  <2>4. \A s \in sessions : s.user \in Users
    BY <1>0 DEF Accounts!TypeOK
  <2>5. SessionsHaveAccounts'
    BY <1>0, <2>1, <2>3, <2>4 DEF SessionsHaveAccounts
  <2>6. ~Revoking(q)
    BY <2>2 DEF Accounts!At, Provisions, Accounts!Provisioning
  <2>7. Accounts!SessionsOutliveOnlyOverlaps'
    <3> SUFFICES ASSUME NEW s \in sessions', status'[s.user] = "inactive", ~s.late,
                        s.user \notin unrevoked'
                 PROVE  \E p \in Calls :
                           Accounts!At(p, {"deactivate", "setActive"}, "sessions")' /\ job'[p].user = s.user
      BY DEF Accounts!SessionsOutliveOnlyOverlaps, Accounts!validateSession
    <3>1. s.user # u /\ status[s.user] = "inactive" /\ status[s.user] # "none"
      BY <1>0, <2>1, <2>4 DEF SessionsHaveAccounts
    <3>2. PICK p \in Calls : Revoking(p) /\ job[p].user = s.user
      BY <1>0, <2>1, <3>1 DEF Accounts!SessionsOutliveOnlyOverlaps, Accounts!validateSession
    <3> QED  BY <1>1, <2>6, <3>2 DEF Accounts!At
  <2> QED  BY <1>1, <2>5, <2>7 DEF AccountsInv
<1>7. CASE Accounts!createSession(q)
  <2> DEFINE new == [id |-> job[q].id, user |-> job[q].user, late |-> status[job[q].user] # "active"]
  <2>1. sessions' = sessions \cup {new} /\ UNCHANGED <<status, unrevoked>>
    BY <1>7 DEF Accounts!createSession, Accounts!accounts
  <2>2. /\ new.user = job[q].user
        /\ ~new.late => status[new.user] = "active"
    OBVIOUS
  <2> HIDE DEF new
  <2>3. SessionsHaveAccounts'
    BY <1>0, <2>1, <2>2 DEF SessionsHaveAccounts
  <2>4. ~Revoking(q)
    BY <1>7 DEF Accounts!createSession, Accounts!At
  <2>5. Accounts!SessionsOutliveOnlyOverlaps'
    <3> SUFFICES ASSUME NEW s \in sessions', status'[s.user] = "inactive", ~s.late,
                        s.user \notin unrevoked'
                 PROVE  \E p \in Calls :
                           Accounts!At(p, {"deactivate", "setActive"}, "sessions")' /\ job'[p].user = s.user
      BY DEF Accounts!SessionsOutliveOnlyOverlaps, Accounts!validateSession
    <3>1. s \in sessions
      BY <2>1, <2>2
    <3>2. PICK p \in Calls : Revoking(p) /\ job[p].user = s.user
      BY <1>0, <2>1, <3>1 DEF Accounts!SessionsOutliveOnlyOverlaps, Accounts!validateSession
    <3> QED  BY <1>1, <2>4, <3>2 DEF Accounts!At
  <2> QED  BY <1>1, <2>3, <2>5 DEF AccountsInv
<1>8. CASE Accounts!SetStatus(q)
  <2> DEFINE u == job[q].user
  <2>1. job[q] \in Activations /\ u \in Users /\ ~Revoking(q)
    <3>1. job[q] \in Activations
      BY <1>0, <1>8, WorkKinds DEF Accounts!SetStatus, Accounts!At
    <3> QED  BY <1>8, <3>1 DEF Activations, Accounts!SetStatus, Accounts!At
  <2>2. /\ status' = [status EXCEPT ![u] = IF job[q].active THEN "active" ELSE "inactive"]
        /\ sessions' = sessions /\ unrevoked' = unrevoked
        /\ ~job[q].active => Accounts!Goto(q, "sessions")
    BY <1>8 DEF Accounts!SetStatus
  <2>3. /\ \A v \in Users \ {u} : status'[v] = status[v]
        /\ status'[u] # "none"
        /\ status'[u] = "inactive" => ~job[q].active
    BY <1>0, <2>1, <2>2 DEF Accounts!TypeOK
  <2>4. status'[u] = "inactive" => Accounts!At(q, {"deactivate", "setActive"}, "sessions")' /\ job'[q].user = u
    BY <1>0, <2>1, <2>2, <2>3, WorksAreTyped DEF Accounts!Goto, Accounts!At, Activations
  <2>5. \A s \in sessions : s.user \in Users
    BY <1>0 DEF Accounts!TypeOK
  <2>6. SessionsHaveAccounts'
    BY <1>0, <2>2, <2>3, <2>5 DEF SessionsHaveAccounts
  <2>7. Accounts!SessionsOutliveOnlyOverlaps'
    <3> SUFFICES ASSUME NEW s \in sessions', status'[s.user] = "inactive", ~s.late,
                        s.user \notin unrevoked'
                 PROVE  \E p \in Calls :
                           Accounts!At(p, {"deactivate", "setActive"}, "sessions")' /\ job'[p].user = s.user
      BY DEF Accounts!SessionsOutliveOnlyOverlaps, Accounts!validateSession
    <3>1. CASE s.user = u
      BY <2>4, <3>1
    <3>2. CASE s.user # u
      <4>1. PICK p \in Calls : Revoking(p) /\ job[p].user = s.user
        BY <1>0, <2>2, <2>3, <2>5, <3>2 DEF Accounts!SessionsOutliveOnlyOverlaps,
           Accounts!validateSession
      <4> QED  BY <1>1, <2>1, <4>1 DEF Accounts!At
    <3> QED  BY <3>1, <3>2
  <2> QED  BY <1>1, <2>6, <2>7 DEF AccountsInv
<1>9. CASE Accounts!RevokeSessions(q)
  <2> DEFINE u == job[q].user
  <2>1. /\ sessions' = {s \in sessions : s.user # u} /\ status' = status
        /\ unrevoked' = unrevoked \ {u}
    BY <1>9 DEF Accounts!RevokeSessions, Accounts!accounts
  <2>2. SessionsHaveAccounts'
    BY <1>0, <2>1 DEF SessionsHaveAccounts
  <2>3. Accounts!SessionsOutliveOnlyOverlaps'
    <3> SUFFICES ASSUME NEW s \in sessions', status'[s.user] = "inactive", ~s.late,
                        s.user \notin unrevoked'
                 PROVE  \E p \in Calls :
                           Accounts!At(p, {"deactivate", "setActive"}, "sessions")' /\ job'[p].user = s.user
      BY DEF Accounts!SessionsOutliveOnlyOverlaps, Accounts!validateSession
    <3>1. s \in sessions /\ s.user # u /\ s.user \notin unrevoked
      BY <2>1
    <3>2. PICK p \in Calls : Revoking(p) /\ job[p].user = s.user
      BY <1>0, <2>1, <3>1 DEF Accounts!SessionsOutliveOnlyOverlaps, Accounts!validateSession
    <3> QED  BY <1>1, <3>1, <3>2 DEF Accounts!At
  <2> QED  BY <1>1, <2>2, <2>3 DEF AccountsInv
<1> QED  BY <1>2, <1>3, <1>4, <1>5, <1>6, <1>7, <1>8, <1>9 DEF GoesOn

LEMMA NextAccountsInv == AccountsInv /\ [Accounts!Next]_accountsVars => AccountsInv'
<1> SUFFICES ASSUME AccountsInv, [Accounts!Next]_accountsVars PROVE AccountsInv'
  OBVIOUS
<1>0. Accounts!TypeOK /\ Accounts!TypeOK' /\ ChangesAreEntitled
  BY NextAccountsType DEF AccountsInv
<1>1. ASSUME NEW q \in Calls, Begins(q) \/ GoesOn(q) PROVE AccountsInv'
  BY <1>0, <1>1, WorkKeepsAccountsInv
<1>2. ASSUME UNCHANGED <<status, unrevoked, job>>, sessions' \subseteq sessions PROVE AccountsInv'
  <2>1. ChangesAreEntitled'
    BY <1>0, <1>2 DEF ChangesAreEntitled, Accounts!At
  <2>2. \A q \in Calls : Accounts!At(q, {"deactivate", "setActive"}, "sessions") =>
            /\ Accounts!At(q, {"deactivate", "setActive"}, "sessions")'
            /\ job'[q].user = job[q].user
    BY <1>2 DEF Accounts!At
  <2> QED  BY <1>0, <1>2, <2>1, <2>2, SessionsFrame
<1>3. ASSUME NEW s \in sessions, Accounts!EndSession(s) PROVE AccountsInv'
  BY <1>2, <1>3 DEF Accounts!EndSession, Accounts!accounts
<1>4. CASE Configures
  BY <1>2, <1>4 DEF Configures, Accounts!generateScimToken, Accounts!revokeScimToken,
     Accounts!deleteSsoConfig, Accounts!upsertSsoConfig, Accounts!Configure, Accounts!accounts
<1>5. CASE UNCHANGED accountsVars
  BY <1>2, <1>5 DEF accountsVars
<1> QED  BY <1>1, <1>3, <1>4, <1>5, AccountsSteps

LEMMA InitAccountsInv == Accounts!Init => AccountsInv
<1> SUFFICES ASSUME Accounts!Init PROVE AccountsInv
  OBVIOUS
<1>1. Accounts!TypeOK
  BY AccountsAssumption DEF Accounts!Init, Accounts!TypeOK, Accounts!NoneOr, Accounts!Statuses,
     Accounts!Roles, Accounts!NoSso
<1>2. ChangesAreEntitled
  BY DEF Accounts!Init, Accounts!Idle, Accounts!At, ChangesAreEntitled
<1> QED  BY <1>1, <1>2 DEF Accounts!Init, AccountsInv, SessionsHaveAccounts,
            Accounts!SessionsOutliveOnlyOverlaps

\* Of the instance's steps only those of Accounts touch its variables.
LEMMA StepsOfAccounts == [Next]_vars => [Accounts!Next]_accountsVars
BY DEF Next, LockoutStep, MfaStep, AccountsStep, vars

LEMMA AccountsInvariance == Spec => []AccountsInv
<1>1. Init => AccountsInv
  BY InitAccountsInv DEF Init
<1>2. AccountsInv /\ [Next]_vars => AccountsInv'
  BY NextAccountsInv, StepsOfAccounts
<1> QED  BY <1>1, <1>2, PTL DEF Spec

\* A session that still validates although its account is inactive comes from a login
\* that overlapped the deactivation, or the revocation is under way or died
\* (users.ts:121-139, scim.ts:97-103, session.ts:56-88).
THEOREM SessionsEndWithAccounts == Spec => []SessionsOutliveOnlyOverlaps
<1>1. AccountsInv => SessionsOutliveOnlyOverlaps
  BY DEF AccountsInv, SessionsOutliveOnlyOverlaps
<1> QED  BY <1>1, AccountsInvariance, PTL

\* Only WriteRole, the UPDATE of a role change, takes the role of an owner away.
LEMMA OwnersStay ==
    ASSUME AccountsInv, [Accounts!Next]_accountsVars, NEW u \in Users,
           role[u] = "owner", role'[u] # "owner"
    PROVE  \E q \in Calls : Accounts!WriteRole(q) /\ job[q].user = u
<1>0. Accounts!TypeOK
  BY DEF AccountsInv
<1>1. ASSUME NEW q \in Calls, Begins(q) PROVE FALSE
  <2>1. PICK w \in Works : Accounts!Start(q, w)
    BY <1>0, <1>1, RequestsAreTyped DEF Begins
  <2> QED  BY <2>1 DEF Accounts!Start
<1>2. ASSUME NEW q \in Calls, GoesOn(q) PROVE Accounts!WriteRole(q) /\ job[q].user = u
  <2>1. ~Accounts!Join(q)
    <3> SUFFICES ASSUME Accounts!Join(q) PROVE FALSE
      OBVIOUS
    <3>1. \/ role' = role
          \/ role' = [role EXCEPT ![job[q].user] = IF @ = "none" THEN job[q].role ELSE @]
      BY DEF Accounts!Join
    <3> QED  BY <1>0, <3>1 DEF Accounts!TypeOK
  <2>2. Accounts!WriteRole(q)
    BY <1>2, <2>1 DEF GoesOn, Accounts!ReadSecret, Accounts!LookUp, Accounts!InsertAccount,
       Accounts!createSession, Accounts!SetStatus, Accounts!RevokeSessions, Accounts!ReadRole,
       Accounts!RequestDies
  <2>3. job[q].user = u
    BY <1>0, <2>2 DEF Accounts!WriteRole, Accounts!TypeOK
  <2> QED  BY <2>2, <2>3
<1>3. ASSUME NEW s \in sessions, Accounts!EndSession(s) PROVE FALSE
  BY <1>3 DEF Accounts!EndSession
<1>4. ~Configures
  BY DEF Configures, Accounts!generateScimToken, Accounts!revokeScimToken,
     Accounts!deleteSsoConfig, Accounts!upsertSsoConfig, Accounts!Configure
<1>5. ~UNCHANGED accountsVars
  BY DEF accountsVars
<1> QED  BY <1>1, <1>2, <1>3, <1>4, <1>5, AccountsSteps

\* An owner falls only to an owner, to the directory, or to a request that had read
\* the role before it became an owner's (users.ts:104-108, scim.ts:142-154).
THEOREM OwnersAreDemotedByOwners == Spec => OwnersFallToOwners
<1> DEFINE Demoted ==
      \A u \in Users :
          role[u] = "owner" /\ role'[u] # "owner" =>
              \E q \in Calls :
                  /\ Accounts!At(q, {"role", "group"}, "write") /\ job[q].user = u /\ job'[q] = Accounts!Idle
                  /\ job[q].op = "role" => job[q].actor = "owner" \/ job[q].was # "owner"
<1>1. AccountsInv /\ [Next]_vars => Demoted
  <2> SUFFICES ASSUME AccountsInv, [Accounts!Next]_accountsVars, NEW u \in Users,
                      role[u] = "owner", role'[u] # "owner"
               PROVE  \E q \in Calls :
                  /\ Accounts!At(q, {"role", "group"}, "write")
                  /\ job[q].user = u /\ job'[q] = Accounts!Idle
                  /\ job[q].op = "role" => job[q].actor = "owner" \/ job[q].was # "owner"
    BY StepsOfAccounts
  <2>1. PICK q \in Calls : Accounts!WriteRole(q) /\ job[q].user = u
    BY OwnersStay
  <2>2. Accounts!TypeOK /\ ChangesAreEntitled
    BY DEF AccountsInv
  <2>3. Accounts!At(q, {"role", "group"}, "write") /\ job'[q] = Accounts!Idle
    BY <2>1, <2>2, WorksAreTyped DEF Accounts!WriteRole, Accounts!Done
  <2>4. role'[u] = job[q].role
    BY <2>1, <2>2 DEF Accounts!WriteRole, Accounts!TypeOK
  <2>5. job[q].op = "role" => job[q].actor = "owner" \/ job[q].was # "owner"
    BY <2>2, <2>3, <2>4 DEF ChangesAreEntitled, Accounts!At
  <2> QED  BY <2>1, <2>3, <2>5
<1> HIDE DEF Demoted
<1>2. Spec => [][Demoted]_(Accounts!vars)
  BY <1>1, AccountsInvariance, PTL DEF Spec
<1> QED  BY <1>2 DEF OwnersFallToOwners, Accounts!OwnersFallToOwners, Demoted

-----------------------------------------------------------------------------
(* Types *)

\* Every variable of the three modules keeps its type (abuseGuard.ts, mfa.ts, users.ts).
THEOREM AuthenticationTypeCorrect == Spec => []TypeOK
<1>1. LockoutInv /\ AccountsInv /\ MfaTypeOK => TypeOK
  BY DEF LockoutInv, LockoutTyped, AccountsInv, TypeOK
<1> QED  BY <1>1, LockoutInvariance, MfaInvariance, AccountsInvariance, PTL

=============================================================================
