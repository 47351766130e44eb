------------------------- MODULE SecurityLogProofs -------------------------
(***************************************************************************)
(* Proofs about SecurityLog for any set of writers, any contents and any   *)
(* number of appends.  The invariant behind all of them is IInv: whoever   *)
(* has passed the lock is its holder, what it read is still the tail, and  *)
(* the id it was given is above every committed id.                        *)
(***************************************************************************)
EXTENDS SecurityLog, TLAPS

\* The transactions that hold the chain lock.
Inside == {"locked", "linked", "inserted"}

\* Exactly the holder of the lock is past AcquireLock.
LockOwner == \A w \in Writers : pc[w] \in Inside <=> chainLock = w

\* Every committed id was handed out by the sequence.
IdsAllocated == \A r \in securityEvents : r.id <= lastId

\* An inserted row's id is allocated and above every committed id.
InsertIsNewest ==
    \A w \in Writers : pc[w] = "inserted" =>
        /\ rowId[w] <= lastId
        /\ \A r \in securityEvents : r.id < rowId[w]

\* The tail a writer read is the tail until it commits.
LinkIsTail ==
    \A w \in Writers : pc[w] \in {"linked", "inserted"} =>
        prevHash[w] = TailHash(securityEvents)

\* A non-empty log has a newest row (it is finite, but that need not be said).
HasNewest(rows) == rows # {} => \E r \in rows : \A s \in rows : s.id <= r.id

\* Ids are a primary key.
UniqueIds(rows) == \A r, s \in rows : r.id = s.id => r = s

IInv ==
    /\ LogTypeOK
    /\ LockOwner
    /\ IdsAllocated
    /\ InsertIsNewest
    /\ LinkIsTail
    /\ HasNewest(securityEvents)
    /\ UniqueIds(securityEvents)
    /\ BrokenRows(securityEvents) = {}

-----------------------------------------------------------------------------
(* Facts about tables *)

\* The hash of the newest row is a hash, and so is that of the empty table.
LEMMA TailIsHash ==
    ASSUME NEW rows \in SUBSET Rows, HasNewest(rows)
    PROVE  TailHash(rows) \in Hashes
<1>1. CASE rows = {}
  BY <1>1 DEF TailHash, GENESIS_HASH, Hashes
<1>2. CASE rows # {}
  <2>1. Newest(rows) \in rows
    BY <1>2 DEF HasNewest, Newest
  <2> QED  BY <1>2, <2>1 DEF TailHash, Rows
<1> QED  BY <1>1, <1>2

\* A row whose id is above every other becomes the tail.
LEMMA TailOfExtended ==
    ASSUME NEW rows \in SUBSET Rows, NEW r \in Rows, \A s \in rows : s.id < r.id
    PROVE  TailHash(rows \cup {r}) = r.hash
<1> DEFINE all == rows \cup {r}
<1>1. \A s \in all : s.id \in Nat
  BY DEF Rows
<1>2. \A s \in all : s.id <= r.id
  BY <1>1
<1>3. \A t \in all : (\A s \in all : s.id <= t.id) => t = r
  BY <1>1
<1>4. Newest(all) = r
  BY <1>2, <1>3 DEF Newest
<1> QED  BY <1>4 DEF TailHash

\* ... and leaves what comes before each row as it was.
LEMMA BeforeOfExtended ==
    ASSUME NEW rows \in SUBSET Rows, NEW r \in Rows, \A s \in rows : s.id < r.id
    PROVE  /\ RowsBefore(rows \cup {r}, r.id) = rows
           /\ \A s \in rows : RowsBefore(rows \cup {r}, s.id) = RowsBefore(rows, s.id)
<1>1. \A s \in rows \cup {r} : s.id \in Nat
  BY DEF Rows
<1> QED  BY <1>1 DEF RowsBefore

\* A table without a broken row stays so when a row that links to its tail is
\* added above it.
LEMMA ExtendedIsSound ==
    ASSUME NEW rows \in SUBSET Rows, BrokenRows(rows) = {},
           NEW r \in Rows, \A s \in rows : s.id < r.id,
           r.prevHash = TailHash(rows),
           r.hash = computeHash(TailHash(rows), r.content)
    PROVE  BrokenRows(rows \cup {r}) = {}
<1> DEFINE all == rows \cup {r}
<1>1. ~BadLink(all, r) /\ ~BadHash(all, r)
  BY BeforeOfExtended DEF BadLink, BadHash
<1>2. ASSUME NEW s \in rows PROVE ~BadLink(all, s) /\ ~BadHash(all, s)
  <2>1. RowsBefore(all, s.id) = RowsBefore(rows, s.id)
    BY BeforeOfExtended
  <2>2. ~BadLink(rows, s) /\ ~BadHash(rows, s)
    BY DEF BrokenRows
  <2> QED  BY <2>1, <2>2 DEF BadLink, BadHash
<1> QED  BY <1>1, <1>2 DEF BrokenRows

-----------------------------------------------------------------------------
(* The inductive invariant *)

LEMMA InitIInv == LogInit => IInv
<1> SUFFICES ASSUME LogInit PROVE IInv
  OBVIOUS
<1> USE DEF LogInit
<1>1. LogTypeOK
  <2>1. (CHOOSE c \in Contents : TRUE) \in Contents
    BY ContentsAssumption
  <2> QED  BY <2>1, MaxAppendsAssumption DEF LogTypeOK, Phases, Hashes, GENESIS_HASH
<1>2. LockOwner
  BY NobodyAssumption DEF LockOwner, Inside
<1>3. IdsAllocated /\ InsertIsNewest /\ LinkIsTail
  BY DEF IdsAllocated, InsertIsNewest, LinkIsTail
<1>4. HasNewest(securityEvents) /\ UniqueIds(securityEvents) /\ BrokenRows(securityEvents) = {}
  BY DEF HasNewest, UniqueIds, BrokenRows
<1> QED  BY <1>1, <1>2, <1>3, <1>4 DEF IInv

\* The row a writer commits extends the chain: used by every later proof.
LEMMA CommittedRow ==
    ASSUME IInv, NEW w \in Writers, pc[w] = "inserted"
    PROVE  /\ NewRow(w) \in Rows
           /\ \A s \in securityEvents : s.id < NewRow(w).id
           /\ NewRow(w).id <= lastId
           /\ NewRow(w).prevHash = TailHash(securityEvents)
           /\ NewRow(w).content \in Contents
           /\ NewRow(w).hash = computeHash(TailHash(securityEvents), NewRow(w).content)
<1>1. prevHash[w] \in Hashes /\ input[w] \in Contents /\ rowId[w] \in Nat
  BY DEF IInv, LogTypeOK
<1>2. computeHash(prevHash[w], input[w]) \in Hashes
  BY <1>1 DEF computeHash, Hashes
<1>3. prevHash[w] = TailHash(securityEvents)
  BY DEF IInv, LinkIsTail
<1>4. rowId[w] <= lastId /\ \A s \in securityEvents : s.id < rowId[w]
  BY DEF IInv, InsertIsNewest
<1> QED  BY <1>1, <1>2, <1>3, <1>4 DEF NewRow, Rows

LEMMA NextIInv == IInv /\ [LogNext]_logVars => IInv'
<1> SUFFICES ASSUME IInv, [LogNext]_logVars PROVE IInv'
  OBVIOUS
<1> USE NobodyAssumption
<1>0. /\ LogTypeOK /\ LockOwner /\ IdsAllocated /\ InsertIsNewest /\ LinkIsTail
      /\ HasNewest(securityEvents) /\ UniqueIds(securityEvents)
      /\ BrokenRows(securityEvents) = {}
  BY DEF IInv
<1>1. ASSUME NEW w \in Writers, NEW c \in Contents, BeginAppend(w, c) PROVE IInv'
  <2> USE <1>1 DEF BeginAppend, Step
  <2>1. LogTypeOK'
    BY <1>0, MaxAppendsAssumption DEF LogTypeOK, Phases
  <2>2. LockOwner'
    BY <1>0 DEF LockOwner, Inside, LogTypeOK
  <2>3. IdsAllocated' /\ InsertIsNewest' /\ LinkIsTail'
    BY <1>0 DEF IdsAllocated, InsertIsNewest, LinkIsTail, LogTypeOK
  <2> QED  BY <1>0, <2>1, <2>2, <2>3 DEF IInv
<1>2. ASSUME NEW w \in Writers, AcquireLock(w) PROVE IInv'
  <2> USE <1>2 DEF AcquireLock, Step
  <2>1. LogTypeOK'
    BY <1>0 DEF LogTypeOK, Phases
  <2>2. LockOwner'
    BY <1>0 DEF LockOwner, Inside, LogTypeOK
  <2>3. IdsAllocated' /\ InsertIsNewest' /\ LinkIsTail'
    BY <1>0 DEF IdsAllocated, InsertIsNewest, LinkIsTail, LogTypeOK
  <2> QED  BY <1>0, <2>1, <2>2, <2>3 DEF IInv
<1>3. ASSUME NEW w \in Writers, ReadTail(w) PROVE IInv'
  <2> USE <1>3 DEF ReadTail, Step
  <2>1. LogTypeOK'
    <3>1. TailHash(securityEvents) \in Hashes
      BY <1>0, TailIsHash DEF LogTypeOK
    <3> QED  BY <1>0, <3>1 DEF LogTypeOK, Phases
  <2>2. LockOwner'
    BY <1>0 DEF LockOwner, Inside, LogTypeOK
  <2>3. IdsAllocated' /\ InsertIsNewest' /\ LinkIsTail'
    BY <1>0 DEF IdsAllocated, InsertIsNewest, LinkIsTail, LogTypeOK
  <2> QED  BY <1>0, <2>1, <2>2, <2>3 DEF IInv
<1>4. ASSUME NEW w \in Writers, InsertRow(w) PROVE IInv'
  <2> USE <1>4 DEF InsertRow, Step
  <2>1. LogTypeOK'
    BY <1>0 DEF LogTypeOK, Phases
  <2>2. LockOwner'
    BY <1>0 DEF LockOwner, Inside, LogTypeOK
  <2>3. IdsAllocated' /\ LinkIsTail'
    BY <1>0 DEF IdsAllocated, LinkIsTail, LogTypeOK, Rows
  <2>4. InsertIsNewest'
    <3>1. \A v \in Writers : v # w => pc[v] # "inserted"
      BY <1>0 DEF LockOwner, Inside
    <3>2. \A r \in securityEvents : r.id < lastId + 1
      BY <1>0 DEF IdsAllocated, LogTypeOK, Rows
    <3> QED  BY <1>0, <3>1, <3>2 DEF InsertIsNewest, LogTypeOK
  <2> QED  BY <1>0, <2>1, <2>2, <2>3, <2>4 DEF IInv
<1>5. ASSUME NEW w \in Writers, CommitAppend(w) PROVE IInv'
  <2> DEFINE row == NewRow(w)
  <2>0. /\ pc[w] = "inserted" /\ pc' = [pc EXCEPT ![w] = "idle"]
        /\ securityEvents' = securityEvents \cup {row}
        /\ chainLock' = Nobody
        /\ prevHash' = [prevHash EXCEPT ![w] = GENESIS_HASH]
        /\ rowId' = [rowId EXCEPT ![w] = 0]
        /\ UNCHANGED <<lastId, input, begun>>
    BY <1>5 DEF CommitAppend, Step, Forget
  <2>1. /\ row \in Rows /\ \A s \in securityEvents : s.id < row.id
        /\ row.id <= lastId
        /\ row.prevHash = TailHash(securityEvents)
        /\ row.hash = computeHash(TailHash(securityEvents), row.content)
    BY <2>0, CommittedRow
  <2> HIDE DEF row
  <2>2. securityEvents \in SUBSET Rows
    BY <1>0 DEF LogTypeOK
  <2>3. LogTypeOK'
    BY <1>0, <2>0, <2>1 DEF LogTypeOK, Phases, Hashes, GENESIS_HASH
  <2>4. \A v \in Writers : pc'[v] \notin Inside
    BY <1>0, <2>0 DEF LockOwner, Inside, LogTypeOK
  <2>5. LockOwner' /\ InsertIsNewest' /\ LinkIsTail'
    BY <2>0, <2>4 DEF LockOwner, InsertIsNewest, LinkIsTail, Inside
  <2>6. IdsAllocated'
    BY <1>0, <2>0, <2>1 DEF IdsAllocated
  <2>7. HasNewest(securityEvents')
    <3>1. \A s \in securityEvents' : s.id <= row.id
      BY <2>0, <2>1, <2>2 DEF Rows
    <3> QED  BY <2>0, <3>1 DEF HasNewest
  <2>8. UniqueIds(securityEvents')
    BY <1>0, <2>0, <2>1, <2>2 DEF UniqueIds, Rows
  <2>9. BrokenRows(securityEvents') = {}
    BY <1>0, <2>0, <2>1, <2>2, ExtendedIsSound
  <2> QED  BY <2>3, <2>5, <2>6, <2>7, <2>8, <2>9 DEF IInv
<1>6. ASSUME NEW w \in Writers, AbortAppend(w) PROVE IInv'
  <2> USE <1>6 DEF AbortAppend, Forget
  <2>1. LogTypeOK'
    BY <1>0 DEF LogTypeOK, Phases, Hashes, GENESIS_HASH
  <2>2. LockOwner'
    BY <1>0 DEF LockOwner, Inside, LogTypeOK
  <2>3. IdsAllocated' /\ InsertIsNewest' /\ LinkIsTail'
    BY <1>0 DEF IdsAllocated, InsertIsNewest, LinkIsTail, LogTypeOK
  <2> QED  BY <1>0, <2>1, <2>2, <2>3 DEF IInv
<1>7. ASSUME UNCHANGED logVars PROVE IInv'
  BY <1>0, <1>7 DEF logVars, IInv, LogTypeOK, LockOwner, IdsAllocated, InsertIsNewest, LinkIsTail
<1> QED  BY <1>1, <1>2, <1>3, <1>4, <1>5, <1>6, <1>7 DEF LogNext, Progress

THEOREM Invariance == LogSpec => []IInv
<1>1. LogInit => IInv
  BY InitIInv
<1>2. IInv /\ [LogNext]_logVars => IInv'
  BY NextIInv
<1> QED  BY <1>1, <1>2, PTL DEF LogSpec

-----------------------------------------------------------------------------
(* What the log promises *)

\* Every variable of the writers keeps its type.
THEOREM TypeCorrect == LogSpec => []LogTypeOK
<1>1. IInv => LogTypeOK
  BY DEF IInv
<1> QED  BY <1>1, Invariance, PTL

\* However many writers append at once, and wherever they fail, the verifier
\* accepts the chain they leave.
THEOREM ChainNeverForks == LogSpec => []ChainVerifies
<1>1. IInv => ChainVerifies
  BY DEF IInv, ChainVerifies, verifyChain
<1> QED  BY <1>1, Invariance, PTL

\* The rows become visible in the order of their ids.
THEOREM IdOrderIsCommitOrder == LogSpec => CommitsInIdOrder
<1> DEFINE InOrder == \A r \in securityEvents' \ securityEvents :
                          \A s \in securityEvents : s.id < r.id
<1>1. IInv /\ [LogNext]_logVars => [InOrder]_logVars
  <2> SUFFICES ASSUME IInv, LogNext PROVE InOrder
    OBVIOUS
  <2>1. ASSUME NEW w \in Writers, CommitAppend(w) PROVE InOrder
    <3>1. pc[w] = "inserted" /\ securityEvents' = securityEvents \cup {NewRow(w)}
      BY <2>1 DEF CommitAppend, Step
    <3> QED  BY <3>1, CommittedRow
  <2>2. (~\E w \in Writers : CommitAppend(w)) => securityEvents' = securityEvents
    BY DEF LogNext, Progress, BeginAppend, AcquireLock, ReadTail, InsertRow, AbortAppend
  <2> QED  BY <2>1, <2>2
<1> QED  BY <1>1, Invariance, PTL DEF LogSpec, CommitsInIdOrder

\* Read through its newest hash the table is a list that grows by one element
\* at its end: the detailed log implements EventList.
THEOREM ImplementsList == LogSpec => ImplementsEventList
<1>1. LogInit => EventLog!ListInit
  BY DEF LogInit, EventLog!ListInit, TailHash, GENESIS_HASH
<1>2. IInv /\ [LogNext]_logVars => [EventLog!Extend]_(TailHash(securityEvents))
  <2> SUFFICES ASSUME IInv, [LogNext]_logVars,
                      TailHash(securityEvents') # TailHash(securityEvents)
               PROVE  EventLog!Extend
    OBVIOUS
  <2>1. securityEvents' # securityEvents
    OBVIOUS
  <2>2. PICK w \in Writers : CommitAppend(w)
    BY <2>1 DEF LogNext, Progress, BeginAppend, AcquireLock, ReadTail, InsertRow,
                AbortAppend, logVars
  <2>3. pc[w] = "inserted" /\ securityEvents' = securityEvents \cup {NewRow(w)}
    BY <2>2 DEF CommitAppend, Step
  <2>4. /\ NewRow(w) \in Rows /\ \A s \in securityEvents : s.id < NewRow(w).id
        /\ NewRow(w).content \in Contents
        /\ NewRow(w).hash = computeHash(TailHash(securityEvents), NewRow(w).content)
    BY <2>3, CommittedRow
  <2>5. TailHash(securityEvents') = NewRow(w).hash
    BY <2>3, <2>4, TailOfExtended DEF IInv, LogTypeOK
  <2> QED  BY <2>4, <2>5 DEF EventLog!Extend, computeHash
<1> QED  BY <1>1, <1>2, Invariance, PTL DEF LogSpec, ImplementsEventList, EventLog!ListSpec
=============================================================================
