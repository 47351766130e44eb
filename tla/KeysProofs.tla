----------------------------- MODULE KeysProofs -----------------------------
(***************************************************************************)
(* Proofs about Keys, for any number of overlapping rotations, rows and    *)
(* keys and any page size.                                                 *)
(*                                                                         *)
(* IInv adds to the properties of versions what keeps overlapping          *)
(* rotations apart: a retired version has a successor, so a version whose  *)
(* successor's number is free is the active one, and two rotations that    *)
(* are about to commit never started from one version.  LockInv says that  *)
(* a rotation beside which no row was written has locked only rows that    *)
(* come before those it waits for.  SkipInv says that each row a rotation  *)
(* has gone past and not updated was shifted by an erasure of its own.     *)
(***************************************************************************)
EXTENDS Keys, Sequences, TLAPS, FiniteSetTheorems, WellFoundedInduction

USE KeysAssumption

HasVersion(n) == \E v \in versions : v.no = n

\* Versions are numbered from 1 without a gap.
VersionsAreNumbered ==
    /\ versions # {} => HasVersion(1)
    /\ \A v \in versions : v.active \/ HasVersion(v.no + 1)

\* A rotation started from a version that is still retained.
RotationsHaveASource ==
    \A q \in Owners : Updating(q) => HasVersion(rotation[q].current)

\* A rotation about to commit is the only one from its version, and the first.
CommitsAreExclusive ==
    \A q \in Owners : In(q, "commit") =>
        /\ ~HasVersion(rotation[q].current + 1)
        /\ \A p \in Owners : In(p, "commit") /\ rotation[p].current = rotation[q].current => p = q

\* A rotation that is about to announce has committed its key.
AnnouncesCommitted ==
    \A q \in Owners : In(q, "announce") =>
        \E v \in versions : v.no = rotation[q].current + 1 /\ v.dek # TenantKey

IInv ==
    /\ TypeOK
    /\ OneActiveKey
    /\ EveryCiphertextHasAKey
    /\ AnnouncedRotationsHappened
    /\ VersionsAreNumbered
    /\ RotationsHaveASource
    /\ CommitsAreExclusive
    /\ AnnouncesCommitted

-----------------------------------------------------------------------------
(* Which record goes with which phase *)

LEMMA PhaseKinds ==
    ASSUME TypeOK, NEW q \in Owners
    PROVE  /\ rotation[q].phase \in {"ensure", "ensuring", "read"} => rotation[q] \in Preparing
           /\ rotation[q].phase \in {"rows", "commit", "announce"} => rotation[q] \in Rotating
BY DEF TypeOK, Idle, Preparing, Rotating

\* Giving one owner another record of the right kind keeps the type of them all.
LEMMA BecomeKeepsType ==
    ASSUME TypeOK, NEW q \in Owners, NEW r \in {Idle} \cup Preparing \cup Rotating, Become(q, r)
    PROVE  /\ rotation' \in [Owners -> {Idle} \cup Preparing \cup Rotating]
           /\ rotation'[q] = r
           /\ \A p \in Owners \ {q} : rotation'[p] = rotation[p]
BY DEF TypeOK, Become

-----------------------------------------------------------------------------
(* Types *)

LEMMA PagesAreTyped ==
    ASSUME TypeOK, NEW q \in Owners, In(q, "rows"), NEW table, NEW offset
    PROVE  Page(q, table, offset) \in SUBSET [id : RowIds, dek : Keys]
<1>1. rotation[q] \in Rotating
  BY PhaseKinds DEF In
<1>2. ASSUME NEW r \in Stored
      PROVE  [id |-> r, dek |-> IF r \in rotation[q].mine THEN rotation[q].new ELSE key[r]]
                \in [id : RowIds, dek : Keys]
  BY <1>1, <1>2 DEF TypeOK, Rotating
<1> QED
  BY <1>2 DEF Page, TableRows

\* A rotation that reads another page is still a rotation at work.
LEMMA PagingIsTyped ==
    ASSUME NEW r \in Rotating, NEW table \in {"chunks", "messages"}, NEW offset \in Nat,
           NEW page \in SUBSET [id : RowIds, dek : Keys], NEW full \in BOOLEAN
    PROVE  [r EXCEPT !.table = table, !.offset = offset, !.page = page, !.full = full] \in Rotating
BY DEF Rotating

LEMMA RecordsAreTyped ==
    ASSUME TypeOK, NEW q \in Owners, Rotate(q)
    PROVE  rotation' \in [Owners -> {Idle} \cup Preparing \cup Rotating]
<1>1. SUFFICES \E r \in {Idle} \cup Preparing \cup Rotating : Become(q, r)
  BY BecomeKeepsType
<1>2. CASE EnsureReads(q) \/ EnsureInserts(q)
  <2>1. rotation[q] \in Preparing
    BY <1>2, PhaseKinds DEF EnsureReads, EnsureInserts, In
  <2> QED
    BY <1>2, <2>1 DEF EnsureReads, EnsureInserts, Enter, Preparing
<1>3. CASE ReadActive(q)
  <2>1. rotation[q] \in Preparing
    BY <1>3, PhaseKinds DEF ReadActive, In
  <2>2. PICK v \in versions :
          Become(q, [phase |-> "rows", current |-> v.no, old |-> v.dek, new |-> rotation[q].new,
                     table |-> "chunks", offset |-> 0, page |-> {}, full |-> TRUE,
                     mine |-> {}, had |-> Stored, gone |-> erased])
    BY <1>3 DEF ReadActive, ActiveRows
  <2> QED
    BY <2>1, <2>2 DEF TypeOK, Versions, Preparing, Rotating
<1>4. CASE SelectBatch(q)
  <2>1. rotation[q] \in Rotating /\ In(q, "rows")
    BY <1>4, PhaseKinds DEF SelectBatch, PageDone, In
  <2>2. PICK table \in {"chunks", "messages"}, offset \in Nat : Select(q, table, offset)
    BY <1>4, <2>1 DEF SelectBatch, Rotating
  <2>3. Page(q, table, offset) \in SUBSET [id : RowIds, dek : Keys]
    BY <2>1, PagesAreTyped
  <2>4. offset + BATCH \in Nat
    OBVIOUS
  <2>5. (Cardinality(Page(q, table, offset)) = BATCH) \in BOOLEAN
    OBVIOUS
  <2> QED
    BY <2>1, <2>2, <2>3, <2>4, <2>5, PagingIsTyped, Zenon DEF Select
<1>5. CASE ReencryptRow(q)
  <2>1. rotation[q] \in Rotating
    BY <1>5, PhaseKinds DEF ReencryptRow, In
  <2>2. PICK row \in rotation[q].page : Reencrypt(q, row)
    BY <1>5 DEF ReencryptRow
  <2>3. row.id \in RowIds
    BY <2>1, <2>2 DEF Rotating
  <2> QED
    BY <2>1, <2>2, <2>3 DEF Reencrypt, Fails, End, Rotating
<1>6. CASE Retire(q)
  <2>1. rotation[q] \in Rotating
    BY <1>6, PhaseKinds DEF Retire, PageDone, In
  <2> QED
    BY <1>6, <2>1 DEF Retire, Fails, End, Enter, Rotating
<1>7. CASE CommitRotation(q)
  <2>1. rotation[q] \in Rotating
    BY <1>7, PhaseKinds DEF CommitRotation, In
  <2> QED
    BY <1>7, <2>1 DEF CommitRotation, Enter, Rotating
<1>8. CASE Announce(q)
  BY <1>8 DEF Announce, End
<1> QED
  BY <1>2, <1>3, <1>4, <1>5, <1>6, <1>7, <1>8 DEF Rotate

\* What a commit makes of the versions: the same ones with the current one
\* retired, and one more.
LEMMA RetiredVersions ==
    ASSUME TypeOK, NEW R \in Rotating
    PROVE  /\ Retired(R) \subseteq Versions
           /\ \A v \in versions : \E w \in Retired(R) :
                 w.no = v.no /\ w.dek = v.dek /\ (w.active <=> v.active /\ v.no # R.current)
           /\ [no |-> R.current + 1, dek |-> R.new, active |-> TRUE] \in Retired(R)
           /\ \A w \in Retired(R) :
                 \/ w = [no |-> R.current + 1, dek |-> R.new, active |-> TRUE]
                 \/ \E v \in versions :
                      w.no = v.no /\ w.dek = v.dek /\ (w.active <=> v.active /\ v.no # R.current)
<1> DEFINE Old(v) == [v EXCEPT !.active = @ /\ v.no # R.current]
           added == [no |-> R.current + 1, dek |-> R.new, active |-> TRUE]
<1>1. added \in Versions
  BY DEF Rotating, Versions
<1>2. ASSUME NEW v \in versions
      PROVE  /\ Old(v) \in Versions
             /\ Old(v).no = v.no /\ Old(v).dek = v.dek
             /\ Old(v).active <=> v.active /\ v.no # R.current
  <2>1. v \in Versions
    BY DEF TypeOK
  <2>2. (v.active /\ v.no # R.current) \in BOOLEAN
    OBVIOUS
  <2>3. ASSUME NEW b \in BOOLEAN
        PROVE  LET w == [v EXCEPT !.active = b]
               IN  w \in Versions /\ w.no = v.no /\ w.dek = v.dek /\ (w.active <=> b)
    BY <2>1, <2>3 DEF Versions
  <2>4. Old(v) = [v EXCEPT !.active = v.active /\ v.no # R.current]
    OBVIOUS
  <2> QED
    BY <2>2, <2>3, <2>4, Zenon
<1>3. Retired(R) = {Old(v) : v \in versions} \cup {added}
  BY DEF Retired
<1> HIDE DEF Old, added
<1>4. /\ Retired(R) \subseteq Versions
      /\ added \in Retired(R)
      /\ \A v \in versions : Old(v) \in Retired(R)
      /\ \A w \in Retired(R) : w = added \/ \E v \in versions : w = Old(v)
  BY <1>1, <1>2, <1>3
<1>5. ASSUME NEW v \in versions
      PROVE  \E w \in Retired(R) :
                w.no = v.no /\ w.dek = v.dek /\ (w.active <=> v.active /\ v.no # R.current)
  <2>1. Old(v) \in Retired(R)
    BY <1>4
  <2> QED
    BY <1>2, <2>1
<1>6. ASSUME NEW w \in Retired(R), w # added
      PROVE  \E v \in versions :
                w.no = v.no /\ w.dek = v.dek /\ (w.active <=> v.active /\ v.no # R.current)
  <2>1. PICK v \in versions : w = Old(v)
    BY <1>4, <1>6
  <2> QED
    BY <1>2, <2>1
<1> QED
  BY <1>4, <1>5, <1>6 DEF added

LEMMA TypesArePreserved == TypeOK /\ [Next]_vars => TypeOK'
<1> SUFFICES ASSUME TypeOK, [Next]_vars PROVE TypeOK'
  OBVIOUS
<1>1. ASSUME NEW r \in RowIds, IngestChunk(r) \/ PersistMessage(r) \/ EraseRow(r)
      PROVE  TypeOK'
  <2>1. Stored' \subseteq RowIds /\ key' \in [Stored' -> Keys]
    BY <1>1 DEF TypeOK, Stored, IngestChunk, PersistMessage, EraseRow, Write, Keys, TenantKey
  <2> QED
    BY <1>1, <2>1 DEF TypeOK, IngestChunk, PersistMessage, EraseRow
<1>2. ASSUME NEW q \in Owners, BeginRotate(q)
      PROVE  TypeOK'
  <2> DEFINE r == [phase |-> "ensure", new |-> drawn + 1]
  <2>1. r \in Preparing /\ drawn + 1 \in Keys
    BY <1>2 DEF TypeOK, BeginRotate, Preparing, Keys, TenantKey
  <2>2. Become(q, r)
    BY <1>2 DEF BeginRotate
  <2>3. rotation' \in [Owners -> {Idle} \cup Preparing \cup Rotating]
    BY <2>1, <2>2, BecomeKeepsType
  <2> QED
    BY <1>2, <2>1, <2>3 DEF TypeOK, BeginRotate, Stored
<1>3. ASSUME NEW q \in Owners, Rotate(q)
      PROVE  TypeOK'
  <2>1. rotation' \in [Owners -> {Idle} \cup Preparing \cup Rotating]
    BY <1>3, RecordsAreTyped
  <2>2. CASE EnsureInserts(q)
    <3>1. FirstVersion \in Versions
      BY DEF FirstVersion, Versions, Keys, TenantKey
    <3>2. versions' \subseteq Versions
      BY <2>2, <3>1 DEF TypeOK, EnsureInserts
    <3> QED
      BY <2>1, <2>2, <3>2 DEF TypeOK, EnsureInserts, Stored
  <2>3. CASE CommitRotation(q)
    <3>1. rotation[q] \in Rotating
      BY <2>3, PhaseKinds DEF CommitRotation, In
    <3>2. Stored' = Stored /\ key' \in [Stored -> Keys]
      BY <2>3, <3>1 DEF TypeOK, CommitRotation, Stored, Rotating
    <3>3. Retired(rotation[q]) \subseteq Versions
      BY <3>1, RetiredVersions
    <3> QED
      BY <2>1, <2>3, <3>2, <3>3 DEF TypeOK, CommitRotation
  <2>4. CASE Announce(q)
    <3>1. rotation[q] \in Rotating
      BY <2>4, PhaseKinds DEF Announce, In
    <3> QED
      BY <2>1, <2>4, <3>1 DEF TypeOK, Announce, Rotating, Stored
  <2>5. CASE UNCHANGED <<key, erased, versions, drawn, announced>>
    BY <2>1, <2>5 DEF TypeOK, Stored
  <2> QED
    BY <1>3, <2>2, <2>3, <2>4, <2>5
       DEF Rotate, EnsureReads, ReadActive, SelectBatch, Select, ReencryptRow, Reencrypt, Retire, Fails
<1>4. ASSUME NEW q \in Owners, RotationDies(q)
      PROVE  TypeOK'
  BY <1>4, BecomeKeepsType DEF TypeOK, RotationDies, Fails, End, Stored
<1>5. CASE UNCHANGED vars
  BY <1>5 DEF TypeOK, vars, Stored
<1> QED
  BY <1>1, <1>2, <1>3, <1>4, <1>5 DEF Next

-----------------------------------------------------------------------------
(* The steps that change neither the versions nor the stored rows *)

\* Between two steps of q only its own record changes, and not into a commit.
Quiet(q) ==
    /\ UNCHANGED <<key, versions, announced>>
    /\ \A p \in Owners \ {q} : rotation'[p] = rotation[p]
    /\ ~In(q, "commit")' /\ ~In(q, "announce")'

LEMMA QuietStepsKeepIInv ==
    ASSUME IInv, TypeOK', NEW q \in Owners, Quiet(q),
           Updating(q)' => HasVersion(rotation[q].current)'
    PROVE  IInv'
<1>1. OneActiveKey' /\ EveryCiphertextHasAKey' /\ AnnouncedRotationsHappened' /\ VersionsAreNumbered'
  BY DEF IInv, Quiet, OneActiveKey, ActiveRows, EveryCiphertextHasAKey, Stored,
     AnnouncedRotationsHappened, VersionsAreNumbered, HasVersion
<1>2. RotationsHaveASource'
  BY DEF IInv, Quiet, RotationsHaveASource, Updating, HasVersion
<1>3. CommitsAreExclusive' /\ AnnouncesCommitted'
  BY DEF IInv, Quiet, CommitsAreExclusive, AnnouncesCommitted, In, HasVersion
<1> QED
  BY <1>1, <1>2, <1>3 DEF IInv

LEMMA FailuresKeepIInv ==
    ASSUME IInv, TypeOK', NEW q \in Owners, Fails(q)
    PROVE  IInv'
<1>1. Become(q, Idle) /\ TypeOK
  BY DEF Fails, End, IInv
<1>2. Quiet(q) /\ ~Updating(q)'
  BY <1>1, BecomeKeepsType DEF Fails, Quiet, In, Updating, Idle
<1> QED
  BY <1>2, QuietStepsKeepIInv

LEMMA PreparingKeepsIInv ==
    ASSUME IInv, TypeOK', NEW q \in Owners, BeginRotate(q) \/ EnsureReads(q)
    PROVE  IInv'
<1>1. PICK r \in Preparing : Become(q, r)
  BY PhaseKinds DEF IInv, TypeOK, BeginRotate, EnsureReads, Enter, In, Preparing, Keys, TenantKey
<1>2. Quiet(q) /\ ~Updating(q)'
  BY <1>1, BecomeKeepsType
     DEF IInv, BeginRotate, EnsureReads, Quiet, In, Updating, Preparing
<1> QED
  BY <1>2, QuietStepsKeepIInv

LEMMA PagingKeepsIInv ==
    ASSUME IInv, TypeOK', NEW q \in Owners, SelectBatch(q) \/ ReencryptRow(q)
    PROVE  IInv'
<1>1. rotation[q] \in Rotating /\ In(q, "rows")
  BY PhaseKinds DEF IInv, SelectBatch, ReencryptRow, PageDone, In
<1>2. CASE Fails(q)
  BY <1>2, FailuresKeepIInv
<1>3. CASE ~Fails(q)
  <2>1. /\ UNCHANGED <<key, versions, announced>>
        /\ \E r : /\ Become(q, r)
                  /\ r.phase = "rows" /\ r.current = rotation[q].current
    <3>1. CASE SelectBatch(q)
      <4>1. PICK table, offset : Select(q, table, offset)
        BY <3>1 DEF SelectBatch
      <4> DEFINE full == Cardinality(Page(q, table, offset)) = BATCH
                 r == [rotation[q] EXCEPT !.table = table, !.offset = offset + BATCH,
                                          !.page = Page(q, table, offset), !.full = full]
      <4>2. Become(q, r) /\ UNCHANGED <<key, versions, announced>>
        BY <4>1 DEF Select
      <4> HIDE DEF full
      <4>3. r.phase = "rows" /\ r.current = rotation[q].current
        BY <1>1 DEF Rotating, In
      <4> QED
        BY <4>2, <4>3
    <3>2. CASE ReencryptRow(q)
      <4>1. PICK row \in rotation[q].page : Reencrypt(q, row)
        BY <3>2 DEF ReencryptRow
      <4> DEFINE r == [rotation[q] EXCEPT !.page = @ \ {row}, !.mine = @ \cup ({row.id} \cap Stored)]
      <4>2. Become(q, r) /\ UNCHANGED <<key, versions, announced>>
        BY <1>3, <4>1 DEF Reencrypt
      <4>3. r.phase = "rows" /\ r.current = rotation[q].current
        BY <1>1 DEF Rotating, In
      <4> QED
        BY <4>2, <4>3
    <3> QED
      BY <3>1, <3>2
  <2>2. rotation'[q].phase = "rows" /\ rotation'[q].current = rotation[q].current
    BY <2>1 DEF IInv, TypeOK, Become
  <2>3. Quiet(q)
    BY <2>1, <2>2 DEF IInv, TypeOK, Become, Quiet, In
  <2>4. HasVersion(rotation[q].current)'
    BY <1>1, <2>1, <2>2 DEF IInv, RotationsHaveASource, Updating, In, HasVersion
  <2> QED
    BY <2>3, <2>4, QuietStepsKeepIInv
<1> QED
  BY <1>2, <1>3

LEMMA ReadActiveKeepsIInv ==
    ASSUME IInv, TypeOK', NEW q \in Owners, ReadActive(q)
    PROVE  IInv'
<1>1. PICK v \in versions :
        rotation' = [rotation EXCEPT ![q] =
          [phase |-> "rows", current |-> v.no, old |-> v.dek, new |-> rotation[q].new,
           table |-> "chunks", offset |-> 0, page |-> {}, full |-> TRUE,
           mine |-> {}, had |-> Stored, gone |-> erased]]
  BY DEF ReadActive, ActiveRows, Become
<1>2. Quiet(q)
  BY <1>1 DEF IInv, TypeOK, ReadActive, Quiet, In
<1>3. HasVersion(rotation[q].current)'
  BY <1>1 DEF IInv, TypeOK, ReadActive, HasVersion
<1> QED
  BY <1>2, <1>3, QuietStepsKeepIInv

LEMMA WritersKeepIInv ==
    ASSUME IInv, TypeOK', NEW r \in RowIds, IngestChunk(r) \/ PersistMessage(r) \/ EraseRow(r)
    PROVE  IInv'
<1>1. UNCHANGED <<versions, rotation, announced>>
  BY DEF IngestChunk, PersistMessage, EraseRow
<1>2. EveryCiphertextHasAKey'
  BY <1>1 DEF IInv, EveryCiphertextHasAKey, IngestChunk, PersistMessage, EraseRow, Write, Stored
<1>3. OneActiveKey' /\ AnnouncedRotationsHappened' /\ VersionsAreNumbered'
  BY <1>1 DEF IInv, OneActiveKey, ActiveRows, AnnouncedRotationsHappened, VersionsAreNumbered, HasVersion
<1>4. RotationsHaveASource' /\ CommitsAreExclusive' /\ AnnouncesCommitted'
  BY <1>1 DEF IInv, RotationsHaveASource, CommitsAreExclusive, AnnouncesCommitted, Updating, In, HasVersion
<1> QED
  BY <1>2, <1>3, <1>4 DEF IInv

-----------------------------------------------------------------------------
(* The steps that change the versions *)

LEMMA EnsureInsertsKeepsIInv ==
    ASSUME IInv, TypeOK', NEW q \in Owners, EnsureInserts(q)
    PROVE  IInv'
<1>1. PICK r \in Preparing : Become(q, r) /\ r.phase = "read"
  BY PhaseKinds DEF IInv, EnsureInserts, Enter, In, Preparing
<1>2. Quiet(q) \/ versions' # versions
  BY <1>1, BecomeKeepsType DEF IInv, EnsureInserts, Quiet, In
<1>3. ~Updating(q)'
  BY <1>1, BecomeKeepsType DEF IInv, Updating
<1>4. CASE HasVersion(1)
  BY <1>2, <1>3, <1>4, QuietStepsKeepIInv DEF EnsureInserts, HasVersion
<1>5. CASE ~HasVersion(1)
  <2>1. versions = {} /\ versions' = {FirstVersion} /\ UNCHANGED <<key, announced>>
    BY <1>5 DEF IInv, VersionsAreNumbered, EnsureInserts, HasVersion
  <2>2. /\ FirstVersion.no = 1 /\ FirstVersion.dek = TenantKey /\ FirstVersion.active
        /\ \A v \in versions' : v = FirstVersion
    BY <2>1 DEF FirstVersion
  <2>3. OneActiveKey' /\ VersionsAreNumbered'
    BY <2>1, <2>2 DEF OneActiveKey, ActiveRows, VersionsAreNumbered, HasVersion
  <2>4. EveryCiphertextHasAKey' /\ AnnouncedRotationsHappened'
    BY <2>1 DEF IInv, EveryCiphertextHasAKey, Stored, AnnouncedRotationsHappened
  <2>5. \A p \in Owners : ~Updating(p)' /\ ~In(p, "announce")'
    BY <1>1, <2>1, BecomeKeepsType
       DEF IInv, RotationsHaveASource, AnnouncesCommitted, HasVersion, Updating, In
  <2>6. RotationsHaveASource' /\ CommitsAreExclusive' /\ AnnouncesCommitted'
    BY <2>5 DEF RotationsHaveASource, CommitsAreExclusive, AnnouncesCommitted, Updating, In
  <2> QED
    BY <2>3, <2>4, <2>6 DEF IInv
<1> QED
  BY <1>4, <1>5

LEMMA RetireKeepsIInv ==
    ASSUME IInv, TypeOK', NEW q \in Owners, Retire(q)
    PROVE  IInv'
<1>1. CASE HasVersion(rotation[q].current + 1)
  BY <1>1, FailuresKeepIInv DEF Retire, HasVersion
<1>2. CASE ~HasVersion(rotation[q].current + 1)
  <2>1. rotation[q] \in Rotating /\ In(q, "rows") /\ TypeOK
    BY PhaseKinds DEF IInv, Retire, PageDone, In
  <2>2. /\ UNCHANGED <<key, versions, announced>>
        /\ rotation'[q].phase = "commit" /\ rotation'[q].current = rotation[q].current
        /\ \A p \in Owners \ {q} : rotation'[p] = rotation[p]
    BY <1>2, <2>1 DEF TypeOK, Retire, Enter, Become, HasVersion, Rotating
  <2>3. OneActiveKey' /\ EveryCiphertextHasAKey' /\ AnnouncedRotationsHappened' /\ VersionsAreNumbered'
    BY <2>2 DEF IInv, OneActiveKey, ActiveRows, EveryCiphertextHasAKey, Stored,
       AnnouncedRotationsHappened, VersionsAreNumbered, HasVersion
  <2>4. RotationsHaveASource' /\ AnnouncesCommitted'
    BY <2>1, <2>2 DEF IInv, RotationsHaveASource, AnnouncesCommitted, Updating, In, HasVersion
  <2>5. CommitsAreExclusive'
    BY <1>2, <2>2 DEF IInv, CommitsAreExclusive, Retire, In, HasVersion
  <2> QED
    BY <2>3, <2>4, <2>5 DEF IInv
<1> QED
  BY <1>1, <1>2

LEMMA CommitKeepsIInv ==
    ASSUME IInv, TypeOK', NEW q \in Owners, CommitRotation(q)
    PROVE  IInv'
<1> DEFINE R == rotation[q]
           n == rotation[q].current
<1>1. R \in Rotating /\ In(q, "commit") /\ TypeOK
  BY PhaseKinds DEF IInv, CommitRotation, In
<1>2. versions' = Retired(R) /\ announced' = announced /\ Enter(q, "announce")
  BY DEF CommitRotation
<1>3. /\ \A v \in versions : \E w \in versions' :
            w.no = v.no /\ w.dek = v.dek /\ (w.active <=> v.active /\ v.no # n)
      /\ [no |-> n + 1, dek |-> R.new, active |-> TRUE] \in versions'
      /\ \A w \in versions' :
            \/ w = [no |-> n + 1, dek |-> R.new, active |-> TRUE]
            \/ \E v \in versions :
                 w.no = v.no /\ w.dek = v.dek /\ (w.active <=> v.active /\ v.no # n)
  BY <1>1, <1>2, RetiredVersions, Zenon
<1> HIDE DEF R
<1>4. n \in Nat \ {0} /\ R.new # TenantKey
  BY <1>1 DEF Rotating, R
<1>3a. \E w \in versions' : w.no = n + 1 /\ w.dek = R.new /\ w.active
  BY <1>3
<1>5. HasVersion(n) /\ ~HasVersion(n + 1)
  BY <1>1 DEF IInv, RotationsHaveASource, Updating, In, CommitsAreExclusive
\* The current version is the active one: its successor's number is free.
<1>6. \A v \in versions : v.active <=> v.no = n
  BY <1>5 DEF IInv, OneActiveKey, VersionsAreNumbered, HasVersion
<1>7. /\ rotation'[q].phase = "announce" /\ rotation'[q].current = n
      /\ \A p \in Owners \ {q} : rotation'[p] = rotation[p]
  BY <1>1, <1>2 DEF TypeOK, Enter, Become, Rotating
<1>8. \A v, w \in versions' : v.no = w.no \/ (v.active /\ w.active) => v = w
  <2> SUFFICES ASSUME NEW v \in versions', NEW w \in versions',
                      v.no = w.no \/ (v.active /\ w.active)
               PROVE  v = w
    OBVIOUS
  <2>1. v \in Versions /\ w \in Versions
    BY DEF TypeOK
  <2> QED
    BY <1>3, <1>5, <1>6, <2>1 DEF IInv, OneActiveKey, HasVersion, Versions
<1>9. OneActiveKey'
  BY <1>3a, <1>8 DEF OneActiveKey, ActiveRows
<1>10. EveryCiphertextHasAKey'
  <2>1. Stored' = Stored /\ \A r \in Stored : key'[r] = IF r \in R.mine THEN R.new ELSE key[r]
    BY DEF CommitRotation, Stored, R
  <2> QED
    BY <1>3, <1>3a, <2>1 DEF IInv, EveryCiphertextHasAKey
<1>11. AnnouncedRotationsHappened' /\ AnnouncesCommitted'
  BY <1>2, <1>3, <1>3a, <1>4, <1>7 DEF IInv, AnnouncedRotationsHappened, AnnouncesCommitted, In
<1>12. VersionsAreNumbered'
  BY <1>3, <1>3a, <1>5, <1>6 DEF IInv, VersionsAreNumbered, HasVersion
<1>13. RotationsHaveASource'
  BY <1>3, <1>7 DEF IInv, RotationsHaveASource, Updating, HasVersion
<1>14. CommitsAreExclusive'
  <2> SUFFICES ASSUME NEW p \in Owners, In(p, "commit")'
               PROVE  /\ ~HasVersion(rotation[p].current + 1)'
                      /\ \A o \in Owners :
                            In(o, "commit")' /\ rotation'[o].current = rotation'[p].current => o = p
    BY DEF CommitsAreExclusive
  <2>1. p # q /\ In(p, "commit") /\ rotation'[p] = rotation[p]
    BY <1>7 DEF In
  <2>2. rotation[p].current # n /\ ~HasVersion(rotation[p].current + 1)
    BY <1>1, <2>1 DEF IInv, CommitsAreExclusive
  <2>3. rotation[p].current \in Nat
    BY <2>1, PhaseKinds DEF IInv, In, Rotating
  <2> QED
    BY <1>1, <1>3, <1>4, <1>7, <2>1, <2>2, <2>3 DEF IInv, CommitsAreExclusive, In, HasVersion
<1> QED
  BY <1>9, <1>10, <1>11, <1>12, <1>13, <1>14 DEF IInv

LEMMA AnnounceKeepsIInv ==
    ASSUME IInv, TypeOK', NEW q \in Owners, Announce(q)
    PROVE  IInv'
<1>1. /\ UNCHANGED <<key, versions>> /\ announced' = announced \cup {rotation[q].current + 1}
      /\ rotation'[q] = Idle /\ \A p \in Owners \ {q} : rotation'[p] = rotation[p]
  BY BecomeKeepsType DEF IInv, Announce, End
<1>2. OneActiveKey' /\ EveryCiphertextHasAKey' /\ VersionsAreNumbered'
  BY <1>1 DEF IInv, OneActiveKey, ActiveRows, EveryCiphertextHasAKey, Stored,
     VersionsAreNumbered, HasVersion
<1>3. AnnouncedRotationsHappened'
  BY <1>1 DEF IInv, AnnouncedRotationsHappened, AnnouncesCommitted, Announce
<1>4. RotationsHaveASource' /\ CommitsAreExclusive' /\ AnnouncesCommitted'
  BY <1>1 DEF IInv, RotationsHaveASource, CommitsAreExclusive, AnnouncesCommitted,
     Updating, In, HasVersion, Idle
<1> QED
  BY <1>2, <1>3, <1>4 DEF IInv

-----------------------------------------------------------------------------
(* The theorems *)

LEMMA InitIsIInv == Init => IInv
BY DEF Init, IInv, TypeOK, OneActiveKey, ActiveRows, EveryCiphertextHasAKey, Stored, Keys,
   AnnouncedRotationsHappened, VersionsAreNumbered, HasVersion, RotationsHaveASource,
   CommitsAreExclusive, AnnouncesCommitted, Updating, In, Idle

LEMMA StepsKeepIInv == IInv /\ [Next]_vars => IInv'
<1> SUFFICES ASSUME IInv, [Next]_vars PROVE IInv'
  OBVIOUS
<1>1. TypeOK'
  BY TypesArePreserved DEF IInv
<1>2. ASSUME NEW r \in RowIds, IngestChunk(r) \/ PersistMessage(r) \/ EraseRow(r)
      PROVE  IInv'
  BY <1>1, <1>2, WritersKeepIInv
<1>3. ASSUME NEW q \in Owners, BeginRotate(q) \/ Rotate(q) \/ RotationDies(q)
      PROVE  IInv'
  BY <1>1, <1>3, PreparingKeepsIInv, EnsureInsertsKeepsIInv, ReadActiveKeepsIInv, PagingKeepsIInv,
     RetireKeepsIInv, CommitKeepsIInv, AnnounceKeepsIInv, FailuresKeepIInv DEF Rotate, RotationDies
<1>4. CASE UNCHANGED vars
  <2>1. OneActiveKey' /\ EveryCiphertextHasAKey' /\ AnnouncedRotationsHappened' /\ VersionsAreNumbered'
    BY <1>4 DEF IInv, vars, OneActiveKey, ActiveRows, EveryCiphertextHasAKey, Stored,
       AnnouncedRotationsHappened, VersionsAreNumbered, HasVersion
  <2>2. RotationsHaveASource' /\ CommitsAreExclusive' /\ AnnouncesCommitted'
    BY <1>4 DEF IInv, vars, RotationsHaveASource, CommitsAreExclusive, AnnouncesCommitted,
       Updating, In, HasVersion
  <2> QED
    BY <1>1, <2>1, <2>2 DEF IInv
<1> QED
  BY <1>2, <1>3, <1>4 DEF Next

\* What rotations, writers and erasures keep of versions and ciphertext (encryption.ts).
THEOREM KeysInvariance == Spec => []IInv
BY InitIsIInv, StepsKeepIInv, PTL DEF Spec

\* Every variable of Keys keeps its type.
THEOREM KeysTypeCorrect == Spec => []TypeOK
<1>1. IInv => TypeOK
  BY DEF IInv
<1> QED  BY <1>1, KeysInvariance, PTL

\* However many rotations overlap, wherever they fail, one version is active.
THEOREM ThereIsOneActiveKey == Spec => []OneActiveKey
<1>1. IInv => OneActiveKey
  BY DEF IInv
<1> QED  BY <1>1, KeysInvariance, PTL

\* No ciphertext is ever left under a key that is not retained.
THEOREM CiphertextsHaveKeys == Spec => []EveryCiphertextHasAKey
<1>1. IInv => EveryCiphertextHasAKey
  BY DEF IInv
<1> QED  BY <1>1, KeysInvariance, PTL

\* The log tells of no rotation that was rolled back.
THEOREM AnnouncementsAreTrue == Spec => []AnnouncedRotationsHappened
<1>1. IInv => AnnouncedRotationsHappened
  BY DEF IInv
<1> QED  BY <1>1, KeysInvariance, PTL

-----------------------------------------------------------------------------
(* The order in which rotations lock rows *)

TableIds(table) == IF table = "chunks" THEN ChunkIds ELSE MessageIds

PageIds(q) == {row.id : row \in rotation[q].page}

\* A rotation has locked rows that are stored, and reads pages of one table at a
\* time, the chunks first.
LocksAndPages(q) ==
    /\ rotation[q].had \cup rotation[q].gone \subseteq Stored \cup erased
    /\ rotation[q].mine \subseteq Stored
    /\ rotation[q].table = "chunks" => rotation[q].mine \subseteq ChunkIds
    /\ PageIds(q) \subseteq TableIds(rotation[q].table)
    /\ \A a, b \in rotation[q].page : a.id = b.id => a = b

\* What it has read of the table lies below its offset, and what it has locked
\* lies below what is left of its page.
GoesForward(q) ==
    /\ \A r \in (rotation[q].mine \cup PageIds(q)) \cap TableRows(rotation[q].table) :
          Position(r, TableRows(rotation[q].table)) < rotation[q].offset
    /\ \A r \in rotation[q].mine \cap TableIds(rotation[q].table), s \in PageIds(q) : r < s

Forward(q) == LocksAndPages(q) /\ (NewRows(q) = {} => GoesForward(q))

LockInv == \A q \in Owners : In(q, "rows") => Forward(q)

LEMMA RowsAreFinite ==
    ASSUME NEW rows \in SUBSET RowIds
    PROVE  IsFiniteSet(rows) /\ rows \subseteq Nat
<1>1. IsFiniteSet(RowIds)
  BY FS_Union DEF RowIds
<1> QED  BY <1>1, FS_Subset DEF RowIds

LEMMA PositionsCount ==
    ASSUME NEW rows \in SUBSET RowIds, NEW r
    PROVE  Position(r, rows) \in Nat
<1> DEFINE below == {s \in rows : s < r}
<1>1. IsFiniteSet(below)
  BY RowsAreFinite
<1> QED  BY <1>1, FS_CardinalityType DEF Position

\* Rows lie in the order of their positions.
LEMMA PositionsOrder ==
    ASSUME NEW rows \in SUBSET RowIds, NEW r \in rows, NEW s \in rows,
           Position(r, rows) < Position(s, rows)
    PROVE  r < s
<1> DEFINE below(x) == {t \in rows : t < x}
<1>1. rows \subseteq Nat /\ IsFiniteSet(below(r)) /\ IsFiniteSet(below(s))
  <2>1. below(r) \in SUBSET RowIds /\ below(s) \in SUBSET RowIds
    OBVIOUS
  <2> QED  BY <2>1, RowsAreFinite
<1> SUFFICES ASSUME s <= r PROVE FALSE
  BY <1>1
<1>2. below(s) \subseteq below(r)
  <2> SUFFICES ASSUME NEW t \in rows, t < s PROVE t < r
    OBVIOUS
  <2>1. t \in Nat /\ s \in Nat /\ r \in Nat
    BY <1>1
  <2> HIDE DEF below
  <2> QED  BY <2>1
<1>3. Cardinality(below(s)) <= Cardinality(below(r))
  BY <1>1, <1>2, FS_Subset
<1>4. Position(s, rows) <= Position(r, rows)
  BY <1>3 DEF Position
<1> QED  BY <1>4, PositionsCount

\* Fewer rows, lower positions.
LEMMA PositionsFall ==
    ASSUME NEW rows \in SUBSET RowIds, NEW fewer \in SUBSET rows, NEW r
    PROVE  Position(r, fewer) <= Position(r, rows)
<1> DEFINE below(R) == {s \in R : s < r}
<1>1. IsFiniteSet(below(rows)) /\ below(fewer) \subseteq below(rows)
  BY RowsAreFinite
<1>2. Cardinality(below(fewer)) <= Cardinality(below(rows))
  BY <1>1, FS_Subset
<1> QED  BY <1>2 DEF Position

LEMMA TablesAreRows ==
    ASSUME TypeOK, NEW table
    PROVE  /\ TableRows(table) \in SUBSET RowIds
           /\ TableRows(table) = Stored \cap TableIds(table)
           /\ TableIds(table) \subseteq Nat
BY DEF TypeOK, TableRows, TableIds

\* What others do to the rows shifts no page forward, unless a row is written; and
\* a row that is locked stays.
LEMMA OthersKeepForward ==
    ASSUME TypeOK, TypeOK', NEW q \in Owners, In(q, "rows"), Forward(q),
           rotation'[q] = rotation[q],
           Stored \cup erased \subseteq Stored' \cup erased',
           rotation[q].mine \subseteq Stored',
           NewRows(q)' = {} => Stored' \subseteq Stored
    PROVE  Forward(q)'
<1> DEFINE table == rotation[q].table
           mine == rotation[q].mine
<1>0. rotation[q] \in Rotating
  BY PhaseKinds DEF In
<1>1. LocksAndPages(q)'
  BY DEF Forward, LocksAndPages, PageIds, TableIds
<1>2. ASSUME NewRows(q)' = {} PROVE GoesForward(q)'
  <2>1. NewRows(q) = {} /\ Stored' \subseteq Stored
    BY <1>2 DEF NewRows
  <2>2. GoesForward(q) /\ PageIds(q)' = PageIds(q) /\ TableIds(table)' = TableIds(table)
    BY <2>1 DEF Forward, PageIds, TableIds
  <2>3. /\ TableRows(table) \in SUBSET RowIds
        /\ TableRows(table)' \in SUBSET TableRows(table)
        /\ rotation[q].offset \in Nat
    BY <1>0, <2>1 DEF TypeOK, TableRows, Rotating
  <2>4. ASSUME NEW r \in (mine \cup PageIds(q)) \cap TableRows(table)'
        PROVE  Position(r, TableRows(table)') < rotation[q].offset
    <3>1. Position(r, TableRows(table)') <= Position(r, TableRows(table))
      BY <2>3, PositionsFall
    <3>2. Position(r, TableRows(table)) < rotation[q].offset
      BY <2>2, <2>3 DEF GoesForward
    <3>3. Position(r, TableRows(table)') \in Nat /\ Position(r, TableRows(table)) \in Nat
      BY <2>3, PositionsCount
    <3> QED  BY <2>3, <3>1, <3>2, <3>3
  <2>5. \A r \in mine \cap TableIds(table)', s \in PageIds(q)' : r < s
    BY <2>2 DEF GoesForward
  <2> QED  BY <2>2, <2>4, <2>5 DEF GoesForward, Position
<1> QED  BY <1>1, <1>2 DEF Forward

\* The next page of the same table.
LEMMA SelectKeepsForward ==
    ASSUME TypeOK, NEW q \in Owners, In(q, "rows"), Forward(q), rotation[q].page = {},
           NEW table \in {"chunks", "messages"}, NEW offset \in Nat,
           \/ table = rotation[q].table /\ offset = rotation[q].offset
           \/ table = "messages" /\ rotation[q].table = "chunks" /\ offset = 0,
           Select(q, table, offset)
    PROVE  Forward(q)'
<1> DEFINE rows == TableRows(table)
           page == Page(q, table, offset)
           full == Cardinality(page) = BATCH
           R == [rotation[q] EXCEPT !.table = table, !.offset = offset + BATCH, !.page = page,
                                    !.full = full]
<1>0. rotation[q] \in Rotating
  BY PhaseKinds DEF In
<1>1. rotation'[q] = R /\ Stored' = Stored /\ erased' = erased
  BY DEF Select, Become, TypeOK, Stored
<1> HIDE DEF full
<1>2. /\ R.table = table /\ R.offset = offset + BATCH /\ R.page = page
      /\ R.mine = rotation[q].mine /\ R.had = rotation[q].had /\ R.gone = rotation[q].gone
  BY <1>0 DEF Rotating
<1> HIDE DEF R
<1>3. rows \in SUBSET RowIds /\ rows = Stored \cap TableIds(table) /\ TableIds(table) \subseteq Nat
  BY TablesAreRows
<1>4. /\ \A row \in page : row.id \in rows /\ Position(row.id, rows) \in offset .. offset + BATCH - 1
      /\ \A a, b \in page : a.id = b.id => a = b
  BY DEF Page
<1> HIDE DEF page
<1>5. rotation[q].mine \subseteq Stored
  BY DEF Forward, LocksAndPages
<1>6. LocksAndPages(q)'
  <2>1. R.table = "chunks" => R.mine \subseteq ChunkIds
    BY <1>2 DEF Forward, LocksAndPages
  <2> QED  BY <1>1, <1>2, <1>3, <1>4, <2>1 DEF Forward, LocksAndPages, PageIds, TableIds
<1>7. ASSUME NewRows(q)' = {} PROVE GoesForward(q)'
  <2>1. NewRows(q) = {}
    BY <1>1, <1>2, <1>7 DEF NewRows
  <2>2. GoesForward(q)
    BY <2>1 DEF Forward
  <2>3. \A r \in rotation[q].mine \cap rows : Position(r, rows) < offset
    <3>1. CASE table = rotation[q].table /\ offset = rotation[q].offset
      BY <2>2, <3>1 DEF GoesForward
    <3>2. CASE table = "messages" /\ rotation[q].table = "chunks"
      BY <1>3, <3>2 DEF Forward, LocksAndPages, TableIds
    <3> QED  BY <3>1, <3>2
  <2>4. PageIds(q)' = {row.id : row \in page} /\ TableRows(table)' = rows
    BY <1>1, <1>2 DEF PageIds, TableRows
  <2>5. \A r \in rows : Position(r, rows) \in Nat
    BY <1>3, PositionsCount
  <2>6. ASSUME NEW r \in (R.mine \cup PageIds(q)') \cap rows
        PROVE  Position(r, rows) < offset + BATCH
    <3>1. Position(r, rows) < offset \/ Position(r, rows) \in offset .. offset + BATCH - 1
      BY <1>2, <1>4, <2>3, <2>4
    <3> QED  BY <2>5, <3>1
  <2>7. ASSUME NEW r \in R.mine \cap TableIds(table), NEW s \in PageIds(q)'
        PROVE  r < s
    <3>1. r \in rows /\ s \in rows
      BY <1>2, <1>3, <1>4, <1>5, <2>4
    <3>2. Position(r, rows) < offset /\ Position(s, rows) \in offset .. offset + BATCH - 1
      BY <1>2, <1>4, <2>3, <2>4, <3>1
    <3>3. Position(r, rows) < Position(s, rows)
      BY <2>5, <3>1, <3>2
    <3> QED  BY <1>3, <3>1, <3>3, PositionsOrder
  <2>8. TableIds(table)' = TableIds(table)
    BY DEF TableIds
  <2>9. TableRows(rotation[q].table)' = rows /\ TableIds(rotation[q].table)' = TableIds(table)
    BY <1>1, <1>2, <2>4, <2>8 DEF TableRows, TableIds
  <2> QED  BY <1>1, <1>2, <2>6, <2>7, <2>9 DEF GoesForward, Position
<1> QED  BY <1>6, <1>7 DEF Forward

\* One row re-encrypted: the rest of the page lies above it.
LEMMA ReencryptKeepsForward ==
    ASSUME TypeOK, NEW q \in Owners, In(q, "rows"), Forward(q),
           NEW row \in rotation[q].page, NextRow(q, row), Reencrypt(q, row), ~Fails(q)
    PROVE  Forward(q)'
<1> DEFINE R == [rotation[q] EXCEPT !.page = @ \ {row}, !.mine = @ \cup ({row.id} \cap Stored)]
<1>0. rotation[q] \in Rotating
  BY PhaseKinds DEF In
<1>1. rotation'[q] = R /\ Stored' = Stored /\ erased' = erased
  BY DEF Reencrypt, Become, TypeOK, Stored
<1>2. /\ R.table = rotation[q].table /\ R.offset = rotation[q].offset
      /\ R.page = rotation[q].page \ {row}
      /\ R.mine = rotation[q].mine \cup ({row.id} \cap Stored)
      /\ R.had = rotation[q].had /\ R.gone = rotation[q].gone
  BY <1>0 DEF Rotating
<1> HIDE DEF R
<1>3. LocksAndPages(q) /\ row.id \in PageIds(q) /\ PageIds(q)' \subseteq PageIds(q)
  BY <1>1, <1>2 DEF Forward, PageIds
<1>4. LocksAndPages(q)'
  BY <1>1, <1>2, <1>3 DEF LocksAndPages, PageIds, TableIds
<1>5. ASSUME NewRows(q)' = {} PROVE GoesForward(q)'
  <2>1. NewRows(q) = {}
    BY <1>1, <1>2, <1>5 DEF NewRows
  <2>2. GoesForward(q)
    BY <2>1 DEF Forward
  <2>3. \A s \in PageIds(q)' : row.id < s
    <3> SUFFICES ASSUME NEW other \in rotation[q].page, other # row PROVE row.id < other.id
      BY <1>1, <1>2 DEF PageIds
    <3>1. row.id <= other.id /\ row.id # other.id
      BY <1>3 DEF NextRow, LocksAndPages
    <3>2. row.id \in Nat /\ other.id \in Nat
      BY <1>0 DEF Rotating, RowIds
    <3> QED  BY <3>1, <3>2
  <2>4. \A r \in R.mine \cap TableIds(R.table), s \in PageIds(q)' : r < s
    BY <1>2, <1>3, <2>2, <2>3 DEF GoesForward
  <2>5. \A r \in (R.mine \cup PageIds(q)') \cap TableRows(R.table) :
            Position(r, TableRows(R.table)) < R.offset
    BY <1>2, <1>3, <2>2 DEF GoesForward
  <2>6. /\ TableRows(rotation[q].table)' = TableRows(R.table)
        /\ TableIds(rotation[q].table)' = TableIds(R.table)
    BY <1>1 DEF TableRows, TableIds
  <2> QED  BY <1>1, <2>4, <2>5, <2>6 DEF GoesForward, Position
<1> QED  BY <1>4, <1>5 DEF Forward

\* A rotation that has read nothing yet goes forward.
LEMMA ReadActiveStartsForward ==
    ASSUME TypeOK, NEW q \in Owners, ReadActive(q)
    PROVE  Forward(q)'
<1>1. PICK v \in versions :
        rotation' = [rotation EXCEPT ![q] =
          [phase |-> "rows", current |-> v.no, old |-> v.dek, new |-> rotation[q].new,
           table |-> "chunks", offset |-> 0, page |-> {}, full |-> TRUE,
           mine |-> {}, had |-> Stored, gone |-> erased]]
  BY DEF ReadActive, ActiveRows, Become
<1>2. /\ rotation'[q].page = {} /\ rotation'[q].mine = {}
      /\ rotation'[q].had = Stored /\ rotation'[q].gone = erased
      /\ Stored' = Stored /\ erased' = erased
  BY <1>1 DEF TypeOK, ReadActive, Stored
<1> QED  BY <1>2 DEF Forward, LocksAndPages, GoesForward, PageIds

\* A step of one owner that changes no row.
LEMMA OwnStepKeepsLockInv ==
    ASSUME TypeOK, TypeOK', LockInv, NEW q \in Owners,
           \A p \in Owners \ {q} : rotation'[p] = rotation[p],
           Stored' = Stored, erased' = erased,
           In(q, "rows")' => Forward(q)'
    PROVE  LockInv'
<1> SUFFICES ASSUME NEW p \in Owners, In(p, "rows")' PROVE Forward(p)'
  BY DEF LockInv
<1>1. CASE p = q
  BY <1>1
<1>2. CASE p # q
  <2>1. rotation'[p] = rotation[p] /\ In(p, "rows") /\ Forward(p)
    BY <1>2 DEF In, LockInv
  <2>2. rotation[p].mine \subseteq Stored'
    BY <2>1 DEF Forward, LocksAndPages
  <2> QED  BY <2>1, <2>2, OthersKeepForward
<1> QED  BY <1>1, <1>2

\* A row is written or erased.
LEMMA RowsKeepLockInv ==
    ASSUME TypeOK, TypeOK', LockInv, NEW r \in RowIds,
           IngestChunk(r) \/ PersistMessage(r) \/ EraseRow(r)
    PROVE  LockInv'
<1> SUFFICES ASSUME NEW q \in Owners, In(q, "rows")' PROVE Forward(q)'
  BY DEF LockInv
<1>1. rotation'[q] = rotation[q] /\ In(q, "rows") /\ Forward(q)
  BY DEF IngestChunk, PersistMessage, EraseRow, In, LockInv
<1>2. rotation[q].mine \subseteq Stored
  BY <1>1 DEF Forward, LocksAndPages
<1>3. CASE Write(r) /\ erased' = erased
  <2>1. Stored' = Stored \cup {r} /\ r \notin Stored \cup erased
    BY <1>3 DEF Write, Stored
  <2>2. r \in NewRows(q)'
    BY <1>1, <1>3, <2>1 DEF Forward, LocksAndPages, NewRows
  <2> QED  BY <1>1, <1>2, <1>3, <2>1, <2>2, OthersKeepForward
<1>4. CASE EraseRow(r)
  <2>1. Stored' = Stored \ {r} /\ erased' = erased \cup {r} /\ r \notin rotation[q].mine
    BY <1>1, <1>4 DEF EraseRow, Stored, Updating, In
  <2> QED  BY <1>1, <1>2, <2>1, OthersKeepForward
<1> QED  BY <1>3, <1>4 DEF IngestChunk, PersistMessage

LEMMA NextLockInv == TypeOK /\ TypeOK' /\ LockInv /\ [Next]_vars => LockInv'
<1> SUFFICES ASSUME TypeOK, TypeOK', LockInv, [Next]_vars PROVE LockInv'
  OBVIOUS
<1>1. ASSUME NEW r \in RowIds, IngestChunk(r) \/ PersistMessage(r) \/ EraseRow(r)
      PROVE  LockInv'
  BY <1>1, RowsKeepLockInv
<1>2. ASSUME NEW q \in Owners, BeginRotate(q) \/ Rotate(q) \/ RotationDies(q)
      PROVE  LockInv'
  <2>1. /\ \A p \in Owners \ {q} : rotation'[p] = rotation[p]
        /\ Stored' = Stored /\ erased' = erased
    BY <1>2 DEF TypeOK, BeginRotate, Rotate, RotationDies, EnsureReads, EnsureInserts, ReadActive,
       SelectBatch, Select, ReencryptRow, Reencrypt, Retire, CommitRotation, Announce, Fails, End,
       Enter, Become, Stored
  <2>2. ASSUME In(q, "rows")' PROVE Forward(q)'
    <3>1. CASE ReadActive(q)
      BY <3>1, ReadActiveStartsForward
    <3>2. CASE SelectBatch(q)
      <4>1. /\ In(q, "rows") /\ rotation[q].page = {} /\ Forward(q)
            /\ rotation[q] \in Rotating
        BY <3>2, PhaseKinds DEF SelectBatch, PageDone, LockInv, In
      <4>2. /\ rotation[q].offset \in Nat /\ rotation[q].table \in {"chunks", "messages"}
            /\ \/ Select(q, rotation[q].table, rotation[q].offset)
               \/ rotation[q].table = "chunks" /\ Select(q, "messages", 0)
        BY <3>2, <4>1 DEF SelectBatch, Rotating
      <4> QED  BY <4>1, <4>2, SelectKeepsForward
    <3>3. CASE ReencryptRow(q)
      <4>1. In(q, "rows") /\ Forward(q)
        BY <3>3 DEF ReencryptRow, LockInv
      <4>2. PICK row \in rotation[q].page : NextRow(q, row) /\ Reencrypt(q, row)
        BY <3>3 DEF ReencryptRow
      <4>3. ~Fails(q)
        BY <2>2 DEF Fails, End, Become, TypeOK, In, Idle
      <4> QED  BY <4>1, <4>2, <4>3, ReencryptKeepsForward
    <3>4. CASE BeginRotate(q) \/ RotationDies(q) \/ Announce(q)
      BY <2>2, <3>4 DEF TypeOK, BeginRotate, RotationDies, Announce, Fails, End, Become, In, Idle
    <3>5. CASE EnsureReads(q) \/ EnsureInserts(q)
      <4>1. rotation[q] \in Preparing
        BY <3>5, PhaseKinds DEF EnsureReads, EnsureInserts, In
      <4> QED  BY <2>2, <3>5, <4>1 DEF TypeOK, EnsureReads, EnsureInserts, Enter, Become, In, Preparing
    <3>6. CASE Retire(q) \/ CommitRotation(q)
      <4>1. rotation[q] \in Rotating
        BY <3>6, PhaseKinds DEF Retire, PageDone, CommitRotation, In
      <4> QED  BY <2>2, <3>6, <4>1 DEF TypeOK, Retire, CommitRotation, Fails, End, Enter, Become, In,
                  Idle, Rotating
    <3> QED  BY <1>2, <3>1, <3>2, <3>3, <3>4, <3>5, <3>6 DEF Rotate
  <2> QED  BY <2>1, <2>2, OwnStepKeepsLockInv
<1>3. CASE UNCHANGED vars
  BY <1>3 DEF vars, LockInv, Forward, LocksAndPages, GoesForward, NewRows, PageIds, TableRows,
     TableIds, Position, Stored, In
<1> QED  BY <1>1, <1>2, <1>3 DEF Next

-----------------------------------------------------------------------------
(* No circle *)

LEMMA LeastNat ==
    ASSUME NEW T \in SUBSET Nat, T # {}
    PROVE  \E n \in T : \A m \in T : n <= m
<1> DEFINE R == OpToRel(<, Nat)
<1>1. IsWellFoundedOn(R, Nat)
  BY NatLessThanWellFounded
<1>2. PICK n \in T : \A m \in T : ~(<<m, n>> \in R)
  <2> HIDE DEF R
  <2> QED  BY <1>1, WFMin
<1>3. \A m \in T : ~(m < n)
  BY <1>2 DEF OpToRel
<1> QED  BY <1>3

\* The order of locking: chunks before messages, each in the order of their ids.
Before(r, s) ==
    \/ r \in ChunkIds /\ s \in MessageIds
    \/ r < s /\ (r \in ChunkIds <=> s \in ChunkIds)

LEMMA BeforeIsAnOrder ==
    /\ \A r \in RowIds : ~Before(r, r)
    /\ \A r, s, t \in RowIds : Before(r, s) /\ Before(s, t) => Before(r, t)
<1>1. RowIds \subseteq Nat /\ ChunkIds \cap MessageIds = {} /\ RowIds = ChunkIds \cup MessageIds
  BY DEF RowIds
<1>2. \A r \in RowIds : ~Before(r, r)
  BY <1>1 DEF Before
<1>3. ASSUME NEW r \in RowIds, NEW s \in RowIds, NEW t \in RowIds, Before(r, s), Before(s, t)
      PROVE  Before(r, t)
  <2>1. r < s /\ s < t => r < t
    BY <1>1
  <2> QED  BY <1>1, <1>3, <2>1 DEF Before
<1> QED  BY <1>2, <1>3

\* In a finite set of rows some row is before no other.
LEMMA SomeRowIsLast ==
    ASSUME NEW A \in SUBSET RowIds, A # {}
    PROVE  \E r \in A : \A s \in A : ~Before(r, s)
<1> DEFINE after(r) == {s \in A : Before(r, s)}
           T == {Cardinality(after(r)) : r \in A}
<1>1. \A r \in A : IsFiniteSet(after(r)) /\ Cardinality(after(r)) \in Nat
  <2>1. IsFiniteSet(A)
    BY RowsAreFinite
  <2> QED  BY <2>1, FS_Subset, FS_CardinalityType
<1>2. PICK r \in A : \A s \in A : Cardinality(after(r)) <= Cardinality(after(s))
  <2>1. T \in SUBSET Nat /\ T # {}
    BY <1>1
  <2> HIDE DEF after
  <2>2. /\ \A s \in A : Cardinality(after(s)) \in T
        /\ \A n \in T : \E s \in A : n = Cardinality(after(s))
    OBVIOUS
  <2> HIDE DEF T
  <2>3. PICK n \in T : \A m \in T : n <= m
    BY <2>1, LeastNat
  <2> QED  BY <2>2, <2>3
<1>3. ASSUME NEW s \in A, Before(r, s) PROVE FALSE
  <2>1. after(s) \subseteq after(r) /\ s \in after(r) /\ s \notin after(s)
    BY <1>3, BeforeIsAnOrder
  <2>2. Cardinality(after(s)) <= Cardinality(after(r))
        /\ (Cardinality(after(s)) = Cardinality(after(r)) => after(s) = after(r))
    BY <1>1, <2>1, FS_Subset
  <2>3. Cardinality(after(s)) = Cardinality(after(r))
    <3>1. Cardinality(after(s)) \in Nat /\ Cardinality(after(r)) \in Nat
      BY <1>1
    <3>2. Cardinality(after(r)) <= Cardinality(after(s))
      BY <1>2
    <3> HIDE DEF after
    <3> QED  BY <2>2, <3>1, <3>2
  <2> HIDE DEF after
  <2> QED  BY <2>1, <2>2, <2>3
<1> QED  BY <1>3

\* What a rotation has locked comes before what it waits for.
LEMMA LockedBeforeAwaited ==
    ASSUME TypeOK, LockInv, NEW q \in Owners, In(q, "rows"), NewRows(q) = {},
           NEW r \in rotation[q].mine, NEW s \in PageIds(q)
    PROVE  r \in RowIds /\ s \in RowIds /\ Before(r, s)
<1>1. LocksAndPages(q) /\ GoesForward(q)
  BY DEF LockInv, Forward
<1>2. r \in RowIds /\ s \in RowIds /\ s \in TableIds(rotation[q].table)
  BY <1>1 DEF LocksAndPages, TypeOK, TableIds, RowIds
<1>3. CASE r \in TableIds(rotation[q].table)
  BY <1>1, <1>2, <1>3 DEF GoesForward, Before, TableIds
<1>4. CASE r \notin TableIds(rotation[q].table)
  BY <1>1, <1>2, <1>4 DEF LocksAndPages, Before, TableIds, RowIds
<1> QED  BY <1>2, <1>3, <1>4

LEMMA LockInvAvoidsCircles == TypeOK /\ LockInv => NoCircularWait
<1> SUFFICES ASSUME TypeOK, LockInv, NEW C \in SUBSET Owners, Circle(C),
                    \A q \in C : NewRows(q) = {}
             PROVE  FALSE
  BY DEF NoCircularWait
<1> DEFINE A == {r \in RowIds : \E p \in C : r \in rotation[p].mine}
<1>1. ASSUME NEW p \in C
      PROVE  In(p, "rows") /\ \E s \in PageIds(p) : \E o \in C : s \in rotation[o].mine
  BY DEF Circle, WaitsFor, PageIds
<1>2. ASSUME NEW r \in A PROVE \E s \in A : Before(r, s)
  <2>1. PICK p \in C : r \in rotation[p].mine
    OBVIOUS
  <2>2. PICK s \in PageIds(p) : \E o \in C : s \in rotation[o].mine
    BY <1>1
  <2>3. s \in RowIds /\ Before(r, s)
    BY <1>1, <2>1, LockedBeforeAwaited
  <2> QED  BY <2>2, <2>3
<1>3. A # {}
  <2>1. PICK p \in C : TRUE
    BY DEF Circle
  <2>2. PICK s \in PageIds(p) : \E o \in C : s \in rotation[o].mine
    BY <1>1
  <2>3. s \in RowIds
    <3>1. rotation[p] \in Rotating
      BY <1>1, PhaseKinds DEF In
    <3> QED  BY <3>1 DEF PageIds, Rotating
  <2> QED  BY <2>2, <2>3
<1> QED  BY <1>2, <1>3, SomeRowIsLast

\* However many rotations overlap and whatever is erased beside them, they never
\* wait for each other in a circle unless a row was written while they ran.
THEOREM CirclesNeedNewRows == Spec => []NoCircularWait
<1>1. Init => LockInv
  BY DEF Init, LockInv, In, Idle
<1>2. TypeOK /\ TypeOK' /\ LockInv /\ [Next]_vars => LockInv'
  BY NextLockInv
<1>3. TypeOK /\ LockInv => NoCircularWait
  BY LockInvAvoidsCircles
<1> QED  BY <1>1, <1>2, <1>3, KeysTypeCorrect, PTL DEF Spec

-----------------------------------------------------------------------------
(* What the paging misses *)

\* The rows a rotation has gone past: all rows of a table it has finished, and
\* those below its offset.
Passed(q) ==
    {r \in Stored :
        \/ rotation[q].table = "messages" /\ r \in ChunkIds
        \/ /\ r \in TableRows(rotation[q].table)
           /\ rotation[q].full =>
                 Position(r, TableRows(rotation[q].table)) < rotation[q].offset}

\* Of those that were there when it began, the ones it will leave as they are.
Skipped(q) == (rotation[q].had \cap Passed(q)) \ (rotation[q].mine \cup PageIds(q))

\* Each of them was skipped because another row was erased meanwhile.
FewSkipped(q) ==
    /\ rotation[q].had \subseteq Stored \cup erased
    /\ rotation[q].gone \subseteq erased
    /\ Cardinality(Skipped(q)) <= Cardinality(erased \ rotation[q].gone)

\* A rotation about to commit has been through both tables.
Finished(q) == rotation[q].table = "messages" /\ ~rotation[q].full /\ rotation[q].page = {}

SkipInv ==
    /\ Stored \cap erased = {}
    /\ \A q \in Owners : Updating(q) => FewSkipped(q)
    /\ \A q \in Owners : In(q, "commit") => Finished(q)

\* Rows of one table lie at different positions, and below a row that is at a
\* position every lower position is taken.
LEMMA PositionsDiffer ==
    ASSUME NEW rows \in SUBSET RowIds, NEW r \in rows, NEW s \in rows, r < s
    PROVE  Position(r, rows) < Position(s, rows)
<1> DEFINE below(x) == {t \in rows : t < x}
<1>1. IsFiniteSet(below(s)) /\ rows \subseteq Nat
  <2>1. below(s) \in SUBSET RowIds
    OBVIOUS
  <2> QED  BY <2>1, RowsAreFinite
<1>2. below(r) \subseteq below(s) /\ r \in below(s) /\ r \notin below(r)
  <2>1. r \in Nat /\ s \in Nat /\ \A t \in rows : t \in Nat
    BY <1>1
  <2>2. \A t \in rows : t < r => t < s
    BY <2>1
  <2>3. ~(r < r)
    BY <2>1
  <2> QED  BY <2>2, <2>3
<1>3. Cardinality(below(r)) <= Cardinality(below(s)) /\ Cardinality(below(r)) # Cardinality(below(s))
  <2> HIDE DEF below
  <2> QED  BY <1>1, <1>2, FS_Subset
<1>4. Position(r, rows) = Cardinality(below(r)) /\ Position(s, rows) = Cardinality(below(s))
  BY DEF Position
<1> QED  BY <1>3, <1>4, PositionsCount

LEMMA PositionsAreTaken ==
    ASSUME NEW table, NEW rows \in SUBSET TableIds(table), NEW r \in rows,
           NEW k \in Nat, k <= Position(r, rows)
    PROVE  \E s \in rows : Position(s, rows) = k
<1>0. rows \in SUBSET RowIds /\ rows \subseteq Nat
  BY DEF TableIds, RowIds
<1> DEFINE T == {Position(s, rows) : s \in {t \in rows : k <= Position(t, rows)}}
<1>1. \A s \in rows : Position(s, rows) \in Nat
  BY <1>0, PositionsCount
<1>2. T \in SUBSET Nat /\ T # {}
  BY <1>1
<1>3. PICK m \in T : \A n \in T : m <= n
  BY <1>2, LeastNat
<1>4. PICK s \in rows : k <= Position(s, rows) /\ Position(s, rows) = m
  BY <1>3
<1>5. CASE m = k
  BY <1>4, <1>5
<1>6. CASE m # k
  <2> DEFINE below(x) == {t \in rows : t < x}
  <2>1. k < m /\ m \in Nat
    BY <1>1, <1>4, <1>6
  <2>2. below(s) \in SUBSET RowIds /\ IsFiniteSet(below(s)) /\ Cardinality(below(s)) = m
    <3>1. below(s) \in SUBSET RowIds /\ m = Cardinality(below(s))
      BY <1>0, <1>4 DEF Position
    <3> QED  BY <3>1, RowsAreFinite
  <2>3. below(s) # {}
    BY <2>1, <2>2, FS_EmptySet
  \* The row just below it.
  <2>4. PICK p \in below(s) : \A t \in below(s) : ~Before(p, t)
    BY <2>2, <2>3, SomeRowIsLast
  <2>5. p \in rows /\ p < s /\ \A t \in rows : t < s => t <= p
    <3>1. \A t \in rows : p < t => Before(p, t)
      BY <2>4 DEF Before, TableIds
    <3> QED  BY <1>0, <2>4, <3>1
  <2>6. below(p) = below(s) \ {p}
    <3> SUFFICES ASSUME NEW t \in rows PROVE t < p <=> t < s /\ t # p
      OBVIOUS
    <3>1. t \in Nat /\ p \in Nat /\ s \in Nat
      BY <1>0, <2>5
    <3> HIDE DEF below
    <3> QED  BY <2>5, <3>1
  <2>7. Cardinality(below(p)) = m - 1
    <3> HIDE DEF below
    <3> QED  BY <2>2, <2>4, <2>6, FS_RemoveElement
  <2>8. Position(p, rows) = m - 1
    BY <2>7 DEF Position
  <2>9. m - 1 \in T
    BY <2>1, <2>5, <2>8
  <2> QED  BY <1>3, <2>1, <2>9
<1> QED  BY <1>5, <1>6

\* A page that ends before the last row is full.
LEMMA PageIsFull ==
    ASSUME TypeOK, NEW q \in Owners, NEW table, NEW offset \in Nat,
           NEW r \in TableRows(table), offset + BATCH <= Position(r, TableRows(table))
    PROVE  Cardinality(Page(q, table, offset)) = BATCH
<1> DEFINE rows == TableRows(table)
           page == Page(q, table, offset)
           window == offset .. offset + BATCH - 1
           f == [row \in page |-> Position(row.id, rows)]
<1>1. /\ rows \in SUBSET RowIds /\ rows \in SUBSET TableIds(table)
      /\ \A s \in rows : Position(s, rows) \in Nat
  BY TablesAreRows, PositionsCount
<1>2. /\ \A row \in page : row.id \in rows /\ Position(row.id, rows) \in window
      /\ \A a, b \in page : a.id = b.id => a = b
      /\ \A s \in rows : Position(s, rows) \in window => \E row \in page : row.id = s
  <2> DEFINE row(s) == [id |-> s, dek |-> IF s \in rotation[q].mine THEN rotation[q].new ELSE key[s]]
  <2>1. page = {row(s) : s \in {t \in rows : Position(t, rows) \in window}}
    BY DEF Page
  <2>2. \A s : row(s).id = s
    OBVIOUS
  <2> HIDE DEF row, page, window
  <2> QED  BY <2>1, <2>2
<1> HIDE DEF page
<1>3. f \in [page -> window]
  BY <1>2
<1>4. \A a, b \in page : f[a] = f[b] => a = b
  <2> SUFFICES ASSUME NEW a \in page, NEW b \in page, Position(a.id, rows) = Position(b.id, rows)
               PROVE  a.id = b.id
    BY <1>2
  <2>1. a.id \in rows /\ b.id \in rows
    BY <1>2
  <2>2. ~(a.id < b.id) /\ ~(b.id < a.id)
    BY <1>1, <2>1, PositionsDiffer
  <2>3. a.id \in Nat /\ b.id \in Nat
    BY <1>1, <2>1, RowsAreFinite
  <2> QED  BY <2>2, <2>3
<1>5. f \in Injection(page, window)
  BY <1>3, <1>4 DEF Injection, IsInjective
<1>6. \A k \in window : \E row \in page : f[row] = k
  <2> SUFFICES ASSUME NEW k \in window PROVE \E row \in page : f[row] = k
    OBVIOUS
  <2>1. k \in Nat /\ k <= Position(r, rows)
    BY <1>1
  <2>2. PICK s \in rows : Position(s, rows) = k
    BY <1>1, <2>1, PositionsAreTaken
  <2>3. PICK row \in page : row.id = s
    BY <1>2, <2>2
  <2> QED  BY <2>2, <2>3
<1>7. f \in Surjection(page, window)
  BY <1>3, <1>6 DEF Surjection
<1>8. IsFiniteSet(window) /\ Cardinality(window) = BATCH
  <2>1. offset \in Int /\ offset + BATCH - 1 \in Int
    OBVIOUS
  <2>2. ~(offset > offset + BATCH - 1) /\ (offset + BATCH - 1) - offset + 1 = BATCH
    OBVIOUS
  <2> QED  BY <2>1, <2>2, FS_Interval
<1> HIDE DEF f, window
<1>9. Cardinality(page) = Cardinality(window)
  BY <1>5, <1>7, <1>8, FS_Injection
<1> QED  BY <1>8, <1>9 DEF page

LEMMA SkippedIsFinite ==
    ASSUME TypeOK, NEW q
    PROVE  /\ IsFiniteSet(Skipped(q)) /\ Cardinality(Skipped(q)) \in Nat
           /\ Skipped(q) \subseteq RowIds
           /\ IsFiniteSet(erased \ rotation[q].gone)
           /\ Cardinality(erased \ rotation[q].gone) \in Nat
<1>1. Skipped(q) \in SUBSET RowIds /\ erased \ rotation[q].gone \in SUBSET RowIds
  BY DEF TypeOK, Skipped, Passed
<1>2. IsFiniteSet(Skipped(q)) /\ IsFiniteSet(erased \ rotation[q].gone)
  BY <1>1, RowsAreFinite
<1> QED  BY <1>1, <1>2, FS_CardinalityType

\* A step after which no more rows are skipped.
LEMMA FewSkippedFrame ==
    ASSUME TypeOK, TypeOK', NEW q \in Owners, FewSkipped(q),
           Skipped(q)' \subseteq Skipped(q),
           rotation'[q].gone = rotation[q].gone, erased \subseteq erased',
           rotation'[q].had = rotation[q].had, Stored \subseteq Stored' \cup erased'
    PROVE  FewSkipped(q)'
<1> DEFINE before == erased \ rotation[q].gone
           after == erased' \ rotation'[q].gone
<1>1. /\ IsFiniteSet(Skipped(q)) /\ Cardinality(Skipped(q)) \in Nat
      /\ IsFiniteSet(before) /\ Cardinality(before) \in Nat
  BY SkippedIsFinite
<1>2. after \in SUBSET RowIds /\ Skipped(q)' \in SUBSET RowIds
  BY SkippedIsFinite DEF TypeOK
<1>3. IsFiniteSet(after) /\ IsFiniteSet(Skipped(q)')
  BY <1>2, RowsAreFinite
<1>4. before \subseteq after
  OBVIOUS
<1>5. Cardinality(before) <= Cardinality(after) /\ Cardinality(Skipped(q)') <= Cardinality(Skipped(q))
  BY <1>1, <1>3, <1>4, FS_Subset
<1>6. Cardinality(Skipped(q)) <= Cardinality(before)
  BY DEF FewSkipped
<1>7. Cardinality(after) \in Nat /\ Cardinality(Skipped(q)') \in Nat
  BY <1>3, FS_CardinalityType
<1>8. Cardinality(Skipped(q)') <= Cardinality(after)
  BY ONLY <1>1, <1>5, <1>6, <1>7
<1>9. Cardinality(Skipped(q))' = Cardinality(Skipped(q)')
  OBVIOUS
<1> QED  BY <1>8, <1>9 DEF FewSkipped

\* A row written meanwhile was not there when the rotation began, and pushes others
\* up, not down.
LEMMA WriteKeepsFewSkipped ==
    ASSUME TypeOK, TypeOK', NEW q \in Owners, Updating(q), FewSkipped(q), NEW r \in RowIds,
           rotation' = rotation, Write(r), erased' = erased
    PROVE  FewSkipped(q)'
<1> DEFINE rows == TableRows(rotation[q].table)
<1>1. Stored' = Stored \cup {r} /\ r \notin Stored \cup erased
  BY DEF Write, Stored
<1>2. rows' \in SUBSET RowIds /\ rows \in SUBSET rows'
  BY <1>1 DEF TypeOK, TableRows
<1>3. \A s \in rows : /\ Position(s, rows) <= Position(s, rows')
                      /\ Position(s, rows) \in Nat /\ Position(s, rows') \in Nat
  BY <1>2, PositionsFall, PositionsCount
<1>4. rotation[q] \in Rotating
  BY PhaseKinds DEF Updating
<1>5. Skipped(q)' \subseteq Skipped(q)
  <2> SUFFICES ASSUME NEW s \in Skipped(q)' PROVE s \in Skipped(q)
    OBVIOUS
  <2>1. s \in rotation[q].had /\ s \notin rotation[q].mine \cup PageIds(q) /\ s \in Passed(q)'
    BY DEF Skipped, PageIds
  <2>2. s \in Stored
    BY <1>1, <2>1 DEF FewSkipped, Passed
  <2>3. s \in Passed(q)
    <3>1. CASE rotation[q].table = "messages" /\ s \in ChunkIds
      BY <2>2, <3>1 DEF Passed
    <3>2. CASE /\ s \in rows'
               /\ rotation[q].full => Position(s, rows') < rotation[q].offset
      <4>1. s \in rows
        BY <2>2, <3>2 DEF TableRows
      <4>2. rotation[q].full => Position(s, rows) < rotation[q].offset
        <5>1. rotation[q].offset \in Nat
          BY <1>4 DEF Rotating
        <5> QED  BY <1>3, <3>2, <4>1, <5>1
      <4> QED  BY <2>2, <4>1, <4>2 DEF Passed
    <3>3. Position(s, rows)' = Position(s, rows')
      BY DEF Position
    <3> QED  BY <2>1, <3>1, <3>2, <3>3 DEF Passed
  <2> QED  BY <2>1, <2>3 DEF Skipped
<1> QED  BY <1>1, <1>5, FewSkippedFrame

\* Erasing a row moves at most one other below the offset.
LEMMA EraseKeepsFewSkipped ==
    ASSUME TypeOK, TypeOK', NEW q \in Owners, Updating(q), FewSkipped(q), NEW x \in RowIds,
           Stored \cap erased = {}, EraseRow(x)
    PROVE  FewSkipped(q)'
<1> DEFINE rows == TableRows(rotation[q].table)
           offset == rotation[q].offset
<1>1. /\ x \in Stored /\ Stored' = Stored \ {x} /\ erased' = erased \cup {x}
      /\ rotation' = rotation
  BY DEF EraseRow, Stored
<1>2. rows \in SUBSET RowIds /\ rows' = rows \ {x} /\ rows \subseteq Nat
  BY <1>1, RowsAreFinite DEF TypeOK, TableRows
<1>3. offset \in Nat
  BY PhaseKinds DEF Updating, Rotating
<1>4. \A s \in rows : Position(s, rows) \in Nat /\ Position(s, rows') \in Nat
  BY <1>2, PositionsCount
<1>5. ASSUME NEW s \in rows
      PROVE  Position(s, rows) <= Position(s, rows') + 1
  <2> DEFINE below == {t \in rows : t < s}
  <2>1. IsFiniteSet(below)
    BY <1>2, RowsAreFinite
  <2>2. {t \in rows' : t < s} = below \ {x}
    BY <1>2
  <2>3. Cardinality(below \ {x}) = IF x \in below THEN Cardinality(below) - 1 ELSE Cardinality(below)
    BY <2>1, FS_RemoveElement
  <2>4. Position(s, rows) = Cardinality(below) /\ Position(s, rows') = Cardinality(below \ {x})
    BY <2>2 DEF Position
  <2> HIDE DEF below
  <2> QED  BY <1>4, <2>3, <2>4
<1>6. ASSUME NEW s \in Skipped(q)', s \notin Skipped(q)
      PROVE  s \in rows /\ Position(s, rows) = offset
  <2>1. /\ s \in rotation[q].had /\ s \notin rotation[q].mine \cup PageIds(q)
        /\ s \in Passed(q)' /\ s \in Stored
    BY <1>1 DEF Skipped, PageIds, Passed
  <2>2. s \notin Passed(q)
    BY <1>6, <2>1 DEF Skipped
  <2>3. Position(s, rows)' = Position(s, rows')
    BY DEF Position
  <2>4. s \in rows /\ Position(s, rows') < offset /\ ~(Position(s, rows) < offset)
    BY <1>1, <1>2, <2>1, <2>2, <2>3 DEF Passed
  <2> QED  BY <1>3, <1>4, <1>5, <2>4
<1>7. \A s, t \in Skipped(q)' \ Skipped(q) : s = t
  <2> SUFFICES ASSUME NEW s \in Skipped(q)' \ Skipped(q), NEW t \in Skipped(q)' \ Skipped(q)
               PROVE  s = t
    OBVIOUS
  <2>1. s \in rows /\ t \in rows /\ Position(s, rows) = Position(t, rows)
    BY <1>6
  <2>2. ~(s < t) /\ ~(t < s)
    BY <1>2, <1>4, <2>1, PositionsDiffer
  <2>3. s \in Nat /\ t \in Nat
    BY <1>2, <2>1
  <2> QED  BY <2>2, <2>3
<1>8. x \notin erased /\ x \notin rotation[q].gone
  BY <1>1 DEF FewSkipped
<1> DEFINE before == erased \ rotation[q].gone
<1>9. /\ IsFiniteSet(Skipped(q)) /\ Cardinality(Skipped(q)) \in Nat
      /\ IsFiniteSet(before) /\ Cardinality(before) \in Nat
      /\ Cardinality(Skipped(q)) <= Cardinality(before)
  BY SkippedIsFinite DEF FewSkipped
<1>10. erased' \ rotation'[q].gone = before \cup {x} /\ x \notin before
  BY <1>1, <1>8
<1>11. Cardinality(before \cup {x}) = Cardinality(before) + 1
  BY <1>9, <1>10, FS_AddElement
<1>12. \E y : Skipped(q)' \subseteq Skipped(q) \cup {y}
  BY <1>7
<1>13. Cardinality(Skipped(q)') <= Cardinality(Skipped(q)) + 1
  <2>1. PICK y : Skipped(q)' \subseteq Skipped(q) \cup {y}
    BY <1>12
  <2>2. /\ IsFiniteSet(Skipped(q) \cup {y})
        /\ \/ Cardinality(Skipped(q) \cup {y}) = Cardinality(Skipped(q)) + 1
           \/ Cardinality(Skipped(q) \cup {y}) = Cardinality(Skipped(q))
    BY <1>9, FS_AddElement
  <2>3. Cardinality(Skipped(q)') <= Cardinality(Skipped(q) \cup {y})
    BY <2>1, <2>2, FS_Subset
  <2>4. Cardinality(Skipped(q)') \in Nat
    <3>1. IsFiniteSet(Skipped(q)')
      BY <2>1, <2>2, FS_Subset
    <3> QED  BY <3>1, FS_CardinalityType
  <2> QED  BY <1>9, <2>2, <2>3, <2>4
<1>14. Cardinality(Skipped(q)') \in Nat
  <2>1. Skipped(q)' \in SUBSET RowIds
    BY SkippedIsFinite, <1>1, <1>6, <1>2
  <2>2. IsFiniteSet(Skipped(q)')
    BY <2>1, RowsAreFinite
  <2> QED  BY <2>2, FS_CardinalityType
<1>15. Cardinality(Skipped(q)') <= Cardinality(before \cup {x})
  BY ONLY <1>9, <1>11, <1>13, <1>14
<1>16. Cardinality(Skipped(q))' = Cardinality(Skipped(q)')
  OBVIOUS
<1> QED  BY <1>1, <1>10, <1>15, <1>16 DEF FewSkipped

\* Until a page is full there is nothing beyond it, so none is skipped.
LEMMA SelectKeepsFewSkipped ==
    ASSUME TypeOK, TypeOK', NEW q \in Owners, SelectBatch(q), FewSkipped(q)
    PROVE  FewSkipped(q)'
<1>0. rotation[q] \in Rotating /\ In(q, "rows") /\ rotation[q].page = {}
  BY PhaseKinds DEF SelectBatch, PageDone, In
<1>1. PICK table \in {"chunks", "messages"}, offset \in Nat :
        /\ Select(q, table, offset)
        /\ \/ rotation[q].full /\ table = rotation[q].table /\ offset = rotation[q].offset
           \/ /\ ~rotation[q].full /\ rotation[q].table = "chunks"
              /\ table = "messages" /\ offset = 0
  BY <1>0 DEF SelectBatch, Rotating
<1> DEFINE rows == TableRows(table)
           page == Page(q, table, offset)
           full == Cardinality(page) = BATCH
           R == [rotation[q] EXCEPT !.table = table, !.offset = offset + BATCH, !.page = page,
                                    !.full = full]
<1>2. rotation'[q] = R /\ Stored' = Stored /\ erased' = erased
  BY <1>1 DEF Select, Become, TypeOK, Stored
<1>3. full \in BOOLEAN
  OBVIOUS
<1> HIDE DEF full
<1>4. /\ R.table = table /\ R.offset = offset + BATCH /\ R.page = page /\ R.full = full
      /\ R.mine = rotation[q].mine /\ R.had = rotation[q].had /\ R.gone = rotation[q].gone
  BY <1>0, <1>3 DEF Rotating
<1> HIDE DEF R
<1>5. rows \in SUBSET RowIds /\ \A s \in rows : Position(s, rows) \in Nat
  BY TablesAreRows, PositionsCount
<1>6. \A s \in rows : Position(s, rows) \in offset .. offset + BATCH - 1 => s \in PageIds(q)'
  <2> DEFINE row(s) == [id |-> s, dek |-> IF s \in rotation[q].mine THEN rotation[q].new ELSE key[s]]
             onPage == {t \in rows : Position(t, rows) \in offset .. offset + BATCH - 1}
  <2>1. page = {row(s) : s \in onPage}
    BY DEF Page
  <2>2. \A s : row(s).id = s
    OBVIOUS
  <2>3. PageIds(q)' = {r.id : r \in page}
    BY <1>2, <1>4 DEF PageIds
  <2>4. \A s \in onPage : s \in PageIds(q)'
    <3> HIDE DEF row, page, onPage
    <3> QED  BY <2>1, <2>2, <2>3
  <2> QED  BY <2>4
<1>7. \A s \in rows : offset + BATCH <= Position(s, rows) => full
  BY PageIsFull DEF full
<1> HIDE DEF page
<1>8. Skipped(q)' \subseteq Skipped(q)
  <2> SUFFICES ASSUME NEW s \in Skipped(q)' PROVE s \in Skipped(q)
    OBVIOUS
  <2>1. /\ s \in rotation[q].had /\ s \notin rotation[q].mine /\ s \notin PageIds(q)'
        /\ s \in Stored
        /\ \/ table = "messages" /\ s \in ChunkIds
           \/ s \in rows /\ (full => Position(s, rows) < offset + BATCH)
    BY <1>2, <1>4 DEF Skipped, Passed, TableRows, Position
  <2>2. PageIds(q) = {}
    BY <1>0 DEF PageIds
  <2>3. CASE table = "messages" /\ s \in ChunkIds
    <3>1. s \in Passed(q)
      BY <1>1, <2>1, <2>3 DEF Passed, TableRows
    <3> QED  BY <2>1, <2>2, <3>1 DEF Skipped
  <2>4. CASE s \in rows /\ (full => Position(s, rows) < offset + BATCH)
    <3>1. Position(s, rows) < offset
      BY <1>5, <1>6, <1>7, <2>1, <2>4
    <3>2. table = rotation[q].table /\ offset = rotation[q].offset
      BY <1>1, <1>5, <2>4, <3>1
    <3>3. s \in Passed(q)
      BY <2>1, <2>4, <3>1, <3>2 DEF Passed
    <3> QED  BY <2>1, <2>2, <3>3 DEF Skipped
  <2> QED  BY <2>1, <2>3, <2>4
<1> QED  BY <1>2, <1>4, <1>8, FewSkippedFrame

\* What is re-encrypted is not skipped, nor is a row of the page that is gone.
LEMMA ReencryptKeepsFewSkipped ==
    ASSUME TypeOK, TypeOK', NEW q \in Owners, In(q, "rows"), FewSkipped(q),
           NEW row \in rotation[q].page, Reencrypt(q, row), ~Fails(q)
    PROVE  FewSkipped(q)'
<1> DEFINE R == [rotation[q] EXCEPT !.page = @ \ {row}, !.mine = @ \cup ({row.id} \cap Stored)]
<1>0. rotation[q] \in Rotating
  BY PhaseKinds DEF In
<1>1. rotation'[q] = R /\ Stored' = Stored /\ erased' = erased
  BY DEF Reencrypt, Become, TypeOK, Stored
<1>2. /\ R.table = rotation[q].table /\ R.offset = rotation[q].offset /\ R.full = rotation[q].full
      /\ R.page = rotation[q].page \ {row}
      /\ R.mine = rotation[q].mine \cup ({row.id} \cap Stored)
      /\ R.had = rotation[q].had /\ R.gone = rotation[q].gone
  BY <1>0 DEF Rotating
<1> HIDE DEF R
<1>3. Passed(q)' = Passed(q)
  BY <1>1, <1>2 DEF Passed, TableRows, Position
<1>4. \A s \in PageIds(q) : s \in PageIds(q)' \/ s = row.id
  BY <1>1, <1>2 DEF PageIds
<1>5. Skipped(q)' \subseteq Skipped(q)
  <2> SUFFICES ASSUME NEW s \in Skipped(q)' PROVE s \in Skipped(q)
    OBVIOUS
  <2>1. s \in rotation[q].had /\ s \in Passed(q) /\ s \notin R.mine /\ s \notin PageIds(q)'
    BY <1>1, <1>2, <1>3 DEF Skipped
  <2>2. s \in Stored
    BY <2>1 DEF Passed
  <2> QED  BY <1>2, <1>4, <2>1, <2>2 DEF Skipped
<1> QED  BY <1>1, <1>2, <1>5, FewSkippedFrame

\* A rotation that goes on to its commit, or whose rows are left alone.
LEMMA SameRowsKeepFewSkipped ==
    ASSUME TypeOK, TypeOK', NEW q \in Owners, FewSkipped(q), Stored' = Stored, erased' = erased,
           \A f \in {"table", "offset", "full", "page", "mine", "had", "gone"} :
               rotation'[q][f] = rotation[q][f]
    PROVE  FewSkipped(q)'
<1>1. /\ rotation'[q].table = rotation[q].table /\ rotation'[q].offset = rotation[q].offset
      /\ rotation'[q].full = rotation[q].full /\ rotation'[q].page = rotation[q].page
      /\ rotation'[q].mine = rotation[q].mine /\ rotation'[q].had = rotation[q].had
      /\ rotation'[q].gone = rotation[q].gone
  OBVIOUS
<1>2. Skipped(q)' = Skipped(q)
  BY <1>1 DEF Skipped, Passed, TableRows, Position, PageIds
<1> QED  BY <1>1, <1>2, FewSkippedFrame

LEMMA ReadActiveStartsFew ==
    ASSUME TypeOK, NEW q \in Owners, ReadActive(q)
    PROVE  FewSkipped(q)'
<1>1. PICK v \in versions :
        rotation' = [rotation EXCEPT ![q] =
          [phase |-> "rows", current |-> v.no, old |-> v.dek, new |-> rotation[q].new,
           table |-> "chunks", offset |-> 0, page |-> {}, full |-> TRUE,
           mine |-> {}, had |-> Stored, gone |-> erased]]
  BY DEF ReadActive, ActiveRows, Become
<1>2. /\ rotation'[q].table = "chunks" /\ rotation'[q].offset = 0 /\ rotation'[q].full = TRUE
      /\ rotation'[q].had = Stored /\ rotation'[q].gone = erased
      /\ Stored' = Stored /\ erased' = erased
  BY <1>1 DEF TypeOK, ReadActive, Stored
<1>3. Passed(q)' = {}
  <2>1. \A s \in TableRows("chunks") :
            ~(Position(s, TableRows("chunks")) < 0)
    BY TablesAreRows, PositionsCount
  <2>2. TableRows("chunks")' = TableRows("chunks")
    BY <1>2 DEF TableRows
  <2> QED  BY <1>2, <2>1, <2>2 DEF Passed, Position
<1>4. Skipped(q)' = {} /\ erased' \ rotation'[q].gone = {}
  BY <1>2, <1>3 DEF Skipped
<1>5. Cardinality(Skipped(q))' = 0 /\ Cardinality(erased \ rotation[q].gone)' = 0
  BY <1>4, FS_EmptySet
<1> QED  BY <1>2, <1>5 DEF FewSkipped

\* Another owner's step leaves this one's rows and record alone.
LEMMA OwnStepKeepsSkipInv ==
    ASSUME TypeOK, TypeOK', SkipInv, NEW q \in Owners,
           \A p \in Owners \ {q} : rotation'[p] = rotation[p],
           Stored' = Stored, erased' = erased,
           Updating(q)' => FewSkipped(q)',
           In(q, "commit")' => Finished(q)'
    PROVE  SkipInv'
<1>1. ASSUME NEW p \in Owners \ {q}, Updating(p)'
      PROVE  FewSkipped(p)'
  <2>1. rotation'[p] = rotation[p] /\ Updating(p) /\ FewSkipped(p)
    BY <1>1 DEF Updating, SkipInv
  <2> QED  BY <2>1, SameRowsKeepFewSkipped
<1>2. ASSUME NEW p \in Owners \ {q}, In(p, "commit")'
      PROVE  Finished(p)'
  BY <1>2 DEF In, Finished, SkipInv
<1> QED  BY <1>1, <1>2 DEF SkipInv

LEMMA RowsKeepSkipInv ==
    ASSUME TypeOK, TypeOK', SkipInv, NEW r \in RowIds,
           IngestChunk(r) \/ PersistMessage(r) \/ EraseRow(r)
    PROVE  SkipInv'
<1>0. rotation' = rotation
  BY DEF IngestChunk, PersistMessage, EraseRow
<1>1. CASE Write(r) /\ erased' = erased
  <2>1. Stored' = Stored \cup {r} /\ r \notin erased
    BY <1>1 DEF Write, Stored
  <2>2. ASSUME NEW q \in Owners, Updating(q)' PROVE FewSkipped(q)'
    <3>1. Updating(q) /\ FewSkipped(q)
      BY <1>0, <2>2 DEF Updating, SkipInv
    <3> QED  BY <1>0, <1>1, <3>1, WriteKeepsFewSkipped
  <2> QED  BY <1>0, <1>1, <2>1, <2>2 DEF SkipInv, In, Finished
<1>2. CASE EraseRow(r)
  <2>1. Stored' = Stored \ {r} /\ erased' = erased \cup {r}
    BY <1>2 DEF EraseRow, Stored
  <2>2. ASSUME NEW q \in Owners, Updating(q)' PROVE FewSkipped(q)'
    <3>1. Updating(q) /\ FewSkipped(q) /\ Stored \cap erased = {}
      BY <1>0, <2>2 DEF Updating, SkipInv
    <3> QED  BY <1>2, <3>1, EraseKeepsFewSkipped
  <2> QED  BY <1>0, <2>1, <2>2 DEF SkipInv, In, Finished
<1> QED  BY <1>1, <1>2 DEF IngestChunk, PersistMessage

LEMMA NextSkipInv == TypeOK /\ TypeOK' /\ SkipInv /\ [Next]_vars => SkipInv'
<1> SUFFICES ASSUME TypeOK, TypeOK', SkipInv, [Next]_vars PROVE SkipInv'
  OBVIOUS
<1>1. ASSUME NEW r \in RowIds, IngestChunk(r) \/ PersistMessage(r) \/ EraseRow(r)
      PROVE  SkipInv'
  BY <1>1, RowsKeepSkipInv
<1>2. ASSUME NEW q \in Owners, BeginRotate(q) \/ Rotate(q) \/ RotationDies(q)
      PROVE  SkipInv'
  <2>1. /\ \A p \in Owners \ {q} : rotation'[p] = rotation[p]
        /\ Stored' = Stored /\ erased' = erased
    BY <1>2 DEF TypeOK, BeginRotate, Rotate, RotationDies, EnsureReads, EnsureInserts, ReadActive,
       SelectBatch, Select, ReencryptRow, Reencrypt, Retire, CommitRotation, Announce, Fails, End,
       Enter, Become, Stored
  <2>2. ASSUME Updating(q)'
        PROVE  FewSkipped(q)' /\ (In(q, "commit")' => Finished(q)')
    <3>1. CASE ReadActive(q)
      <4>1. ~In(q, "commit")'
        BY <3>1 DEF ReadActive, Become, TypeOK, In
      <4> QED  BY <3>1, <4>1, ReadActiveStartsFew
    <3>2. CASE SelectBatch(q)
      <4>1. /\ In(q, "rows") /\ FewSkipped(q) /\ rotation[q] \in Rotating
        BY <3>2, PhaseKinds DEF SelectBatch, PageDone, SkipInv, In, Updating
      <4>2. ~In(q, "commit")'
        <5>1. PICK table, offset : Select(q, table, offset)
          BY <3>2 DEF SelectBatch
        <5> DEFINE full == Cardinality(Page(q, table, offset)) = BATCH
                   R == [rotation[q] EXCEPT !.table = table, !.offset = offset + BATCH,
                                            !.page = Page(q, table, offset), !.full = full]
        <5>2. rotation'[q] = R
          BY <5>1 DEF Select, Become, TypeOK
        <5> HIDE DEF full
        <5>3. R.phase = rotation[q].phase
          BY <4>1 DEF Rotating
        <5> QED  BY <4>1, <5>2, <5>3 DEF In
      <4> QED  BY <3>2, <4>1, <4>2, SelectKeepsFewSkipped
    <3>3. CASE ReencryptRow(q)
      <4>1. In(q, "rows") /\ FewSkipped(q) /\ rotation[q] \in Rotating
        BY <3>3, PhaseKinds DEF ReencryptRow, SkipInv, In, Updating
      <4>2. PICK row \in rotation[q].page : NextRow(q, row) /\ Reencrypt(q, row)
        BY <3>3 DEF ReencryptRow
      <4>3. ~Fails(q)
        BY <2>2 DEF Fails, End, Become, TypeOK, Updating, Idle
      <4>4. ~In(q, "commit")'
        <5> DEFINE R == [rotation[q] EXCEPT !.page = @ \ {row}, !.mine = @ \cup ({row.id} \cap Stored)]
        <5>1. rotation'[q] = R
          BY <4>2, <4>3 DEF Reencrypt, Become, TypeOK
        <5>2. R.phase = rotation[q].phase
          BY <4>1 DEF Rotating
        <5> QED  BY <4>1, <5>1, <5>2 DEF In
      <4> QED  BY <4>1, <4>2, <4>3, <4>4, ReencryptKeepsFewSkipped
    <3>4. CASE BeginRotate(q) \/ RotationDies(q) \/ Announce(q)
      BY <2>2, <3>4 DEF TypeOK, BeginRotate, RotationDies, Announce, Fails, End, Become, Updating, Idle
    <3>5. CASE EnsureReads(q) \/ EnsureInserts(q)
      <4>1. rotation[q] \in Preparing
        BY <3>5, PhaseKinds DEF EnsureReads, EnsureInserts, In
      <4> QED  BY <2>2, <3>5, <4>1
                DEF TypeOK, EnsureReads, EnsureInserts, Enter, Become, Updating, Preparing
    <3>6. CASE CommitRotation(q)
      <4>1. rotation[q] \in Rotating
        BY <3>6, PhaseKinds DEF CommitRotation, In
      <4> QED  BY <2>2, <3>6, <4>1 DEF TypeOK, CommitRotation, Enter, Become, Updating, Rotating
    <3>7. CASE Retire(q)
      <4>1. /\ rotation[q] \in Rotating /\ FewSkipped(q) /\ Finished(q)
        BY <3>7, PhaseKinds DEF Retire, PageDone, In, SkipInv, Updating, Finished
      <4>2. rotation'[q] = [rotation[q] EXCEPT !.phase = "commit"]
        BY <2>2, <3>7 DEF TypeOK, Retire, Fails, End, Enter, Become, Updating, Idle
      <4>3. \A f \in {"table", "offset", "full", "page", "mine", "had", "gone"} :
                rotation'[q][f] = rotation[q][f]
        BY <4>1, <4>2 DEF Rotating
      <4>4. FewSkipped(q)'
        BY <2>1, <4>1, <4>3, SameRowsKeepFewSkipped
      <4>5. Finished(q)'
        BY <4>1, <4>2 DEF Finished, Rotating
      <4> QED  BY <4>4, <4>5
    <3> QED  BY <1>2, <3>1, <3>2, <3>3, <3>4, <3>5, <3>6, <3>7 DEF Rotate
  <2>3. In(q, "commit")' => Updating(q)'
    BY DEF In, Updating
  <2> QED  BY <2>1, <2>2, <2>3, OwnStepKeepsSkipInv
<1>3. CASE UNCHANGED vars
  BY <1>3 DEF vars, SkipInv, FewSkipped, Skipped, Passed, Finished, PageIds, TableRows, Position,
     Stored, In, Updating
<1> QED  BY <1>1, <1>2, <1>3 DEF Next

\* Only its own commit takes a rotation on to its announcement.
LEMMA CommitsAreCommits ==
    ASSUME TypeOK, [Next]_vars, NEW q \in Owners,
           In(q, "commit"), rotation'[q].phase = "announce"
    PROVE  CommitRotation(q)
<1>1. rotation'[q] # rotation[q]
  BY DEF In
<1>2. BeginRotate(q) \/ Rotate(q) \/ RotationDies(q)
  <2>1. ASSUME NEW p \in Owners \ {q}, BeginRotate(p) \/ Rotate(p) \/ RotationDies(p)
        PROVE  rotation'[q] = rotation[q]
    BY <2>1 DEF TypeOK, BeginRotate, Rotate, RotationDies, EnsureReads, EnsureInserts, ReadActive,
       SelectBatch, Select, ReencryptRow, Reencrypt, Retire, CommitRotation, Announce, Fails, End,
       Enter, Become
  <2>2. PICK p \in Owners : BeginRotate(p) \/ Rotate(p) \/ RotationDies(p)
    BY <1>1 DEF Next, vars, IngestChunk, PersistMessage, EraseRow
  <2>3. p = q
    BY <1>1, <2>1, <2>2
  <2> QED  BY <2>2, <2>3
<1>3. ~RotationDies(q)
  BY DEF RotationDies, Fails, End, Become, TypeOK, Idle
<1> QED  BY <1>2, <1>3 DEF Rotate, BeginRotate, EnsureReads, EnsureInserts, ReadActive, SelectBatch,
        PageDone, ReencryptRow, Retire, Announce, In

\* What a commit leaves under another key is what it had skipped.
LEMMA CommitsMissWhatTheySkipped ==
    ASSUME TypeOK, NEW q \in Owners, CommitRotation(q), Finished(q)
    PROVE  Missed(q) \subseteq Skipped(q)
<1>1. rotation[q] \in Rotating
  BY PhaseKinds DEF CommitRotation, In
<1>2. \A r \in Stored : r \in rotation[q].mine => key'[r] = rotation[q].new
  BY DEF CommitRotation
<1>3. Stored \subseteq Passed(q)
  BY DEF Passed, Finished, TableRows, TypeOK, RowIds
<1>4. PageIds(q) = {}
  BY DEF PageIds, Finished
<1> QED  BY <1>2, <1>3, <1>4 DEF Missed, Skipped

\* A finished rotation leaves at most one of the rows that were there when it began
\* under another key for each row erased while it ran: the rows below an erased one
\* move up across the page boundary, and nothing else is missed.
THEOREM RotationsMissOnlyShifted == Spec => RotationMissesOnlyShifted
<1>1. Init => SkipInv
  BY DEF Init, SkipInv, In, Updating, Idle
<1>2. TypeOK /\ TypeOK' /\ SkipInv /\ [Next]_vars => SkipInv'
  BY NextSkipInv
<1> DEFINE Few == \A q \in Owners :
                     In(q, "commit") /\ rotation'[q].phase = "announce"
                       => Cardinality(Missed(q)) <= Cardinality(erased \ rotation[q].gone)
<1>3. TypeOK /\ SkipInv /\ [Next]_vars => Few
  <2> SUFFICES ASSUME TypeOK, SkipInv, [Next]_vars, NEW q \in Owners,
                      In(q, "commit"), rotation'[q].phase = "announce"
               PROVE  Cardinality(Missed(q)) <= Cardinality(erased \ rotation[q].gone)
    OBVIOUS
  <2>1. CommitRotation(q) /\ Finished(q) /\ FewSkipped(q)
    BY CommitsAreCommits DEF SkipInv, In, Updating
  <2>2. Missed(q) \subseteq Skipped(q)
    BY <2>1, CommitsMissWhatTheySkipped
  <2>3. /\ IsFiniteSet(Skipped(q)) /\ Cardinality(Skipped(q)) \in Nat
        /\ Cardinality(erased \ rotation[q].gone) \in Nat
        /\ Cardinality(Skipped(q)) <= Cardinality(erased \ rotation[q].gone)
    BY <2>1, SkippedIsFinite DEF FewSkipped
  <2>4. /\ Cardinality(Missed(q)) <= Cardinality(Skipped(q))
        /\ Cardinality(Missed(q)) \in Nat
    <3>1. IsFiniteSet(Missed(q)) /\ Cardinality(Missed(q)) <= Cardinality(Skipped(q))
      BY <2>2, <2>3, FS_Subset
    <3> QED  BY <3>1, FS_CardinalityType
  <2> QED  BY ONLY <2>3, <2>4
<1>4. [Next]_vars /\ TypeOK /\ SkipInv => [Few]_vars
  BY <1>3
<1> HIDE DEF Few
<1>5. Spec => [][Few]_vars
  BY <1>1, <1>2, <1>4, KeysTypeCorrect, PTL DEF Spec
<1> QED  BY <1>5 DEF RotationMissesOnlyShifted, Few

-----------------------------------------------------------------------------
(* Keys implements EventList *)

\* No number below that of a version is left out.
VersionsFill == \A v \in versions : \A n \in 1 .. v.no : HasVersion(n)

DekIn(V, n) == (CHOOSE v \in V : v.no = n).dek
HistoryIn(V, k) == [n \in 1 .. k |-> DekIn(V, n)]

NumbersDiffer(V) == \A v, w \in V : v.no = w.no => v = w

\* The key history reads off the versions up to the active one.
LEMMA HistoryOfActive ==
    ASSUME NEW V \in SUBSET Versions, \A v, w \in V : v.active /\ w.active => v = w,
           NEW a \in V, a.active
    PROVE  /\ V # {}
           /\ (CHOOSE v \in V : v.active).no = a.no
<1>1. (CHOOSE v \in V : v.active) = a
  OBVIOUS
<1> QED  BY <1>1

LEMMA DekOfVersion ==
    ASSUME NEW V, NumbersDiffer(V), NEW v \in V
    PROVE  DekIn(V, v.no) = v.dek
<1>1. (CHOOSE w \in V : w.no = v.no) = v
  BY DEF NumbersDiffer
<1> QED  BY <1>1 DEF DekIn

LEMMA AppendToHistory ==
    ASSUME NEW n \in Nat, NEW s \in [1 .. n -> Keys], NEW k \in Keys
    PROVE  Append(s, k) = [i \in 1 .. n + 1 |-> IF i = n + 1 THEN k ELSE s[i]]
<1>1. s \in Seq(Keys) /\ Len(s) = n
  OBVIOUS
<1> DEFINE t == Append(s, k)
<1>2. /\ t \in Seq(Keys) /\ Len(t) = n + 1 /\ t[n + 1] = k
      /\ \A i \in 1 .. n : t[i] = s[i]
  BY <1>1
<1> HIDE DEF t
<1>3. t = [i \in 1 .. n + 1 |-> t[i]]
  BY <1>2
<1>4. \A i \in 1 .. n + 1 : t[i] = IF i = n + 1 THEN k ELSE s[i]
  BY <1>2
<1>5. t = [i \in 1 .. n + 1 |-> IF i = n + 1 THEN k ELSE s[i]]
  BY <1>3, <1>4
<1> QED  BY <1>5 DEF t

LEMMA CommitExtendsHistory ==
    ASSUME IInv, VersionsFill, TypeOK', OneActiveKey', NEW q \in Owners, CommitRotation(q)
    PROVE  KeyList!Extend /\ VersionsFill'
<1> DEFINE n == rotation[q].current
           new == rotation[q].new
<1>1. rotation[q] \in Rotating /\ In(q, "commit") /\ TypeOK /\ versions' = Retired(rotation[q])
  BY PhaseKinds DEF IInv, CommitRotation, In
<1>2. n \in Nat \ {0} /\ new \in Keys
  BY <1>1 DEF Rotating
<1>3. /\ \A v \in versions : \E w \in versions' : w.no = v.no /\ w.dek = v.dek
      /\ [no |-> n + 1, dek |-> new, active |-> TRUE] \in versions'
      /\ \A w \in versions' :
            \/ w = [no |-> n + 1, dek |-> new, active |-> TRUE]
            \/ \E v \in versions : w.no = v.no /\ w.dek = v.dek
  <2>1. /\ \A v \in versions : \E w \in Retired(rotation[q]) :
              w.no = v.no /\ w.dek = v.dek /\ (w.active <=> v.active /\ v.no # n)
        /\ [no |-> n + 1, dek |-> new, active |-> TRUE] \in Retired(rotation[q])
        /\ \A w \in Retired(rotation[q]) :
              \/ w = [no |-> n + 1, dek |-> new, active |-> TRUE]
              \/ \E v \in versions :
                   w.no = v.no /\ w.dek = v.dek /\ (w.active <=> v.active /\ v.no # n)
    BY <1>1, RetiredVersions, Zenon
  <2> HIDE DEF n, new
  <2> QED  BY <1>1, <2>1, Zenon
<1> HIDE DEF new
<1>4. PICK b \in versions' : b.no = n + 1 /\ b.dek = new /\ b.active
  BY <1>3
<1>5. HasVersion(n) /\ ~HasVersion(n + 1)
  BY <1>1 DEF IInv, RotationsHaveASource, Updating, In, CommitsAreExclusive
<1>6. PICK a \in versions : a.no = n /\ a.active
  BY <1>5 DEF IInv, VersionsAreNumbered, HasVersion
<1>7. NumbersDiffer(versions) /\ NumbersDiffer(versions')
      /\ versions \in SUBSET Versions /\ versions' \in SUBSET Versions
  BY <1>1 DEF IInv, OneActiveKey, NumbersDiffer, TypeOK
<1>8. Latest = n
  BY <1>6, <1>7, HistoryOfActive DEF IInv, OneActiveKey, Latest
<1>9. Latest' = n + 1
  <2>1. \A v, w \in versions' : v.active /\ w.active => v = w
    BY DEF OneActiveKey
  <2>2. versions' # {} /\ (CHOOSE v \in versions' : v.active).no = n + 1
    BY <1>4, <1>7, <2>1, HistoryOfActive
  <2> QED  BY <2>2 DEF Latest
<1>10. \A i \in 1 .. n : \E v \in versions : v.no = i
  BY <1>6 DEF VersionsFill, HasVersion
<1>11. KeyHistory = HistoryIn(versions, n) /\ KeyHistory' = HistoryIn(versions', n + 1)
  BY <1>8, <1>9 DEF KeyHistory, HistoryIn, DekIn
<1>12. \A i \in 1 .. n : DekIn(versions, i) \in Keys /\ DekIn(versions', i) = DekIn(versions, i)
  <2> SUFFICES ASSUME NEW i \in 1 .. n
               PROVE  DekIn(versions, i) \in Keys /\ DekIn(versions', i) = DekIn(versions, i)
    OBVIOUS
  <2>1. PICK v \in versions : v.no = i
    BY <1>10
  <2>2. PICK w \in versions' : w.no = v.no /\ w.dek = v.dek
    BY <1>3
  <2>3. DekIn(versions, i) = v.dek /\ DekIn(versions', i) = w.dek
    BY <1>7, <2>1, <2>2, DekOfVersion
  <2> QED  BY <1>7, <2>2, <2>3 DEF Versions
<1>13. DekIn(versions', n + 1) = new
  BY <1>4, <1>7, DekOfVersion
<1>14. KeyHistory \in [1 .. n -> Keys]
  BY <1>11, <1>12 DEF HistoryIn
<1>15. KeyHistory' = [i \in 1 .. n + 1 |-> IF i = n + 1 THEN new ELSE KeyHistory[i]]
  <2>1. \A i \in 1 .. n + 1 :
           DekIn(versions', i) = IF i = n + 1 THEN new ELSE HistoryIn(versions, n)[i]
    BY <1>2, <1>12, <1>13 DEF HistoryIn
  <2> QED  BY <1>11, <2>1 DEF HistoryIn
<1>16. KeyHistory' = Append(KeyHistory, new)
  <2> HIDE DEF n
  <2>1. Append(KeyHistory, new)
          = [i \in 1 .. n + 1 |-> IF i = n + 1 THEN new ELSE KeyHistory[i]]
    BY <1>2, <1>14, AppendToHistory
  <2> QED  BY <1>15, <2>1
<1>17. VersionsFill'
  <2> SUFFICES ASSUME NEW w \in versions', NEW i \in 1 .. w.no
               PROVE  \E u \in versions' : u.no = i
    BY DEF VersionsFill, HasVersion
  <2>1. CASE w.no = n + 1
    BY <1>2, <1>3, <1>4, <1>10, <2>1
  <2>2. CASE w.no # n + 1
    <3>1. PICK v \in versions : w.no = v.no
      BY <1>3, <2>2
    <3>2. PICK u \in versions : u.no = i
      BY <3>1 DEF VersionsFill, HasVersion
    <3> QED  BY <1>3, <3>2
  <2> QED  BY <2>1, <2>2
<1> QED  BY <1>2, <1>16, <1>17 DEF KeyList!Extend

LEMMA EnsureExtendsHistory ==
    ASSUME IInv, VersionsFill, NEW q \in Owners, EnsureInserts(q)
    PROVE  (KeyList!Extend \/ UNCHANGED versions) /\ VersionsFill'
<1>1. CASE HasVersion(1)
  BY <1>1 DEF EnsureInserts, HasVersion, VersionsFill
<1>2. CASE ~HasVersion(1)
  <2>1. versions = {} /\ versions' = {FirstVersion}
    BY <1>2 DEF IInv, VersionsAreNumbered, EnsureInserts, HasVersion
  <2>2. FirstVersion.no = 1 /\ FirstVersion.dek = TenantKey /\ FirstVersion.active
    BY DEF FirstVersion
  <2> HIDE DEF FirstVersion
  <2>3. (CHOOSE v \in {FirstVersion} : v.active) = FirstVersion
        /\ (CHOOSE v \in {FirstVersion} : v.no = 1) = FirstVersion
    BY <2>2
  <2>4. Latest = 0 /\ Latest' = 1
    BY <2>1, <2>2, <2>3 DEF Latest
  <2>5. KeyHistory = << >>
    BY <2>4 DEF KeyHistory
  <2>6. KeyHistory' = [i \in 1 .. 1 |-> TenantKey]
    <3>1. \A i \in 1 .. 1 : (CHOOSE v \in {FirstVersion} : v.no = i).dek = TenantKey
      BY <2>2, <2>3
    <3> QED  BY <2>1, <2>4, <3>1 DEF KeyHistory
  <2>7. KeyHistory' = Append(KeyHistory, TenantKey) /\ TenantKey \in Keys
    BY <2>5, <2>6 DEF Keys, TenantKey
  <2>8. VersionsFill'
    BY <2>1, <2>2 DEF VersionsFill, HasVersion
  <2> QED  BY <2>7, <2>8 DEF KeyList!Extend
<1> QED  BY <1>1, <1>2

\* The keys of an organisation are an append-only list, whatever rotations overlap
\* and wherever they fail: no rotation's key is overwritten by another's.
THEOREM KeysAreAppendOnly == Spec => ImplementsKeyList
<1>1. Init => KeyList!ListInit /\ VersionsFill
  <2>1. Init => Latest = 0 /\ VersionsFill
    BY DEF Init, Latest, VersionsFill
  <2>2. Latest = 0 => KeyHistory = << >>
    BY DEF KeyHistory
  <2> QED  BY <2>1, <2>2 DEF KeyList!ListInit
<1>2. IInv /\ IInv' /\ VersionsFill /\ [Next]_vars
        => [KeyList!Extend]_KeyHistory /\ VersionsFill'
  <2> SUFFICES ASSUME IInv, IInv', VersionsFill, [Next]_vars
               PROVE  [KeyList!Extend]_KeyHistory /\ VersionsFill'
    OBVIOUS
  <2>1. CASE UNCHANGED versions
    BY <2>1 DEF KeyHistory, Latest, VersionsFill, HasVersion
  <2>2. ASSUME NEW q \in Owners, CommitRotation(q)
        PROVE  KeyList!Extend /\ VersionsFill'
    BY <2>2, CommitExtendsHistory DEF IInv
  <2>3. ASSUME NEW q \in Owners, EnsureInserts(q)
        PROVE  [KeyList!Extend]_KeyHistory /\ VersionsFill'
    BY <2>1, <2>3, EnsureExtendsHistory
  <2>4. ASSUME NEW q \in Owners, BeginRotate(q) \/ Rotate(q) \/ RotationDies(q),
               ~CommitRotation(q), ~EnsureInserts(q)
        PROVE  UNCHANGED versions
    BY <2>4 DEF BeginRotate, Rotate, RotationDies, EnsureReads, ReadActive, SelectBatch, Select,
       ReencryptRow, Reencrypt, Retire, Fails, Announce
  <2>5. ASSUME NEW r \in RowIds, IngestChunk(r) \/ PersistMessage(r) \/ EraseRow(r)
        PROVE  UNCHANGED versions
    BY <2>5 DEF IngestChunk, PersistMessage, EraseRow
  <2> QED  BY <2>1, <2>2, <2>3, <2>4, <2>5 DEF Next, Rotate, vars
<1> QED  BY <1>1, <1>2, KeysInvariance, PTL DEF Spec, ImplementsKeyList, KeyList!ListSpec

=============================================================================
