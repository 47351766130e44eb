-------------------------- MODULE AnchoringProofs --------------------------
(***************************************************************************)
(* Proofs about Anchoring for any writers, any overlapping runs of         *)
(* createAnchor and any number of privileged edits of the tables.          *)
(*                                                                         *)
(* Three inductive invariants carry them.  AnchorInv holds whatever is     *)
(* edited: a log some run saw covers every id the table still has below    *)
(* its newest row, and every checkpoint stored keeps its signature.        *)
(* PristineInv is about the time before the first edit, when a checkpoint  *)
(* names a row that is there, and so is CountsInv: what a run saw is part  *)
(* of the table.  What makes an edit detectable is a fact about chains     *)
(* alone, SameChain.                                                       *)
(***************************************************************************)
EXTENDS Anchoring, SecurityLogProofs, FiniteSetTheorems, SequenceTheorems,
        WellFoundedInduction

-----------------------------------------------------------------------------
(* Least and greatest rows *)

LEMMA LeastNat ==
    ASSUME NEW T \in SUBSET Nat, T # {}
    PROVE  \E n \in T : \A m \in T : n <= m
<1> DEFINE R == OpToRel(<, Nat)
<1>1. \E n \in T : \A m \in T : ~(<<m, n>> \in R)
  <2>1. IsWellFoundedOn(R, Nat)
    BY NatLessThanWellFounded
  <2> HIDE DEF R
  <2> QED  BY <2>1, WFMin
<1>2. PICK n \in T : \A m \in T : ~(<<m, n>> \in R)
  BY <1>1
<1>3. \A m \in T : ~(m < n)
  BY <1>2 DEF OpToRel
<1> QED  BY <1>3

\* A table that is not empty has a row with the least id.
LEMMA LeastRow ==
    ASSUME NEW rows \in SUBSET Rows, rows # {}
    PROVE  \E r \in rows : \A s \in rows : r.id <= s.id
<1> DEFINE T == {r.id : r \in rows}
<1>1. T \in SUBSET Nat /\ T # {}
  BY DEF Rows
<1>2. PICK n \in T : \A m \in T : n <= m
  BY <1>1, LeastNat
<1> QED  BY <1>2

\* A table whose ids are bounded has a newest row, unless it is empty.
LEMMA BoundedHasNewest ==
    ASSUME NEW rows \in SUBSET Rows, NEW n \in Nat, \A r \in rows : r.id <= n
    PROVE  HasNewest(rows)
<1> SUFFICES ASSUME rows # {} PROVE \E r \in rows : \A s \in rows : s.id <= r.id
  BY DEF HasNewest
<1> DEFINE T == {m \in Nat : \A s \in rows : s.id <= m}
<1>0. \A s \in rows : s.id \in Nat
  BY DEF Rows
<1>1. T \in SUBSET Nat /\ T # {}
  OBVIOUS
<1>2. PICK m \in T : \A k \in T : m <= k
  BY <1>1, LeastNat
<1>3. SUFFICES ASSUME \A r \in rows : r.id # m PROVE FALSE
  BY <1>2
<1>4. \A s \in rows : s.id <= m - 1
  BY <1>0, <1>2, <1>3
<1>5. m - 1 \in Nat
  BY <1>0, <1>2, <1>4
<1> QED  BY <1>2, <1>4, <1>5

\* A table whose ids are a bounded primary key is finite.
LEMMA TableIsFinite ==
    ASSUME NEW rows \in SUBSET Rows, UniqueIds(rows),
           NEW n \in Nat, \A r \in rows : r.id <= n
    PROVE  IsFiniteSet(rows)
<1> DEFINE f == [r \in rows |-> r.id]
<1>1. \A r \in rows : r.id \in 0 .. n
  BY DEF Rows
<1>2. f \in Injection(rows, 0 .. n)
  BY <1>1 DEF Injection, IsInjective, UniqueIds
<1>3. IsFiniteSet(0 .. n)
  BY FS_Interval
<1> QED  BY <1>2, <1>3, FS_Injection

LEMMA NewestIsMaximal ==
    ASSUME NEW rows \in SUBSET Rows, rows # {}, HasNewest(rows)
    PROVE  Newest(rows) \in rows /\ \A s \in rows : s.id <= Newest(rows).id
BY DEF HasNewest, Newest

-----------------------------------------------------------------------------
(* Sound chains: tables without a broken row *)

\* A row of a sound chain stores the hash of its link and its content ...
LEMMA RowLinks ==
    ASSUME NEW rows \in SUBSET Rows, BrokenRows(rows) = {}, NEW r \in rows
    PROVE  /\ r.hash = Append(r.prevHash, r.content)
           /\ Len(r.hash) = Len(r.prevHash) + 1
<1>1. r.prevHash = TailHash(RowsBefore(rows, r.id))
  BY DEF BrokenRows, BadLink
<1>2. r.hash = Append(r.prevHash, r.content)
  BY <1>1 DEF BrokenRows, BadHash, computeHash
<1>3. r.prevHash \in Seq(Contents) /\ r.content \in Contents
  BY DEF Rows, Hashes
<1> QED  BY <1>2, <1>3

\* ... and is the first one, or links to the row before it.
LEMMA RowFollows ==
    ASSUME NEW rows \in SUBSET Rows, BrokenRows(rows) = {}, NEW r \in rows
    PROVE  \/ r.prevHash = << >> /\ \A s \in rows : ~(s.id < r.id)
           \/ \E p \in rows : /\ p.id < r.id /\ r.prevHash = p.hash
                              /\ \A s \in rows : s.id < r.id => s.id <= p.id
<1> DEFINE before == RowsBefore(rows, r.id)
<1>1. r.prevHash = TailHash(before)
  BY DEF BrokenRows, BadLink
<1>2. before \in SUBSET Rows /\ r.id \in Nat /\ \A s \in before : s.id <= r.id
  BY DEF RowsBefore, Rows
<1>3. CASE before = {}
  BY <1>1, <1>3 DEF TailHash, GENESIS_HASH, RowsBefore
<1>4. CASE before # {}
  <2>1. Newest(before) \in before /\ \A s \in before : s.id <= Newest(before).id
    BY <1>2, <1>4, BoundedHasNewest, NewestIsMaximal
  <2> QED  BY <1>1, <1>4, <2>1 DEF TailHash, RowsBefore
<1> QED  BY <1>3, <1>4

\* The further up the chain, the longer the hash.
LEMMA HashesGrow ==
    ASSUME NEW rows \in SUBSET Rows, BrokenRows(rows) = {}, UniqueIds(rows),
           NEW r \in rows, NEW s \in rows, r.id < s.id
    PROVE  Len(r.hash) < Len(s.hash)
<1> DEFINE Bad == {t \in rows : \E u \in rows : u.id < t.id /\ ~(Len(u.hash) < Len(t.hash))}
<1>0. \A t \in rows : t.id \in Nat /\ Len(t.hash) \in Nat
  BY DEF Rows, Hashes
<1>1. SUFFICES ASSUME Bad # {} PROVE FALSE
  OBVIOUS
<1>2. PICK t \in rows : t \in Bad /\ \A v \in Bad : t.id <= v.id
  <2>1. Bad \in SUBSET Rows
    OBVIOUS
  <2> QED  BY <1>1, <2>1, LeastRow
<1>3. PICK u \in rows : u.id < t.id /\ ~(Len(u.hash) < Len(t.hash))
  BY <1>2
<1>4. PICK p \in rows : /\ p.id < t.id /\ u.id <= p.id
                        /\ Len(t.hash) = Len(p.hash) + 1
  <2>1. PICK p \in rows : /\ p.id < t.id /\ t.prevHash = p.hash
                          /\ \A v \in rows : v.id < t.id => v.id <= p.id
    BY <1>3, RowFollows
  <2>2. Len(t.hash) = Len(t.prevHash) + 1
    BY RowLinks
  <2> QED  BY <1>3, <2>1, <2>2
<1>5. p \notin Bad
  BY <1>0, <1>2, <1>4
<1>6. CASE u.id = p.id
  BY <1>0, <1>3, <1>4, <1>6 DEF UniqueIds
<1>7. CASE u.id < p.id
  BY <1>0, <1>3, <1>4, <1>5, <1>7
<1> QED  BY <1>0, <1>3, <1>4, <1>6, <1>7

\* What comes before an id of a sound chain is a sound chain.
LEMMA PrefixIsSound ==
    ASSUME NEW rows \in SUBSET Rows, BrokenRows(rows) = {}, NEW n \in Nat
    PROVE  BrokenRows(RowsBefore(rows, n)) = {}
<1> SUFFICES ASSUME NEW r \in RowsBefore(rows, n)
             PROVE  /\ ~BadLink(RowsBefore(rows, n), r)
                    /\ ~BadHash(RowsBefore(rows, n), r)
  BY DEF BrokenRows
<1>1. r \in rows /\ r.id < n
  BY DEF RowsBefore
<1>2. \A s \in rows : s.id \in Nat
  BY DEF Rows
<1>3. RowsBefore(RowsBefore(rows, n), r.id) = RowsBefore(rows, r.id)
  BY <1>1, <1>2 DEF RowsBefore
<1>4. ~BadLink(rows, r) /\ ~BadHash(rows, r)
  BY <1>1 DEF BrokenRows
<1> QED  BY <1>3, <1>4 DEF BadLink, BadHash

\* Every id of the one chain occurs in the other.
Covers(big, small) == \A r \in small : \E s \in big : s.id = r.id

\* A chain over fewer ids has no longer hash at any of them.
LEMMA CoveredIsShorter ==
    ASSUME NEW A \in SUBSET Rows, BrokenRows(A) = {}, UniqueIds(A),
           NEW B \in SUBSET Rows, BrokenRows(B) = {}, UniqueIds(B),
           Covers(B, A)
    PROVE  \A a \in A, b \in B : a.id = b.id => Len(a.hash) <= Len(b.hash)
<1> DEFINE Bad == {a \in A : \E b \in B : a.id = b.id /\ ~(Len(a.hash) <= Len(b.hash))}
<1>0. \A t \in A \cup B : t.id \in Nat /\ Len(t.hash) \in Nat /\ Len(t.prevHash) \in Nat
  BY DEF Rows, Hashes
<1>1. SUFFICES ASSUME Bad # {} PROVE FALSE
  OBVIOUS
<1>2. PICK a \in A : a \in Bad /\ \A v \in Bad : a.id <= v.id
  <2>1. Bad \in SUBSET Rows
    OBVIOUS
  <2> QED  BY <1>1, <2>1, LeastRow
<1>3. PICK b \in B : a.id = b.id /\ ~(Len(a.hash) <= Len(b.hash))
  BY <1>2
<1>4. Len(a.hash) = Len(a.prevHash) + 1 /\ Len(b.hash) = Len(b.prevHash) + 1
  BY <1>2, <1>3, RowLinks
<1>5. CASE a.prevHash = << >>
  BY <1>0, <1>3, <1>4, <1>5
<1>6. CASE \E p \in A : p.id < a.id /\ a.prevHash = p.hash
  <2>1. PICK p \in A : p.id < a.id /\ a.prevHash = p.hash
    BY <1>6
  <2>2. PICK q \in B : q.id = p.id
    BY <2>1 DEF Covers
  <2>3. Len(p.hash) <= Len(q.hash)
    BY <1>0, <1>2, <2>1, <2>2
  <2>4. Len(q.hash) < Len(b.hash)
    BY <1>3, <2>1, <2>2, HashesGrow
  <2> QED  BY <1>0, <1>2, <1>3, <1>4, <2>1, <2>2, <2>3, <2>4
<1> QED  BY <1>5, <1>6, RowFollows

\* A row is determined by its id and its hash, in whatever sound chain it is.
LEMMA RowIsItsHash ==
    ASSUME NEW A \in SUBSET Rows, BrokenRows(A) = {}, NEW a \in A,
           NEW B \in SUBSET Rows, BrokenRows(B) = {}, NEW b \in B,
           a.id = b.id, a.hash = b.hash
    PROVE  a = b
<1>1. a.hash = Append(a.prevHash, a.content) /\ b.hash = Append(b.prevHash, b.content)
  BY RowLinks
<1>2. /\ a.prevHash \in Seq(Contents) /\ b.prevHash \in Seq(Contents)
      /\ a.content \in Contents /\ b.content \in Contents
  BY DEF Rows, Hashes
<1>3. a.prevHash = b.prevHash /\ a.content = b.content
  <2> DEFINE sa == a.prevHash  ca == a.content  sb == b.prevHash  cb == b.content
  <2>1. sa \in Seq(Contents) /\ sb \in Seq(Contents) /\ ca \in Contents /\ cb \in Contents
    BY <1>2
  <2>2. Append(sa, ca) = Append(sb, cb)
    BY <1>1
  <2> HIDE DEF sa, sb, ca, cb
  <2>3. sa = sb /\ ca = cb
    BY <2>1, <2>2, AppendInjective
  <2> QED  BY <2>3 DEF sa, sb, ca, cb
<1> QED  BY <1>3 DEF Rows

\* Two sound chains that end in the same row id with the same hash are the same
\* table, when the ids of one are among those of the other: no edit of the rows
\* below a checkpoint leaves both the chain sound and the checkpoint matched.
LEMMA SameChain ==
    ASSUME NEW A \in SUBSET Rows, BrokenRows(A) = {}, UniqueIds(A),
           NEW B \in SUBSET Rows, BrokenRows(B) = {}, UniqueIds(B),
           Covers(B, A),
           NEW a \in A, NEW b \in B, a.id = b.id, a.hash = b.hash,
           \A s \in B : s.id <= b.id
    PROVE  A = B
<1> DEFINE D == {d \in B : d \notin A}
<1>0. \A t \in A \cup B : t.id \in Nat /\ Len(t.hash) \in Nat /\ Len(t.prevHash) \in Nat
  BY DEF Rows, Hashes
<1>1. b \in A
  BY RowIsItsHash
<1>2. B \subseteq A
  <2>1. SUFFICES ASSUME D # {} PROVE FALSE
    OBVIOUS
  <2>2. PICK d \in B : d \notin A /\ \A s \in D : s.id <= d.id
    <3>1. D \in SUBSET Rows /\ b.id \in Nat /\ \A s \in D : s.id <= b.id
      BY <1>0
    <3>2. HasNewest(D)
      BY <3>1, BoundedHasNewest
    <3> QED  BY <2>1, <3>2 DEF HasNewest
  <2> DEFINE U == {u \in B : d.id < u.id}
  <2>3. b \in U
    BY <1>0, <1>1, <2>2 DEF UniqueIds
  <2>4. PICK u \in B : d.id < u.id /\ \A v \in U : u.id <= v.id
    <3>1. U \in SUBSET Rows /\ U # {}
      BY <2>3
    <3> QED  BY <3>1, LeastRow
  <2>5. u \in A
    BY <1>0, <2>2, <2>4
  <2>6. u.prevHash = d.hash
    <3>2. PICK e \in B : /\ e.id < u.id /\ u.prevHash = e.hash
                         /\ \A s \in B : s.id < u.id => s.id <= e.id
      BY <2>4, RowFollows
    <3>3. d.id <= e.id /\ ~(d.id < e.id)
      BY <1>0, <2>2, <2>4, <3>2
    <3>4. e = d
      BY <1>0, <2>2, <3>2, <3>3 DEF UniqueIds
    <3> QED  BY <3>2, <3>4
  <2>7. Len(d.hash) = Len(d.prevHash) + 1
    BY <2>2, RowLinks
  <2>8. PICK p \in A : p.id < u.id /\ p.hash = d.hash
    <3>1. u.prevHash # << >>
      BY <1>0, <2>6, <2>7
    <3> QED  BY <2>5, <2>6, <3>1, RowFollows
  <2>9. PICK q \in B : q.id = p.id
    BY <2>8 DEF Covers
  <2>10. q.id <= d.id
    BY <1>0, <2>2, <2>4, <2>8, <2>9
  <2>11. Len(p.hash) <= Len(q.hash)
    BY <2>8, <2>9, CoveredIsShorter
  <2>12. ~(q.id < d.id)
    <3> SUFFICES ASSUME q.id < d.id PROVE FALSE
      OBVIOUS
    <3>1. Len(q.hash) < Len(d.hash)
      BY <2>2, HashesGrow
    <3> QED  BY <1>0, <2>2, <2>8, <2>9, <2>11, <3>1
  <2>13. p = d
    <3>1. p.id = d.id
      BY <1>0, <2>2, <2>9, <2>10, <2>12
    <3> QED  BY <2>2, <2>8, <3>1, RowIsItsHash
  <2> QED  BY <2>2, <2>8, <2>13
<1>3. A \subseteq B
  BY <1>2 DEF Covers, UniqueIds
<1> QED  BY <1>2, <1>3

-----------------------------------------------------------------------------
(* The invariant that survives every edit *)

\* The logs that runs of createAnchor have seen and still matter.
Views == {seen[a] : a \in Anchorers} \cup {w.rows : w \in witnessed}

\* A table some reader saw: ids are a primary key and were handed out before;
\* the rows that are there now below its newest row have ids it saw; and what a
\* writer is about to commit comes after all of it.
IsView(v) ==
    /\ v \subseteq Rows
    /\ UniqueIds(v)
    /\ \A r \in v : r.id > 0 /\ r.id <= lastId
    /\ \A r \in securityEvents, s \in v : r.id <= s.id => \E t \in v : t.id = r.id
    /\ \A w \in Writers : pc[w] = "inserted" => \A r \in v : r.id < rowId[w]

TablesAreViews == \A v \in Views \cup {securityEvents} : IsView(v)

PendingIds == \A w \in Writers : pc[w] = "inserted" => rowId[w] > 0 /\ rowId[w] <= lastId

\* Checkpoint c commits to the newest row of v.
HeadOf(v, c) ==
    \/ v = {} /\ c.eventId = 0
    \/ \E r \in v : /\ c.eventId = r.id /\ c.chainHash = r.hash
                    /\ \A s \in v : s.id <= r.id

DraftsAreHeads == \A a \in Anchorers : apc[a] # "idle" => HeadOf(seen[a], draft[a])

WitnessesAreSigned ==
    \A w \in witnessed :
        /\ HeadOf(w.rows, w.checkpoint)
        /\ \E x \in auditAnchors : x.signature = w.checkpoint

\* checkpoint_seq is 1, 2, ... and a run that is about to insert has one of
\* these numbers or the next.
Numbering ==
    /\ IsFiniteSet(auditAnchors)
    /\ \A x, y \in auditAnchors : x.content.checkpointSeq = y.content.checkpointSeq => x = y
    /\ {x.content.checkpointSeq : x \in auditAnchors} = 1 .. Cardinality(auditAnchors)
    /\ \A a \in Anchorers : apc[a] = "ready" =>
          draft[a].checkpointSeq \in 1 .. Cardinality(auditAnchors) + 1

AnchorInv ==
    /\ TypeOK
    /\ LockOwner
    /\ TablesAreViews
    /\ PendingIds
    /\ DraftsAreHeads
    /\ WitnessesAreSigned
    /\ Numbering

-----------------------------------------------------------------------------
(* The invariant before the first edit *)

\* The row a checkpoint names is there, with the hash it commits to.
Anchored(c) ==
    \/ c.eventId = 0 /\ c.chainHash = GENESIS_HASH
    \/ \E r \in securityEvents : r.id = c.eventId /\ r.hash = c.chainHash

AnchorsHold == \A x \in auditAnchors : x.signature = x.content /\ Anchored(x.content)

DraftsHold == \A a \in Anchorers : apc[a] # "idle" => Anchored(draft[a])

\* No checkpoint repeats the hash of the one before it, nor will the next.
NoRepeats ==
    /\ \A x, y \in auditAnchors :
          y.content.checkpointSeq = x.content.checkpointSeq + 1 =>
              x.content.chainHash # y.content.chainHash
    /\ \A a \in Anchorers, x \in auditAnchors :
          apc[a] = "ready" /\ draft[a].checkpointSeq = x.content.checkpointSeq + 1 =>
              x.content.chainHash # draft[a].chainHash

ShippedStored ==
    /\ shipped \subseteq {x.content : x \in auditAnchors}
    /\ \A a \in Anchorers : apc[a] = "stored" => \E x \in auditAnchors : x.content = draft[a]

PristineInv ==
    damage = 0 =>
        /\ IInv
        /\ AnchorsHold
        /\ DraftsHold
        /\ NoRepeats
        /\ ShippedStored

-----------------------------------------------------------------------------
(* Lemmas about views *)

\* The table of a state that satisfies the invariant has a newest row.
LEMMA TableHasNewest ==
    ASSUME AnchorInv
    PROVE  /\ securityEvents \in SUBSET Rows
           /\ HasNewest(securityEvents)
           /\ UniqueIds(securityEvents)
           /\ \A r \in securityEvents : r.id > 0 /\ r.id <= lastId
<1>1. IsView(securityEvents)
  BY DEF AnchorInv, TablesAreViews
<1>2. lastId \in Nat
  BY DEF AnchorInv, TypeOK, LogTypeOK
<1>3. /\ securityEvents \in SUBSET Rows /\ UniqueIds(securityEvents)
      /\ \A r \in securityEvents : r.id > 0 /\ r.id <= lastId
  BY <1>1 DEF IsView
<1> QED  BY <1>2, <1>3, BoundedHasNewest

\* A step that leaves the log alone, and after which nobody keeps a log that was
\* neither kept before nor is the present one, disturbs no view.
LEMMA ViewsFollow ==
    ASSUME TablesAreViews, UNCHANGED logVars,
           Views' \subseteq Views \cup {securityEvents, {}}
    PROVE  TablesAreViews'
<1>1. ASSUME NEW v, IsView(v) PROVE IsView(v)'
  BY <1>1 DEF IsView, logVars, UniqueIds
<1>2. IsView({})
  BY DEF IsView, UniqueIds
<1>3. \A v \in Views \cup {securityEvents, {}} : IsView(v)
  BY <1>2 DEF TablesAreViews
<1>4. \A v \in Views' \cup {securityEvents'} : v \in Views \cup {securityEvents, {}}
  BY DEF logVars
<1> QED  BY <1>1, <1>3, <1>4 DEF TablesAreViews

\* Nor does an edit that brings no id into the table that was not there.
LEMMA EditKeepsViews ==
    ASSUME TablesAreViews, UNCHANGED <<lastId, pc, rowId, seen, witnessed>>,
           securityEvents' \subseteq Rows, UniqueIds(securityEvents'),
           Covers(securityEvents, securityEvents')
    PROVE  TablesAreViews'
<1>1. Views' = Views
  BY DEF Views
<1>2. ASSUME NEW v \in Views PROVE IsView(v)'
  <2>1. IsView(v)
    BY DEF TablesAreViews
  <2>2. ASSUME NEW r \in securityEvents', NEW s \in v, r.id <= s.id
        PROVE  \E t \in v : t.id = r.id
    BY <2>1, <2>2 DEF IsView, Covers
  <2> QED  BY <2>1, <2>2 DEF IsView, UniqueIds
<1>3. IsView(securityEvents)'
  <2>1. IsView(securityEvents)
    BY DEF TablesAreViews
  <2>2. \A r \in securityEvents' : r.id > 0 /\ r.id <= lastId'
    BY <2>1 DEF IsView, Covers
  <2>3. \A w \in Writers : pc'[w] = "inserted" => \A r \in securityEvents' : r.id < rowId'[w]
    BY <2>1 DEF IsView, Covers
  <2>4. \A r \in securityEvents', s \in securityEvents' :
            r.id <= s.id => \E t \in securityEvents' : t.id = r.id
    OBVIOUS
  <2> QED  BY <2>2, <2>3, <2>4 DEF IsView, UniqueIds
<1> QED  BY <1>1, <1>2, <1>3 DEF TablesAreViews

-----------------------------------------------------------------------------
(* AnchorInv is inductive *)

LEMMA InitAnchorInv == Init => AnchorInv
<1> SUFFICES ASSUME Init PROVE AnchorInv
  OBVIOUS
<1> USE DEF Init, AnchorInit
<1>1. IInv
  BY InitIInv
<1>2. TypeOK
  <2>1. GENESIS_HEAD \in Checkpoints
    BY DEF GENESIS_HEAD, Checkpoints, GENESIS_HASH, Hashes
  <2> QED  BY <1>1, <2>1, AnchoringAssumption DEF IInv, TypeOK, AnchorPhases
<1>3. LockOwner
  BY <1>1 DEF IInv
<1>4. securityEvents = {} /\ \A w \in Writers : pc[w] = "idle"
  BY DEF LogInit
<1>5. TablesAreViews
  <2>1. \A v \in Views \cup {securityEvents} : v = {}
    BY <1>4 DEF Views
  <2> QED  BY <2>1 DEF TablesAreViews, IsView, UniqueIds
<1>6. PendingIds /\ DraftsAreHeads /\ WitnessesAreSigned
  BY <1>4 DEF PendingIds, DraftsAreHeads, WitnessesAreSigned
<1>7. Numbering
  <2>1. IsFiniteSet(auditAnchors) /\ Cardinality(auditAnchors) = 0
    BY FS_EmptySet
  <2> QED  BY <2>1 DEF Numbering
<1> QED  BY <1>2, <1>3, <1>5, <1>6, <1>7 DEF AnchorInv

\* A step of a writer.
LEMMA LogKeepsAnchorInv == AnchorInv /\ LogStep => AnchorInv'
<1> SUFFICES ASSUME AnchorInv, LogNext, UNCHANGED anchorVars PROVE AnchorInv'
  BY DEF LogStep
<1> USE NobodyAssumption, MaxAppendsAssumption
<1>0. /\ TypeOK /\ LogTypeOK /\ LockOwner /\ TablesAreViews /\ PendingIds
      /\ IsView(securityEvents)
  BY DEF AnchorInv, TypeOK, TablesAreViews
<1>1. DraftsAreHeads' /\ WitnessesAreSigned' /\ Numbering' /\ Views' = Views
  <2>1. UNCHANGED <<auditAnchors, apc, draft, seen, witnessed>>
    BY DEF anchorVars
  <2> QED  BY <2>1 DEF AnchorInv, DraftsAreHeads, WitnessesAreSigned, Numbering, Views
<1>2. SUFFICES LogTypeOK' /\ LockOwner' /\ TablesAreViews' /\ PendingIds'
  BY <1>0, <1>1 DEF AnchorInv, TypeOK, anchorVars
<1>3. ASSUME NEW w \in Writers,
             (\E c \in Contents : BeginAppend(w, c)) \/ AcquireLock(w) \/ ReadTail(w)
      PROVE  LogTypeOK' /\ LockOwner' /\ TablesAreViews' /\ PendingIds'
  <2>1. /\ UNCHANGED <<securityEvents, lastId, rowId>>
        /\ \A v \in Writers : pc'[v] = "inserted" => pc[v] = "inserted"
    BY <1>0, <1>3 DEF LogTypeOK, BeginAppend, AcquireLock, ReadTail, Step
  <2>2. LogTypeOK'
    <3>1. TailHash(securityEvents) \in Hashes
      BY TableHasNewest, TailIsHash
    <3> QED  BY <1>0, <1>3, <3>1 DEF LogTypeOK, Phases, BeginAppend, AcquireLock, ReadTail, Step
  <2>3. LockOwner'
    BY <1>0, <1>3 DEF LockOwner, Inside, LogTypeOK, BeginAppend, AcquireLock, ReadTail, Step
  <2>4. PendingIds'
    BY <1>0, <2>1 DEF PendingIds
  <2>5. ASSUME NEW v, IsView(v) PROVE IsView(v)'
    BY <2>1, <2>5 DEF IsView, UniqueIds
  <2> QED  BY <1>0, <1>1, <2>1, <2>2, <2>3, <2>4, <2>5 DEF TablesAreViews
<1>4. ASSUME NEW w \in Writers, InsertRow(w)
      PROVE  LogTypeOK' /\ LockOwner' /\ TablesAreViews' /\ PendingIds'
  <2> USE <1>4 DEF InsertRow, Step
  <2>1. LogTypeOK'
    BY <1>0 DEF LogTypeOK, Phases
  <2>2. LockOwner'
    BY <1>0 DEF LockOwner, Inside, LogTypeOK
  <2>3. \A v \in Writers : v # w => pc[v] # "inserted"
    BY <1>0 DEF LockOwner, Inside
  <2>4. PendingIds'
    BY <1>0, <2>3 DEF PendingIds, LogTypeOK
  <2>5. ASSUME NEW v, IsView(v) PROVE IsView(v)'
    <3>1. \A r \in v : r.id \in Nat /\ r.id > 0 /\ r.id <= lastId
      BY <2>5 DEF IsView, Rows
    <3>2. \A r \in v : r.id > 0 /\ r.id <= lastId'
      BY <1>0, <3>1 DEF LogTypeOK
    <3>3. \A u \in Writers : pc'[u] = "inserted" => \A r \in v : r.id < rowId'[u]
      BY <1>0, <2>3, <3>1 DEF LogTypeOK
    <3> QED  BY <2>5, <3>2, <3>3 DEF IsView, UniqueIds
  <2> QED  BY <1>0, <1>1, <2>1, <2>2, <2>4, <2>5 DEF TablesAreViews
<1>5. ASSUME NEW w \in Writers, CommitAppend(w)
      PROVE  LogTypeOK' /\ LockOwner' /\ TablesAreViews' /\ PendingIds'
  <2> DEFINE row == NewRow(w)
  <2>0. /\ pc[w] = "inserted" /\ pc' = [pc EXCEPT ![w] = "idle"]
        /\ securityEvents' = securityEvents \cup {row}
        /\ chainLock' = Nobody
        /\ prevHash' = [prevHash EXCEPT ![w] = GENESIS_HASH]
        /\ rowId' = [rowId EXCEPT ![w] = 0]
        /\ UNCHANGED <<lastId, input, begun>>
    BY <1>5 DEF CommitAppend, Step, Forget
  <2>1. row \in Rows /\ row.id = rowId[w]
    <3>1. prevHash[w] \in Hashes /\ input[w] \in Contents /\ rowId[w] \in Nat
      BY <1>0 DEF LogTypeOK
    <3>2. computeHash(prevHash[w], input[w]) \in Hashes
      BY <3>1 DEF computeHash, Hashes
    <3> QED  BY <3>1, <3>2 DEF NewRow, Rows
  <2>2. row.id > 0 /\ row.id <= lastId
    BY <1>0, <2>0, <2>1 DEF PendingIds
  <2>3. \A v \in Views \cup {securityEvents} : \A r \in v : r.id < row.id
    BY <1>0, <2>0, <2>1 DEF TablesAreViews, IsView
  <2> HIDE DEF row
  <2>4. LogTypeOK'
    BY <1>0, <2>0, <2>1 DEF LogTypeOK, Phases, Hashes, GENESIS_HASH
  <2>5. \A v \in Writers : pc'[v] \notin Inside
    BY <1>0, <2>0 DEF LockOwner, Inside, LogTypeOK
  <2>6. LockOwner' /\ PendingIds'
    BY <2>0, <2>5 DEF LockOwner, PendingIds, Inside
  <2>7. ASSUME NEW v \in Views PROVE IsView(v)'
    <3>1. IsView(v)
      BY <1>0 DEF TablesAreViews
    <3>2. \A r \in v : r.id \in Nat
      BY <3>1 DEF IsView, Rows
    <3>3. \A r \in securityEvents', s \in v : r.id <= s.id => \E t \in v : t.id = r.id
      <4> SUFFICES ASSUME NEW s \in v, row.id <= s.id PROVE FALSE
        BY <2>0, <3>1 DEF IsView
      <4>1. row.id \in Nat /\ s.id \in Nat /\ s.id < row.id
        BY <2>1, <2>3, <3>2 DEF Rows
      <4> QED  BY <4>1
    <3>4. \A u \in Writers : pc'[u] # "inserted"
      BY <2>5 DEF Inside
    <3> QED  BY <2>0, <3>1, <3>3, <3>4 DEF IsView, UniqueIds
  <2>8. IsView(securityEvents)'
    <3>1. \A r \in securityEvents : r \in Rows /\ r.id \in Nat /\ r.id < row.id /\ row.id \in Nat
      BY <1>0, <2>1, <2>3 DEF LogTypeOK, Rows
    <3>2. UniqueIds(securityEvents')
      BY <1>0, <2>0, <3>1 DEF UniqueIds, IsView
    <3>3. \A u \in Writers : pc'[u] # "inserted"
      BY <2>5 DEF Inside
    <3>4. \A r \in securityEvents' : r \in Rows /\ r.id > 0 /\ r.id <= lastId'
      BY <1>0, <2>0, <2>1, <2>2 DEF IsView
    <3> QED  BY <3>2, <3>3, <3>4 DEF IsView, UniqueIds
  <2> QED  BY <1>1, <2>4, <2>6, <2>7, <2>8 DEF TablesAreViews
<1>6. ASSUME NEW w \in Writers, AbortAppend(w)
      PROVE  LogTypeOK' /\ LockOwner' /\ TablesAreViews' /\ PendingIds'
  <2> USE <1>6 DEF AbortAppend, Forget
  <2>1. LogTypeOK'
    BY <1>0 DEF LogTypeOK, Phases, Hashes, GENESIS_HASH
  <2>2. LockOwner'
    BY <1>0 DEF LockOwner, Inside, LogTypeOK
  <2>3. PendingIds'
    BY <1>0 DEF PendingIds, LogTypeOK
  <2>4. ASSUME NEW v, IsView(v) PROVE IsView(v)'
    BY <1>0, <2>4 DEF IsView, UniqueIds, LogTypeOK
  <2> QED  BY <1>0, <1>1, <2>1, <2>2, <2>3, <2>4 DEF TablesAreViews
<1> QED  BY <1>3, <1>4, <1>5, <1>6 DEF LogNext, Progress

\* The last anchor bears the greatest number, and NextSeq follows it.
LEMMA LastIsGreatest ==
    ASSUME Numbering, auditAnchors \subseteq Anchors
    PROVE  /\ Cardinality(auditAnchors) \in Nat
           /\ NextSeq = Cardinality(auditAnchors) + 1
           /\ auditAnchors # {} =>
                 /\ LastAnchor \in auditAnchors
                 /\ LastAnchor.content.checkpointSeq = Cardinality(auditAnchors)
<1> DEFINE n == Cardinality(auditAnchors)
<1>1. n \in Nat /\ (n = 0 <=> auditAnchors = {})
  BY FS_CardinalityType, FS_EmptySet DEF Numbering
<1>2. \A x \in auditAnchors : x.content.checkpointSeq \in Nat
  BY DEF Anchors, Checkpoints
<1>3. {x.content.checkpointSeq : x \in auditAnchors} = 1 .. n
  BY DEF Numbering
<1> HIDE DEF n
<1>4. CASE auditAnchors = {}
  BY <1>1, <1>4 DEF NextSeq, n
<1>5. CASE auditAnchors # {}
  <2>1. n \in 1 .. n
    BY <1>1, <1>5
  <2>2. PICK x \in auditAnchors : x.content.checkpointSeq = n
    BY <1>3, <2>1
  <2>3. \A y \in auditAnchors : y.content.checkpointSeq <= n
    BY <1>3
  <2>4. /\ LastAnchor \in auditAnchors
        /\ \A y \in auditAnchors : y.content.checkpointSeq <= LastAnchor.content.checkpointSeq
    BY <2>2, <2>3 DEF LastAnchor
  <2>5. LastAnchor.content.checkpointSeq = n
    BY <1>1, <1>2, <2>2, <2>3, <2>4
  <2> QED  BY <1>1, <1>5, <2>4, <2>5 DEF NextSeq, n
<1> QED  BY <1>4, <1>5

\* The number a run found is free or was taken meanwhile; when it is free, it
\* is the next.
LEMMA FreeNumberIsNext ==
    ASSUME Numbering, auditAnchors \subseteq Anchors,
           NEW a \in Anchorers, apc[a] = "ready",
           ~\E x \in auditAnchors : x.content.checkpointSeq = draft[a].checkpointSeq
    PROVE  draft[a].checkpointSeq = Cardinality(auditAnchors) + 1
<1> DEFINE n == Cardinality(auditAnchors)
           k == draft[a].checkpointSeq
<1>1. n \in Nat
  BY LastIsGreatest
<1>2. k \in 1 .. n + 1 /\ {x.content.checkpointSeq : x \in auditAnchors} = 1 .. n
  BY DEF Numbering
<1>3. k \notin 1 .. n
  BY <1>2
<1> HIDE DEF n, k
<1>4. k = n + 1
  BY <1>1, <1>2, <1>3
<1> QED  BY <1>4 DEF n, k

\* A step of createAnchor.
LEMMA AnchorKeepsAnchorInv == AnchorInv /\ AnchorStep => AnchorInv'
<1> SUFFICES ASSUME AnchorInv, NEW a \in Anchorers, createAnchor(a), UNCHANGED logVars
             PROVE  AnchorInv'
  BY DEF AnchorStep
<1> USE AnchoringAssumption
<1>0. /\ TypeOK /\ LogTypeOK /\ LockOwner /\ TablesAreViews /\ PendingIds
      /\ DraftsAreHeads /\ WitnessesAreSigned /\ Numbering
      /\ auditAnchors \subseteq Anchors /\ shipped \subseteq Checkpoints
      /\ apc \in [Anchorers -> AnchorPhases] /\ draft \in [Anchorers -> Checkpoints]
      /\ anchorRuns \in 0 .. MaxAnchorRuns /\ damage \in 0 .. MaxDamage
      /\ seen \in [Anchorers -> SUBSET Rows]
      /\ witnessed \subseteq [checkpoint : Checkpoints, rows : SUBSET Rows]
  BY DEF AnchorInv, TypeOK
<1>1. LogTypeOK' /\ LockOwner' /\ PendingIds'
  BY <1>0 DEF logVars, LogTypeOK, LockOwner, PendingIds
<1>2. GENESIS_HEAD \in Checkpoints
  BY DEF GENESIS_HEAD, Checkpoints, GENESIS_HASH, Hashes
<1>3. ASSUME ReadHead(a) PROVE AnchorInv'
  <2> USE <1>3 DEF ReadHead, Goto
  <2>1. securityEvents # {} =>
            /\ Newest(securityEvents) \in securityEvents
            /\ Newest(securityEvents) \in Rows
            /\ \A s \in securityEvents : s.id <= Newest(securityEvents).id
    BY TableHasNewest, NewestIsMaximal
  <2>2. TypeOK'
    <3>1. anchorRuns' \in 0 .. MaxAnchorRuns
      BY <1>0
    <3>2. apc' \in [Anchorers -> AnchorPhases]
      BY <1>0 DEF AnchorPhases
    <3>3. draft' \in [Anchorers -> Checkpoints]
      BY <1>0, <1>2, <2>1 DEF Checkpoints, Rows
    <3>4. seen' \in [Anchorers -> SUBSET Rows]
      BY <1>0 DEF LogTypeOK
    <3> QED  BY <1>0, <1>1, <3>1, <3>2, <3>3, <3>4 DEF TypeOK
  <2>3. TablesAreViews'
    BY <1>0, ViewsFollow DEF Views
  <2>4. DraftsAreHeads'
    <3>1. HeadOf(seen'[a], draft'[a])
      BY <1>0, <2>1 DEF HeadOf, GENESIS_HEAD, Checkpoints
    <3> QED  BY <1>0, <3>1 DEF DraftsAreHeads
  <2>5. WitnessesAreSigned' /\ Numbering'
    BY <1>0 DEF WitnessesAreSigned, Numbering
  <2> QED  BY <1>1, <2>2, <2>3, <2>4, <2>5 DEF AnchorInv
<1>4. ASSUME ReadCount(a) PROVE AnchorInv'
  <2> USE <1>4 DEF ReadCount, Goto
  <2>1. TypeOK'
    <3>1. Cardinality(securityEvents) \in Nat
      <4>1. lastId \in Nat
        BY <1>0 DEF LogTypeOK
      <4> QED  BY <4>1, TableHasNewest, TableIsFinite, FS_CardinalityType
    <3> QED  BY <1>0, <1>1, <3>1 DEF TypeOK, AnchorPhases, Checkpoints
  <2>2. TablesAreViews'
    BY <1>0, ViewsFollow DEF Views
  <2>3. DraftsAreHeads'
    BY <1>0 DEF DraftsAreHeads, HeadOf, Checkpoints
  <2>4. WitnessesAreSigned' /\ Numbering'
    BY <1>0 DEF WitnessesAreSigned, Numbering
  <2> QED  BY <1>1, <2>1, <2>2, <2>3, <2>4 DEF AnchorInv
<1>5. ASSUME ReadLastAnchor(a) PROVE AnchorInv'
  <2> USE <1>5 DEF ReadLastAnchor, Goto, Finish
  <2>1. Cardinality(auditAnchors) \in Nat /\ NextSeq = Cardinality(auditAnchors) + 1
    BY <1>0, LastIsGreatest
  <2>2. TypeOK'
    <3>1. NextSeq \in Nat
      BY <2>1
    <3>2. [draft[a] EXCEPT !.checkpointSeq = NextSeq] \in Checkpoints
      BY <1>0, <3>1 DEF Checkpoints
    <3>3. draft' \in [Anchorers -> Checkpoints]
      BY <1>0, <1>2, <3>2
    <3>4. apc' \in [Anchorers -> AnchorPhases] /\ seen' \in [Anchorers -> SUBSET Rows]
      BY <1>0 DEF AnchorPhases
    <3> QED  BY <1>0, <1>1, <3>3, <3>4 DEF TypeOK
  <2>3. TablesAreViews'
    BY <1>0, ViewsFollow DEF Views
  <2>4. DraftsAreHeads'
    BY <1>0 DEF DraftsAreHeads, HeadOf, Checkpoints
  <2>5. WitnessesAreSigned'
    BY <1>0 DEF WitnessesAreSigned
  <2>6. Numbering'
    BY <1>0, <2>1 DEF Numbering, Checkpoints
  <2> QED  BY <1>1, <2>2, <2>3, <2>4, <2>5, <2>6 DEF AnchorInv
<1>6. ASSUME StoreAnchor(a) PROVE AnchorInv'
  <2> USE <1>6 DEF StoreAnchor, Goto, Finish, Keep
  <2> DEFINE new == [content |-> draft[a], signature |-> draft[a]]
             w0 == [checkpoint |-> draft[a], rows |-> seen[a]]
             n == Cardinality(auditAnchors)
  <2>1. /\ apc[a] = "ready" /\ draft[a] \in Checkpoints
        /\ seen[a] \in SUBSET Rows /\ HeadOf(seen[a], draft[a])
    BY <1>0 DEF DraftsAreHeads
  <2>2. \/ UNCHANGED <<auditAnchors, witnessed>>
        \/ /\ auditAnchors' = auditAnchors \cup {new}
           /\ witnessed' = witnessed \cup {w0}
           /\ ~\E x \in auditAnchors : x.content.checkpointSeq = draft[a].checkpointSeq
    OBVIOUS
  <2>3. /\ \A b \in Anchorers : apc'[b] # "idle" =>
               apc[b] # "idle" /\ draft'[b] = draft[b] /\ seen'[b] = seen[b]
        /\ \A b \in Anchorers : apc'[b] = "ready" => apc[b] = "ready"
        /\ \A b \in Anchorers : seen'[b] = seen[b] \/ seen'[b] = {}
    BY <1>0
  <2>4. TypeOK'
    <3>1. new \in Anchors /\ w0 \in [checkpoint : Checkpoints, rows : SUBSET Rows]
      BY <2>1 DEF Anchors
    <3>2. /\ auditAnchors' \subseteq Anchors
          /\ witnessed' \subseteq [checkpoint : Checkpoints, rows : SUBSET Rows]
      BY <1>0, <2>2, <3>1
    <3>3. /\ apc' \in [Anchorers -> AnchorPhases] /\ draft' \in [Anchorers -> Checkpoints]
          /\ seen' \in [Anchorers -> SUBSET Rows]
      BY <1>0, <1>2 DEF AnchorPhases
    <3> QED  BY <1>0, <1>1, <3>2, <3>3 DEF TypeOK
  <2>5. TablesAreViews'
    <3>1. \A w \in witnessed' : w.rows \in Views
      BY <2>2 DEF Views
    <3>2. \A b \in Anchorers : seen'[b] \in Views \cup {{}}
      BY <2>3 DEF Views
    <3>3. Views' \subseteq Views \cup {securityEvents, {}}
      BY <3>1, <3>2 DEF Views
    <3> QED  BY <1>0, <3>3, ViewsFollow
  <2>6. DraftsAreHeads'
    BY <1>0, <2>3 DEF DraftsAreHeads
  <2>7. WitnessesAreSigned'
    <3>1. new.signature = draft[a] /\ w0.rows = seen[a] /\ w0.checkpoint = draft[a]
      OBVIOUS
    <3> HIDE DEF new, w0
    <3>2. \A w \in witnessed' : HeadOf(w.rows, w.checkpoint)
      BY <1>0, <2>1, <2>2, <3>1 DEF WitnessesAreSigned
    <3>3. \A w \in witnessed' : \E x \in auditAnchors' : x.signature = w.checkpoint
      BY <1>0, <2>2, <3>1 DEF WitnessesAreSigned
    <3> QED  BY <3>2, <3>3 DEF WitnessesAreSigned, HeadOf
  <2>8. Numbering'
    <3>1. CASE UNCHANGED auditAnchors
      BY <1>0, <2>3, <3>1 DEF Numbering
    <3>2. CASE /\ auditAnchors' = auditAnchors \cup {new}
               /\ ~\E x \in auditAnchors : x.content.checkpointSeq = draft[a].checkpointSeq
      <4>1. n \in Nat /\ draft[a].checkpointSeq = n + 1
        BY <1>0, <2>1, <3>2, LastIsGreatest, FreeNumberIsNext
      <4>2. IsFiniteSet(auditAnchors') /\ Cardinality(auditAnchors') = n + 1
        <5>1. new \notin auditAnchors /\ IsFiniteSet(auditAnchors)
          BY <1>0, <3>2 DEF Numbering
        <5> HIDE DEF new
        <5> QED  BY <3>2, <5>1, FS_AddElement
      <4>3. {x.content.checkpointSeq : x \in auditAnchors'} = 1 .. n + 1
        <5>1. {x.content.checkpointSeq : x \in auditAnchors} = 1 .. n
          BY <1>0 DEF Numbering
        <5>2. {x.content.checkpointSeq : x \in auditAnchors'} =
                  {x.content.checkpointSeq : x \in auditAnchors} \cup {n + 1}
          <6>1. new.content.checkpointSeq = n + 1
            BY <4>1
          <6> HIDE DEF new, n
          <6> QED  BY <3>2, <6>1
        <5> HIDE DEF n
        <5> QED  BY <4>1, <5>1, <5>2
      <4>4. \A x, y \in auditAnchors' : x.content.checkpointSeq = y.content.checkpointSeq => x = y
        BY <1>0, <3>2 DEF Numbering
      <4>5. ASSUME NEW b \in Anchorers, apc'[b] = "ready"
            PROVE  draft'[b].checkpointSeq \in 1 .. (n + 1) + 1
        <5>1. draft'[b].checkpointSeq \in 1 .. n + 1
          BY <1>0, <2>3, <4>5 DEF Numbering
        <5> HIDE DEF n
        <5> QED  BY <4>1, <5>1
      <4> QED  BY <4>2, <4>3, <4>4, <4>5 DEF Numbering
    <3> QED  BY <2>2, <3>1, <3>2
  <2> QED  BY <1>1, <2>4, <2>5, <2>6, <2>7, <2>8 DEF AnchorInv
<1>7. ASSUME ShipAnchor(a) \/ AnchorFails(a) PROVE AnchorInv'
  <2> USE <1>7 DEF ShipAnchor, AnchorFails, Goto, Finish
  <2>1. /\ \A b \in Anchorers : apc'[b] # "idle" =>
               apc'[b] = apc[b] /\ draft'[b] = draft[b] /\ seen'[b] = seen[b]
        /\ \A b \in Anchorers : seen'[b] = seen[b] \/ seen'[b] = {}
        /\ UNCHANGED <<auditAnchors, witnessed>>
    BY <1>0
  <2>2. TypeOK'
    BY <1>0, <1>1, <1>2 DEF TypeOK, AnchorPhases
  <2>3. TablesAreViews'
    <3>1. Views' \subseteq Views \cup {securityEvents, {}}
      BY <2>1 DEF Views
    <3> QED  BY <1>0, <3>1, ViewsFollow
  <2>4. DraftsAreHeads' /\ WitnessesAreSigned' /\ Numbering'
    BY <1>0, <2>1 DEF DraftsAreHeads, WitnessesAreSigned, Numbering
  <2> QED  BY <1>1, <2>2, <2>3, <2>4 DEF AnchorInv
<1> QED  BY <1>3, <1>4, <1>5, <1>6, <1>7 DEF createAnchor

\* A privileged edit of a row.
LEMMA RowEditIsTable ==
    ASSUME LogTypeOK, UniqueIds(securityEvents), NEW r \in securityEvents, NEW c \in Contents,
           MutateRow(r, c) \/ RewriteFrom(r, c) \/ DeleteRow(r)
    PROVE  /\ securityEvents' \subseteq Rows
           /\ UniqueIds(securityEvents')
           /\ Covers(securityEvents, securityEvents')
<1>0. securityEvents \subseteq Rows /\ r \in Rows
  BY DEF LogTypeOK
<1>1. CASE MutateRow(r, c)
  <2> DEFINE changed == [r EXCEPT !.content = c]
  <2>1. changed \in Rows /\ changed.id = r.id
    BY <1>0 DEF Rows
  <2>2. securityEvents' = (securityEvents \ {r}) \cup {changed}
    BY <1>1 DEF MutateRow
  <2> HIDE DEF changed
  <2> QED  BY <1>0, <2>1, <2>2 DEF UniqueIds, Covers
<1>2. CASE RewriteFrom(r, c)
  <2> DEFINE n == Len(r.hash)
             edited(h) == IF Len(h) < n THEN h ELSE [h EXCEPT ![n] = c]
             image(s) == [s EXCEPT !.content = IF s.id = r.id THEN c ELSE s.content,
                                   !.prevHash = edited(s.prevHash),
                                   !.hash = edited(s.hash)]
  <2>1. \A h \in Hashes : edited(h) \in Hashes
    <3> SUFFICES ASSUME NEW h \in Hashes, ~(Len(h) < n)
                 PROVE  [h EXCEPT ![n] = c] \in Hashes
      OBVIOUS
    <3>1. n \in Nat /\ Len(h) \in Nat /\ DOMAIN h = 1 .. Len(h) /\ h \in Seq(Contents)
      BY <1>0 DEF Rows, Hashes
    <3>2. h \in [1 .. Len(h) -> Contents]
      BY <3>1
    <3>3. [h EXCEPT ![n] = c] \in [1 .. Len(h) -> Contents]
      BY <3>1, <3>2
    <3> QED  BY <3>1, <3>3, SeqDef DEF Hashes
  <2>2. \A s \in Rows : image(s) \in Rows /\ image(s).id = s.id
    <3> HIDE DEF edited
    <3> QED  BY <2>1 DEF Rows
  <2>3. securityEvents' = {image(s) : s \in securityEvents}
    BY <1>2 DEF RewriteFrom
  <2> HIDE DEF image
  <2> QED  BY <1>0, <2>2, <2>3 DEF UniqueIds, Covers
<1>3. CASE DeleteRow(r)
  BY <1>0, <1>3 DEF DeleteRow, UniqueIds, Covers
<1> QED  BY <1>1, <1>2, <1>3

\* A privileged edit of a checkpoint.
LEMMA AnchorEditIsTable ==
    ASSUME Numbering, auditAnchors \subseteq Anchors,
           NEW x \in auditAnchors, NEW h \in Hashes, EditAnchor(x, h)
    PROVE  /\ auditAnchors' \subseteq Anchors
           /\ \A y \in auditAnchors : \E z \in auditAnchors' : z.signature = y.signature
           /\ IsFiniteSet(auditAnchors')
           /\ Cardinality(auditAnchors') = Cardinality(auditAnchors)
           /\ {y.content.checkpointSeq : y \in auditAnchors'} =
                  {y.content.checkpointSeq : y \in auditAnchors}
           /\ \A y, z \in auditAnchors' :
                  y.content.checkpointSeq = z.content.checkpointSeq => y = z
<1> DEFINE edited == [x EXCEPT !.content.chainHash = h]
           rest == auditAnchors \ {x}
<1>1. /\ edited \in Anchors /\ edited.signature = x.signature
      /\ edited.content.checkpointSeq = x.content.checkpointSeq
  BY DEF Anchors, Checkpoints
<1>2. auditAnchors' = rest \cup {edited}
  BY DEF EditAnchor
<1>3. \A y, z \in auditAnchors : y.content.checkpointSeq = z.content.checkpointSeq => y = z
  BY DEF Numbering
<1> HIDE DEF edited
<1>4. edited \notin rest
  BY <1>1, <1>3
<1>5. IsFiniteSet(auditAnchors') /\ Cardinality(auditAnchors') = Cardinality(auditAnchors)
  <2>1. IsFiniteSet(auditAnchors) /\ Cardinality(auditAnchors) \in Nat
    BY FS_CardinalityType DEF Numbering
  <2>2. IsFiniteSet(rest) /\ Cardinality(rest) = Cardinality(auditAnchors) - 1
    BY <2>1, FS_RemoveElement
  <2> HIDE DEF rest
  <2>3. IsFiniteSet(rest \cup {edited}) /\ Cardinality(rest \cup {edited}) = Cardinality(rest) + 1
    BY <1>4, <2>2, FS_AddElement
  <2> QED  BY <1>2, <2>1, <2>2, <2>3
<1> QED  BY <1>1, <1>2, <1>3, <1>5

LEMMA DamageKeepsAnchorInv == AnchorInv /\ Damage => AnchorInv'
<1> SUFFICES ASSUME AnchorInv, Damage PROVE AnchorInv'
  OBVIOUS
<1> USE AnchoringAssumption
<1>0. /\ TypeOK /\ LogTypeOK /\ LockOwner /\ TablesAreViews /\ PendingIds
      /\ DraftsAreHeads /\ WitnessesAreSigned /\ Numbering
      /\ auditAnchors \subseteq Anchors
  BY DEF AnchorInv, TypeOK
<1>1. /\ damage' \in 0 .. MaxDamage
      /\ UNCHANGED <<lastId, chainLock, pc, input, prevHash, rowId, begun,
                     shipped, apc, draft, anchorRuns, seen, witnessed>>
  BY <1>0 DEF Damage, TypeOK
<1>2. LockOwner' /\ PendingIds' /\ DraftsAreHeads'
  BY <1>0, <1>1 DEF LockOwner, PendingIds, DraftsAreHeads
<1>3. ASSUME NEW r \in securityEvents, NEW c \in Contents,
             MutateRow(r, c) \/ RewriteFrom(r, c) \/ DeleteRow(r), UNCHANGED auditAnchors
      PROVE  AnchorInv'
  <2>1. /\ securityEvents' \subseteq Rows /\ UniqueIds(securityEvents')
        /\ Covers(securityEvents, securityEvents')
    BY <1>0, <1>3, TableHasNewest, RowEditIsTable
  <2>2. TypeOK'
    BY <1>0, <1>1, <1>3, <2>1 DEF TypeOK, LogTypeOK
  <2>3. TablesAreViews'
    BY <1>0, <1>1, <2>1, EditKeepsViews
  <2>4. WitnessesAreSigned' /\ Numbering'
    BY <1>0, <1>1, <1>3 DEF WitnessesAreSigned, Numbering
  <2> QED  BY <1>2, <2>2, <2>3, <2>4 DEF AnchorInv
<1>4. ASSUME NEW x \in auditAnchors, NEW r \in securityEvents, EditAnchor(x, r.hash),
             UNCHANGED securityEvents
      PROVE  AnchorInv'
  <2>1. r.hash \in Hashes
    BY <1>0 DEF LogTypeOK, Rows
  <2> DEFINE h == r.hash
  <2>2. EditAnchor(x, h) /\ h \in Hashes
    BY <1>4, <2>1
  <2> HIDE DEF h
  <2>3. /\ auditAnchors' \subseteq Anchors
        /\ \A y \in auditAnchors : \E z \in auditAnchors' : z.signature = y.signature
        /\ IsFiniteSet(auditAnchors')
        /\ Cardinality(auditAnchors') = Cardinality(auditAnchors)
        /\ {y.content.checkpointSeq : y \in auditAnchors'} =
               {y.content.checkpointSeq : y \in auditAnchors}
        /\ \A y, z \in auditAnchors' : y.content.checkpointSeq = z.content.checkpointSeq => y = z
    BY <1>0, <2>2, AnchorEditIsTable
  <2>4. TypeOK'
    BY <1>0, <1>1, <1>4, <2>3 DEF TypeOK, LogTypeOK
  <2>5. TablesAreViews'
    <3>1. UniqueIds(securityEvents') /\ Covers(securityEvents, securityEvents')
      BY <1>4, TableHasNewest DEF UniqueIds, Covers
    <3>2. securityEvents' \subseteq Rows
      BY <1>0, <1>4 DEF LogTypeOK
    <3> QED  BY <1>0, <1>1, <3>1, <3>2, EditKeepsViews
  <2>6. WitnessesAreSigned'
    BY <1>0, <1>1, <2>3 DEF WitnessesAreSigned
  <2>7. Numbering'
    BY <1>0, <1>1, <2>3 DEF Numbering
  <2> QED  BY <1>2, <2>4, <2>5, <2>6, <2>7 DEF AnchorInv
<1>5. \/ \E r \in securityEvents :
            /\ (\E c \in Contents : MutateRow(r, c) \/ RewriteFrom(r, c)) \/ DeleteRow(r)
            /\ UNCHANGED auditAnchors
      \/ \E x \in auditAnchors, r \in securityEvents :
            EditAnchor(x, r.hash) /\ UNCHANGED securityEvents
  BY DEF Damage
<1>6. \E c : c \in Contents
  BY ContentsAssumption
<1> QED  BY <1>3, <1>4, <1>5, <1>6

LEMMA NextAnchorInv == AnchorInv /\ [Next]_vars => AnchorInv'
<1> SUFFICES ASSUME AnchorInv, UNCHANGED vars PROVE AnchorInv'
  BY LogKeepsAnchorInv, AnchorKeepsAnchorInv, DamageKeepsAnchorInv DEF Next
<1>0. UNCHANGED logVars /\ UNCHANGED anchorVars
  BY DEF vars
<1>1. TypeOK' /\ LockOwner' /\ PendingIds'
  BY <1>0 DEF AnchorInv, TypeOK, LogTypeOK, LockOwner, PendingIds, logVars, anchorVars
<1>2. DraftsAreHeads' /\ WitnessesAreSigned' /\ Numbering' /\ Views' = Views
  BY <1>0 DEF AnchorInv, DraftsAreHeads, WitnessesAreSigned, Numbering, Views, anchorVars
<1>3. TablesAreViews'
  BY <1>0, <1>2, ViewsFollow DEF AnchorInv
<1> QED  BY <1>1, <1>2, <1>3 DEF AnchorInv

-----------------------------------------------------------------------------
(* PristineInv is inductive *)

\* In a sound chain a hash, the empty one included, belongs to one id.
LEMMA HashNamesId ==
    ASSUME IInv, NEW c, NEW d, Anchored(c), Anchored(d), c.chainHash = d.chainHash
    PROVE  c.eventId = d.eventId
<1>0. /\ securityEvents \in SUBSET Rows /\ BrokenRows(securityEvents) = {}
      /\ UniqueIds(securityEvents)
  BY DEF IInv, LogTypeOK
<1>1. ASSUME NEW r \in securityEvents PROVE r.hash # GENESIS_HASH
  <2>1. Len(r.hash) = Len(r.prevHash) + 1
    BY <1>0, RowLinks
  <2>2. Len(r.prevHash) \in Nat
    BY <1>0 DEF Rows, Hashes
  <2> QED  BY <2>1, <2>2 DEF GENESIS_HASH
<1>2. ASSUME NEW r \in securityEvents, NEW s \in securityEvents, r.hash = s.hash
      PROVE  r.id = s.id
  <2>1. ~(r.id < s.id) /\ ~(s.id < r.id)
    <3>1. r.id < s.id => Len(r.hash) < Len(s.hash)
      BY <1>0, HashesGrow
    <3>2. s.id < r.id => Len(s.hash) < Len(r.hash)
      BY <1>0, HashesGrow
    <3>3. Len(r.hash) \in Nat
      BY <1>0 DEF Rows, Hashes
    <3> QED  BY <1>2, <3>1, <3>2, <3>3
  <2> QED  BY <1>0, <2>1 DEF Rows
<1> QED  BY <1>1, <1>2 DEF Anchored

\* The table of an undamaged log only grows.
LEMMA LogGrows == LogNext => securityEvents \subseteq securityEvents'
BY DEF LogNext, Progress, BeginAppend, AcquireLock, ReadTail, InsertRow, CommitAppend, AbortAppend

LEMMA InitPristineInv == Init => PristineInv
<1> SUFFICES ASSUME Init PROVE PristineInv
  OBVIOUS
<1>1. IInv
  BY InitIInv DEF Init
<1>2. auditAnchors = {} /\ shipped = {} /\ \A a \in Anchorers : apc[a] = "idle"
  BY DEF Init, AnchorInit
<1> QED  BY <1>1, <1>2 DEF PristineInv, AnchorsHold, DraftsHold, NoRepeats, ShippedStored

LEMMA LogKeepsPristineInv ==
    ASSUME PristineInv, LogStep
    PROVE  PristineInv'
<1> SUFFICES ASSUME damage = 0 PROVE IInv' /\ AnchorsHold' /\ DraftsHold' /\ NoRepeats' /\ ShippedStored'
  BY DEF PristineInv, LogStep, anchorVars
<1>0. IInv /\ AnchorsHold /\ DraftsHold /\ NoRepeats /\ ShippedStored
  BY DEF PristineInv
<1>1. IInv'
  BY <1>0, NextIInv DEF LogStep
<1>2. UNCHANGED <<auditAnchors, shipped, apc, draft>>
  BY DEF LogStep, anchorVars
<1>3. \A c : Anchored(c) => Anchored(c)'
  BY LogGrows DEF LogStep, Anchored
<1>4. AnchorsHold' /\ DraftsHold'
  BY <1>0, <1>2, <1>3 DEF AnchorsHold, DraftsHold
<1>5. NoRepeats' /\ ShippedStored'
  BY <1>0, <1>2 DEF NoRepeats, ShippedStored
<1> QED  BY <1>1, <1>4, <1>5

LEMMA AnchorKeepsPristineInv ==
    ASSUME AnchorInv, PristineInv, AnchorStep
    PROVE  PristineInv'
<1>a. PICK a \in Anchorers : createAnchor(a) /\ UNCHANGED logVars
  BY DEF AnchorStep
<1>b. damage' = damage
  BY <1>a DEF createAnchor, ReadHead, ReadCount, ReadLastAnchor, StoreAnchor, ShipAnchor,
              AnchorFails
<1> SUFFICES ASSUME damage = 0 PROVE IInv' /\ AnchorsHold' /\ DraftsHold' /\ NoRepeats' /\ ShippedStored'
  BY <1>b DEF PristineInv
<1>0. /\ IInv /\ AnchorsHold /\ DraftsHold /\ NoRepeats /\ ShippedStored
      /\ Numbering /\ auditAnchors \subseteq Anchors
      /\ apc \in [Anchorers -> AnchorPhases] /\ draft \in [Anchorers -> Checkpoints]
  BY DEF PristineInv, AnchorInv, TypeOK
<1>1. IInv'
  BY <1>0, <1>a, NextIInv
<1>2. \A c : Anchored(c)' <=> Anchored(c)
  BY <1>a DEF Anchored, logVars
<1>3. ASSUME ReadHead(a) PROVE AnchorsHold' /\ DraftsHold' /\ NoRepeats' /\ ShippedStored'
  <2> USE <1>3 DEF ReadHead, Goto
  <2>1. securityEvents # {} => Newest(securityEvents) \in securityEvents
    BY TableHasNewest, NewestIsMaximal
  <2>2. Anchored(draft'[a])
    BY <1>0, <2>1 DEF Anchored, GENESIS_HEAD, Checkpoints
  <2>3. AnchorsHold' /\ DraftsHold'
    BY <1>0, <1>2, <2>2 DEF AnchorsHold, DraftsHold
  <2>4. NoRepeats' /\ ShippedStored'
    BY <1>0 DEF NoRepeats, ShippedStored
  <2> QED  BY <2>3, <2>4
<1>4. ASSUME ReadCount(a) PROVE AnchorsHold' /\ DraftsHold' /\ NoRepeats' /\ ShippedStored'
  <2> USE <1>4 DEF ReadCount, Goto
  <2>1. draft'[a].eventId = draft[a].eventId /\ draft'[a].chainHash = draft[a].chainHash
    BY <1>0 DEF Checkpoints
  <2>2. Anchored(draft'[a])
    BY <1>0, <2>1 DEF DraftsHold, Anchored
  <2>3. AnchorsHold' /\ DraftsHold'
    BY <1>0, <1>2, <2>2 DEF AnchorsHold, DraftsHold
  <2>4. NoRepeats' /\ ShippedStored'
    BY <1>0 DEF NoRepeats, ShippedStored
  <2> QED  BY <2>3, <2>4
<1>5. ASSUME ReadLastAnchor(a) PROVE AnchorsHold' /\ DraftsHold' /\ NoRepeats' /\ ShippedStored'
  <2> USE <1>5 DEF ReadLastAnchor, Goto, Finish
  <2>0. /\ \A b \in Anchorers : b # a => draft'[b] = draft[b] /\ apc'[b] = apc[b]
        /\ apc[a] = "counted" /\ apc'[a] \in {"idle", "ready"}
        /\ UNCHANGED <<auditAnchors, shipped>>
    BY <1>0
  <2>1. CASE HeadUnchanged(a)
    <3>1. apc'[a] = "idle"
      BY <1>0, <2>1
    <3> QED  BY <1>0, <1>2, <2>0, <3>1 DEF AnchorsHold, DraftsHold, NoRepeats, ShippedStored
  <2>2. CASE ~HeadUnchanged(a)
    <3>1. /\ draft'[a].eventId = draft[a].eventId /\ draft'[a].chainHash = draft[a].chainHash
          /\ draft'[a].checkpointSeq = NextSeq /\ apc'[a] = "ready"
      BY <1>0, <2>2 DEF Checkpoints
    <3>2. Anchored(draft[a]) /\ Anchored(draft'[a])
      BY <1>0, <2>0, <3>1 DEF DraftsHold, Anchored
    <3>3. AnchorsHold' /\ DraftsHold'
      BY <1>0, <1>2, <2>0, <3>2 DEF AnchorsHold, DraftsHold
    <3>4. ASSUME NEW x \in auditAnchors, draft'[a].checkpointSeq = x.content.checkpointSeq + 1
          PROVE  x.content.chainHash # draft'[a].chainHash
      <4>1. x = LastAnchor
        <5>1. /\ Cardinality(auditAnchors) \in Nat /\ NextSeq = Cardinality(auditAnchors) + 1
              /\ LastAnchor \in auditAnchors
              /\ LastAnchor.content.checkpointSeq = Cardinality(auditAnchors)
          BY <1>0, <3>4, LastIsGreatest
        <5>2. x.content.checkpointSeq \in Nat
          BY <1>0 DEF Anchors, Checkpoints
        <5>3. x.content.checkpointSeq = LastAnchor.content.checkpointSeq
          <6> DEFINE k == x.content.checkpointSeq  m == Cardinality(auditAnchors)
          <6>1. k + 1 = m + 1
            BY <3>1, <3>4, <5>1
          <6>2. k \in Nat /\ m \in Nat
            BY <5>1, <5>2
          <6> HIDE DEF k, m
          <6>3. k = m
            BY ONLY <6>1, <6>2
          <6> QED  BY <5>1, <6>3 DEF k, m
        <5> QED  BY <1>0, <5>1, <5>3 DEF Numbering
      <4>2. Anchored(x.content)
        BY <1>0 DEF AnchorsHold
      <4> DEFINE c == x.content  d == draft[a]
      <4>3. c.eventId # d.eventId \/ c.chainHash # d.chainHash
        BY <2>2, <4>1 DEF HeadUnchanged
      <4>4. Anchored(c) /\ Anchored(d)
        BY <3>2, <4>2
      <4> HIDE DEF c, d
      <4>5. c.chainHash # d.chainHash
        BY <1>0, <4>3, <4>4, HashNamesId
      <4> QED  BY <3>1, <4>5 DEF c, d
    <3>5. NoRepeats'
      BY <1>0, <2>0, <3>4 DEF NoRepeats
    <3>6. ShippedStored'
      BY <1>0, <2>0, <3>1 DEF ShippedStored
    <3> QED  BY <3>3, <3>5, <3>6
  <2> QED  BY <2>1, <2>2
<1>6. ASSUME StoreAnchor(a) PROVE AnchorsHold' /\ DraftsHold' /\ NoRepeats' /\ ShippedStored'
  <2> USE <1>6 DEF StoreAnchor, Goto, Finish, Keep
  <2> DEFINE new == [content |-> draft[a], signature |-> draft[a]]
             n == Cardinality(auditAnchors)
  <2>1. /\ apc[a] = "ready" /\ Anchored(draft[a])
        /\ \A b \in Anchorers : apc'[b] # "idle" => apc[b] # "idle" /\ draft'[b] = draft[b]
        /\ \A b \in Anchorers : apc'[b] = "ready" => apc[b] = "ready"
        /\ \A b \in Anchorers \ {a} : apc'[b] = apc[b]
        /\ shipped' = shipped
    BY <1>0 DEF DraftsHold
  <2>2. DraftsHold'
    BY <1>0, <1>2, <2>1 DEF DraftsHold
  <2>3. CASE UNCHANGED auditAnchors /\ apc'[a] = "idle"
    <3>1. AnchorsHold'
      BY <1>0, <1>2, <2>3 DEF AnchorsHold
    <3>2. NoRepeats'
      BY <1>0, <2>1, <2>3 DEF NoRepeats
    <3>3. ShippedStored'
      BY <1>0, <2>1, <2>3 DEF ShippedStored
    <3> QED  BY <2>2, <3>1, <3>2, <3>3
  <2>4. CASE /\ auditAnchors' = auditAnchors \cup {new}
             /\ ~\E x \in auditAnchors : x.content.checkpointSeq = draft[a].checkpointSeq
    <3>1. n \in Nat /\ draft[a].checkpointSeq = n + 1
      BY <1>0, <2>1, <2>4, LastIsGreatest, FreeNumberIsNext
    <3>2. \A x \in auditAnchors : x.content.checkpointSeq \in 1 .. n
      BY <1>0 DEF Numbering
    <3>3. \A b \in Anchorers : apc[b] = "ready" => draft[b].checkpointSeq \in 1 .. n + 1
      BY <1>0 DEF Numbering
    <3>4. new.content = draft[a] /\ new.signature = draft[a]
      OBVIOUS
    <3> HIDE DEF new, n
    <3>5. AnchorsHold'
      BY <1>0, <1>2, <2>1, <2>4, <3>4 DEF AnchorsHold
    <3>6. ASSUME NEW x \in auditAnchors', NEW y \in auditAnchors',
                 y.content.checkpointSeq = x.content.checkpointSeq + 1
          PROVE  x.content.chainHash # y.content.chainHash
      <4>1. x \in auditAnchors
        BY <2>4, <3>1, <3>2, <3>4, <3>6
      <4>2. CASE y \in auditAnchors
        BY <1>0, <3>6, <4>1, <4>2 DEF NoRepeats
      <4>3. CASE y = new
        BY <1>0, <2>1, <3>4, <3>6, <4>1, <4>3 DEF NoRepeats
      <4> QED  BY <2>4, <4>2, <4>3
    <3>7. ASSUME NEW b \in Anchorers, NEW x \in auditAnchors',
                 apc'[b] = "ready", draft'[b].checkpointSeq = x.content.checkpointSeq + 1
          PROVE  x.content.chainHash # draft'[b].chainHash
      <4>1. apc[b] = "ready" /\ draft'[b] = draft[b]
        BY <2>1, <3>7
      <4>2. x \in auditAnchors
        BY <2>4, <3>1, <3>2, <3>3, <3>4, <3>7, <4>1
      <4> QED  BY <1>0, <3>7, <4>1, <4>2 DEF NoRepeats
    <3>8. NoRepeats'
      BY <3>6, <3>7 DEF NoRepeats
    <3>9. ShippedStored'
      <4>1. \A b \in Anchorers : apc'[b] = "stored" => b = a \/ apc[b] = "stored"
        BY <2>1
      <4> QED  BY <1>0, <2>1, <2>4, <3>4, <4>1 DEF ShippedStored
    <3> QED  BY <2>2, <3>5, <3>8, <3>9
  <2>5. \/ UNCHANGED auditAnchors /\ apc'[a] = "idle"
        \/ /\ auditAnchors' = auditAnchors \cup {new}
           /\ ~\E x \in auditAnchors : x.content.checkpointSeq = draft[a].checkpointSeq
    BY <1>0
  <2> QED  BY <2>3, <2>4, <2>5
<1>7. ASSUME ShipAnchor(a) \/ AnchorFails(a)
      PROVE  AnchorsHold' /\ DraftsHold' /\ NoRepeats' /\ ShippedStored'
  <2> USE <1>7 DEF ShipAnchor, AnchorFails, Goto, Finish
  <2>1. /\ \A b \in Anchorers : apc'[b] # "idle" => apc'[b] = apc[b] /\ draft'[b] = draft[b]
        /\ UNCHANGED auditAnchors
        /\ shipped' = shipped \/ (apc[a] = "stored" /\ shipped' = shipped \cup {draft[a]})
    BY <1>0
  <2>2. AnchorsHold' /\ DraftsHold'
    BY <1>0, <1>2, <2>1 DEF AnchorsHold, DraftsHold
  <2>3. NoRepeats'
    BY <1>0, <2>1 DEF NoRepeats
  <2>4. ShippedStored'
    BY <1>0, <2>1 DEF ShippedStored
  <2> QED  BY <2>2, <2>3, <2>4
<1> QED  BY <1>1, <1>3, <1>4, <1>5, <1>6, <1>7, <1>a DEF createAnchor

LEMMA NextPristineInv == AnchorInv /\ PristineInv /\ [Next]_vars => PristineInv'
<1> SUFFICES ASSUME AnchorInv, PristineInv, [Next]_vars PROVE PristineInv'
  OBVIOUS
<1>1. CASE Damage
  <2>1. damage' # 0
    BY <1>1 DEF Damage, AnchorInv, TypeOK
  <2> QED  BY <2>1 DEF PristineInv
<1>2. CASE UNCHANGED vars
  <2>1. UNCHANGED logVars /\ UNCHANGED anchorVars
    BY <1>2 DEF vars
  <2>2. \A c : Anchored(c)' <=> Anchored(c)
    BY <2>1 DEF Anchored, logVars
  <2>3. damage = 0 => IInv'
    BY <2>1, NextIInv DEF PristineInv
  <2> QED  BY <2>1, <2>2, <2>3 DEF PristineInv, AnchorsHold, DraftsHold, NoRepeats, ShippedStored,
                                   anchorVars
<1> QED  BY <1>1, <1>2, LogKeepsPristineInv, AnchorKeepsPristineInv DEF Next

\* What runs of createAnchor, writers and edits keep, and what holds besides as long as
\* nobody has edited the tables.
THEOREM AnchorInvariance == Spec => [](AnchorInv /\ PristineInv)
<1>1. Init => AnchorInv /\ PristineInv
  BY InitAnchorInv, InitPristineInv
<1>2. AnchorInv /\ PristineInv /\ [Next]_vars => AnchorInv' /\ PristineInv'
  BY NextAnchorInv, NextPristineInv
<1> QED  BY <1>1, <1>2, PTL DEF Spec

-----------------------------------------------------------------------------
(* What anchoring promises *)

\* Every variable keeps its type, whatever is edited.
THEOREM AnchoringTypeCorrect == Spec => []TypeOK
<1>1. AnchorInv => TypeOK
  BY DEF AnchorInv
<1> QED  BY <1>1, AnchorInvariance, PTL

\* On tables nobody edited the verifier accepts every checkpoint for ever after.
THEOREM VerifierRaisesNoFalseAlarm == Spec => []NoFalseAlarm
<1>1. ASSUME AnchorInv, PristineInv, damage = 0 PROVE VerificationPasses(securityEvents)
  <2>1. IInv /\ AnchorsHold
    BY <1>1 DEF PristineInv
  <2>2. verifyChain(securityEvents).ok
    BY <2>1 DEF IInv, verifyChain
  <2>3. /\ UniqueIds(securityEvents)
        /\ \A r \in securityEvents : r.id \in Nat /\ r.id > 0
    BY <1>1, TableHasNewest DEF Rows
  <2>4. \A x \in auditAnchors : /\ ~BadSignature(x)
                                /\ ~MissingEvent(securityEvents, x)
                                /\ ~HashMismatch(securityEvents, x)
    BY <2>1, <2>3 DEF AnchorsHold, Anchored, BadSignature, MissingEvent, HashMismatch, UniqueIds
  <2> QED  BY <2>2, <2>4 DEF VerificationPasses, verifyAnchors, BrokenAnchors
<1>2. AnchorInv /\ PristineInv => NoFalseAlarm
  BY <1>1 DEF NoFalseAlarm
<1> QED  BY <1>2, AnchorInvariance, PTL

\* However many rows and checkpoints are edited, and in whatever order with the
\* program's own steps, verification passes only when the log up to every
\* checkpoint is the log its run committed to.
THEOREM EditsAreDetected == Spec => []AnchoredLogIsGenuine
<1>1. ASSUME AnchorInv, VerificationPasses(securityEvents),
             NEW w \in witnessed, verifyChain(w.rows).ok
      PROVE  RowsBefore(securityEvents, w.checkpoint.eventId + 1) = w.rows
  <2> DEFINE e == w.checkpoint.eventId
             A == RowsBefore(securityEvents, e + 1)
  <2>0. /\ securityEvents \in SUBSET Rows /\ UniqueIds(securityEvents)
        /\ \A r \in securityEvents : r.id \in Nat /\ r.id > 0
        /\ e \in Nat
    BY <1>1, TableHasNewest DEF Rows, AnchorInv, TypeOK, Checkpoints
  <2>1. BrokenRows(securityEvents) = {} /\ BrokenRows(w.rows) = {} /\ BrokenAnchors(securityEvents) = {}
    BY <1>1 DEF VerificationPasses, verifyChain, verifyAnchors
  <2>2. IsView(w.rows) /\ HeadOf(w.rows, w.checkpoint)
    BY <1>1 DEF AnchorInv, TablesAreViews, Views, WitnessesAreSigned
  <2>3. PICK x \in auditAnchors : x.signature = w.checkpoint
    BY <1>1 DEF AnchorInv, WitnessesAreSigned
  <2>4. /\ x.content = w.checkpoint
        /\ ~MissingEvent(securityEvents, x) /\ ~HashMismatch(securityEvents, x)
    BY <2>1, <2>3 DEF BrokenAnchors, BadSignature
  <2>5. CASE w.rows = {} /\ e = 0
    BY <2>0, <2>5 DEF RowsBefore
  <2>6. CASE w.rows # {}
    <3>1. PICK b \in w.rows : /\ e = b.id /\ w.checkpoint.chainHash = b.hash
                              /\ \A s \in w.rows : s.id <= b.id
      BY <2>2, <2>6 DEF HeadOf
    <3>2. e > 0
      BY <2>2, <3>1 DEF IsView
    <3>3. PICK a \in securityEvents : a.id = e
      BY <2>4, <3>2 DEF MissingEvent
    <3>4. a.hash = b.hash
      BY <2>4, <3>1, <3>3 DEF HashMismatch
    <3>5. a \in A
      BY <2>0, <3>3 DEF RowsBefore
    <3>6. A \in SUBSET Rows /\ BrokenRows(A) = {} /\ UniqueIds(A)
      <4>1. e + 1 \in Nat
        BY <2>0
      <4>2. BrokenRows(A) = {}
        BY <2>0, <2>1, <4>1, PrefixIsSound
      <4>3. A \subseteq securityEvents
        BY DEF RowsBefore
      <4> QED  BY <2>0, <4>2, <4>3 DEF UniqueIds
    <3>7. Covers(w.rows, A)
      <4> SUFFICES ASSUME NEW r \in A PROVE \E t \in w.rows : t.id = r.id
        BY DEF Covers
      <4>1. r \in securityEvents /\ r.id <= b.id
        BY <2>0, <3>1 DEF RowsBefore
      <4> QED  BY <2>2, <4>1 DEF IsView
    <3>8. w.rows \in SUBSET Rows /\ UniqueIds(w.rows)
      BY <2>2 DEF IsView
    <3> DEFINE B == w.rows
    <3>9. a.id = b.id /\ b \in B
      BY <3>1, <3>3
    <3> HIDE DEF A, B
    <3> QED  BY <2>1, <3>1, <3>4, <3>5, <3>6, <3>7, <3>8, <3>9, SameChain DEF A, B
  <2> QED  BY <2>2, <2>5, <2>6 DEF HeadOf
<1>2. AnchorInv => AnchoredLogIsGenuine
  BY <1>1 DEF AnchoredLogIsGenuine
<1> QED  BY <1>2, AnchorInvariance, PTL

\* Overlapping runs number their checkpoints 1, 2, ... and no two neighbours
\* commit to the same head.
THEOREM CheckpointsFormASequence == Spec => []CheckpointsAreNumbered
<1>1. AnchorInv /\ PristineInv => CheckpointsAreNumbered
  BY DEF AnchorInv, PristineInv, Numbering, NoRepeats, CheckpointsAreNumbered
<1> QED  BY <1>1, AnchorInvariance, PTL

\* What the sink received is in the database.
THEOREM SinkFollowsDatabase == Spec => []ShippedIsStored
<1>1. PristineInv => ShippedIsStored
  BY DEF PristineInv, ShippedStored, ShippedIsStored
<1> QED  BY <1>1, AnchorInvariance, PTL

-----------------------------------------------------------------------------
(* Counts *)

\* Checkpoint c counts all of v, and nothing that is not in the table.
CountFits(v, c) == c.eventCount \in Cardinality(v) .. Cardinality(securityEvents)

CountsInv ==
    damage = 0 =>
        /\ \A a \in Anchorers : apc[a] # "idle" => seen[a] \subseteq securityEvents
        /\ \A a \in Anchorers : apc[a] \in {"counted", "ready", "stored"} =>
              CountFits(seen[a], draft[a])
        /\ CountIncludesCovered

LEMMA LogIsFinite == AnchorInv => IsFiniteSet(securityEvents)
<1>1. AnchorInv => lastId \in Nat
  BY DEF AnchorInv, TypeOK, LogTypeOK
<1> QED  BY <1>1, TableHasNewest, TableIsFinite

\* A count that fits a table fits any that has grown.
LEMMA CountsStay ==
    ASSUME securityEvents \subseteq securityEvents', IsFiniteSet(securityEvents'),
           NEW v, IsFiniteSet(v), NEW c, CountFits(v, c)
    PROVE  CountFits(v, c)'
<1>1. /\ IsFiniteSet(securityEvents)
      /\ Cardinality(securityEvents) <= Cardinality(securityEvents')
  BY FS_Subset
<1> DEFINE k == Cardinality(v)  m == Cardinality(securityEvents)  n == Cardinality(securityEvents')
<1>2. k \in Nat /\ m \in Nat /\ n \in Nat /\ m <= n
  BY <1>1, FS_CardinalityType
<1>3. c.eventCount \in k .. m
  BY DEF CountFits
<1> HIDE DEF k, m, n
<1>4. c.eventCount \in k .. n
  BY <1>2, <1>3
<1> QED  BY <1>4 DEF CountFits, k, n

\* What was seen and witnessed is a finite part of the table.
LEMMA SeenIsFinite ==
    ASSUME AnchorInv
    PROVE  \A v \in Views : IsFiniteSet(v)
<1>1. lastId \in Nat
  BY DEF AnchorInv, TypeOK, LogTypeOK
<1>2. ASSUME NEW v \in Views PROVE IsFiniteSet(v)
  <2>1. v \in SUBSET Rows /\ UniqueIds(v) /\ \A r \in v : r.id <= lastId
    BY DEF AnchorInv, TablesAreViews, IsView
  <2> QED  BY <1>1, <2>1, TableIsFinite
<1> QED  BY <1>2

LEMMA LogKeepsCountsInv ==
    ASSUME AnchorInv, IsFiniteSet(securityEvents'), CountsInv, LogStep
    PROVE  CountsInv'
<1> SUFFICES ASSUME damage = 0 PROVE CountsInv'
  BY DEF CountsInv, LogStep, anchorVars
<1>1. securityEvents \subseteq securityEvents' /\ UNCHANGED anchorVars
  BY LogGrows DEF LogStep
<1>2. \A v \in Views : \A c : CountFits(v, c) => CountFits(v, c)'
  BY <1>1, SeenIsFinite, CountsStay
<1>3. ASSUME NEW a \in Anchorers
      PROVE  /\ apc[a] # "idle" => seen[a] \subseteq securityEvents'
             /\ apc[a] \in {"counted", "ready", "stored"} =>
                  draft[a].eventCount \in Cardinality(seen[a]) .. Cardinality(securityEvents')
  BY <1>1, <1>2 DEF CountsInv, Views, CountFits
<1>4. \A w \in witnessed :
         w.checkpoint.eventCount \in Cardinality(w.rows) .. Cardinality(securityEvents')
  BY <1>1, <1>2 DEF CountsInv, CountIncludesCovered, Views, CountFits
<1> QED  BY <1>1, <1>3, <1>4 DEF CountsInv, CountFits, CountIncludesCovered, anchorVars

LEMMA AnchorKeepsCountsInv ==
    ASSUME AnchorInv, CountsInv, AnchorStep
    PROVE  CountsInv'
<1>a. PICK a \in Anchorers : createAnchor(a) /\ UNCHANGED logVars
  BY DEF AnchorStep
<1>b. damage' = damage /\ securityEvents' = securityEvents
  BY <1>a DEF createAnchor, ReadHead, ReadCount, ReadLastAnchor, StoreAnchor, ShipAnchor,
              AnchorFails, logVars
<1> SUFFICES ASSUME damage = 0 PROVE CountsInv'
  BY <1>b DEF CountsInv
<1> DEFINE Fit(c, v, d) ==
               /\ c # "idle" => v \subseteq securityEvents
               /\ c \in {"counted", "ready", "stored"} => CountFits(v, d)
<1>0. /\ \A b \in Anchorers : Fit(apc[b], seen[b], draft[b])
      /\ \A w \in witnessed : CountFits(w.rows, w.checkpoint)
      /\ apc \in [Anchorers -> AnchorPhases] /\ draft \in [Anchorers -> Checkpoints]
      /\ seen \in [Anchorers -> SUBSET Rows]
      /\ IsFiniteSet(securityEvents) /\ Cardinality(securityEvents) \in Nat
  BY LogIsFinite, FS_CardinalityType
     DEF CountsInv, CountIncludesCovered, CountFits, AnchorInv, TypeOK
<1>1. /\ \A b \in Anchorers \ {a} : apc'[b] = apc[b] /\ seen'[b] = seen[b] /\ draft'[b] = draft[b]
      /\ \/ witnessed' = witnessed
         \/ /\ apc[a] = "ready"
            /\ witnessed' = witnessed \cup {[checkpoint |-> draft[a], rows |-> seen[a]]}
  BY <1>0, <1>a DEF createAnchor, ReadHead, ReadCount, ReadLastAnchor, StoreAnchor, ShipAnchor,
                    AnchorFails, Goto, Finish, Keep
<1>2. Fit(apc'[a], seen'[a], draft'[a])
  <2>1. CASE ReadHead(a)
    <3>1. seen'[a] = securityEvents
      BY <1>0, <2>1 DEF ReadHead
    <3>2. CASE securityEvents = {}
      <4>1. draft'[a].eventCount = 0
        BY <1>0, <2>1, <3>2 DEF ReadHead, GENESIS_HEAD
      <4>2. Cardinality(securityEvents) = 0
        BY <3>2, FS_EmptySet
      <4> QED  BY <3>1, <4>1, <4>2 DEF CountFits
    <3>3. CASE securityEvents # {}
      <4>1. apc'[a] = "headRead"
        BY <1>0, <2>1, <3>3 DEF ReadHead, Goto
      <4> QED  BY <3>1, <4>1
    <3> QED  BY <3>2, <3>3
  <2>2. CASE ReadCount(a)
    <3>1. /\ draft'[a].eventCount = Cardinality(securityEvents)
          /\ seen'[a] = seen[a] /\ seen[a] \subseteq securityEvents
      BY <1>0, <2>2 DEF ReadCount, Goto, Checkpoints
    <3>2. Cardinality(seen[a]) \in Nat /\ Cardinality(seen[a]) <= Cardinality(securityEvents)
      BY <1>0, <3>1, FS_Subset, FS_CardinalityType
    <3> QED  BY <1>0, <3>1, <3>2 DEF CountFits
  <2>3. CASE ReadLastAnchor(a)
    <3>1. \/ apc'[a] = "idle"
          \/ /\ apc[a] = "counted" /\ seen'[a] = seen[a]
             /\ draft'[a].eventCount = draft[a].eventCount
      BY <1>0, <2>3 DEF ReadLastAnchor, Goto, Finish, Checkpoints
    <3> QED  BY <1>0, <3>1 DEF CountFits
  <2>4. CASE StoreAnchor(a)
    <3>1. \/ apc'[a] = "idle"
          \/ apc[a] = "ready" /\ seen'[a] = seen[a] /\ draft'[a] = draft[a]
      BY <1>0, <2>4 DEF StoreAnchor, Goto, Finish, Keep
    <3> QED  BY <1>0, <3>1
  <2>5. CASE ShipAnchor(a) \/ AnchorFails(a)
    <3>1. apc'[a] = "idle"
      BY <1>0, <2>5 DEF ShipAnchor, AnchorFails, Goto
    <3> QED  BY <3>1
  <2> QED  BY <1>a, <2>1, <2>2, <2>3, <2>4, <2>5 DEF createAnchor
<1>3. \A b \in Anchorers : Fit(apc'[b], seen'[b], draft'[b])
  BY <1>0, <1>1, <1>2
<1>4. \A w \in witnessed' : CountFits(w.rows, w.checkpoint)
  BY <1>0, <1>1
<1> QED  BY <1>b, <1>3, <1>4 DEF CountsInv, CountIncludesCovered, CountFits

LEMMA NextCountsInv == AnchorInv /\ CountsInv /\ [Next]_vars => CountsInv'
<1> SUFFICES ASSUME AnchorInv, CountsInv, [Next]_vars PROVE CountsInv'
  OBVIOUS
<1>1. CASE Damage
  <2>1. damage' # 0
    BY <1>1 DEF Damage, AnchorInv, TypeOK
  <2> QED  BY <2>1 DEF CountsInv
<1>2. CASE UNCHANGED vars
  BY <1>2 DEF CountsInv, CountIncludesCovered, CountFits, vars, logVars, anchorVars
<1>3. IsFiniteSet(securityEvents')
  <2>1. IsView(securityEvents)' /\ (lastId \in Nat)'
    BY NextAnchorInv DEF AnchorInv, TablesAreViews, TypeOK, LogTypeOK
  <2>2. /\ securityEvents' \in SUBSET Rows /\ UniqueIds(securityEvents') /\ lastId' \in Nat
        /\ \A r \in securityEvents' : r.id <= lastId'
    BY <2>1 DEF IsView
  <2> QED  BY <2>2, TableIsFinite
<1> QED  BY <1>1, <1>2, <1>3, LogKeepsCountsInv, AnchorKeepsCountsInv DEF Next

\* Beside any writers and overlapping runs, a checkpoint counts all it covers and
\* nothing that the log does not hold.
THEOREM CountsCoverTheLog == Spec => []CountIncludesCovered
<1>1. Init => CountsInv
  BY DEF Init, AnchorInit, CountsInv, CountIncludesCovered
<1>2. CountsInv /\ damage = 0 => CountIncludesCovered
  BY DEF CountsInv
<1>3. CountsInv => CountIncludesCovered
  BY <1>2 DEF CountIncludesCovered
<1> QED  BY <1>1, <1>3, NextCountsInv, AnchorInvariance, PTL DEF Spec
=============================================================================
