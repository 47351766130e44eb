-------------------------------- MODULE Keys --------------------------------
(***************************************************************************)
(* The data encryption keys of one organisation and their rotation          *)
(* (admin/encryption.ts), beside the code that writes and erases ciphertext. *)
(*                                                                           *)
(* A ciphertext is the number of the key it is under.  Key 0 is the tenant   *)
(* key that deriveTenantKey computes; rotateKey draws the others at random.  *)
(* key[r] is what a new transaction reads of row r; what a rotation has      *)
(* updated and not committed is in its own record, and locked.               *)
(***************************************************************************)
EXTENDS Naturals, FiniteSets

CONSTANTS
    Owners,      \* concurrent requests to POST /api/admin/encryption/rotate
    ChunkIds,    \* rows of document_chunks; numbers, ordered like their uuids
    MessageIds,  \* rows of messages
    BATCH,       \* rows re-encrypted per SELECT
    MaxKeys,     \* bound: random keys ever drawn
    MaxErased    \* bound: rows ever erased

ASSUME KeysAssumption ==
    /\ ChunkIds \subseteq Nat
    /\ MessageIds \subseteq Nat
    /\ ChunkIds \cap MessageIds = {}
    /\ IsFiniteSet(ChunkIds) /\ IsFiniteSet(MessageIds)
    /\ BATCH \in Nat \ {0}
    /\ MaxKeys \in Nat
    /\ MaxErased \in Nat

VARIABLES
    key,        \* row that is stored -> the key its ciphertext is under
    erased,     \* rows erased: a uuid is not used twice
    versions,   \* rows of encryption_key_versions
    drawn,      \* random keys drawn so far
    rotation,   \* owner -> the request under way
    announced   \* versions an encryption.rotated event tells of

vars == <<key, erased, versions, drawn, rotation, announced>>

-----------------------------------------------------------------------------
RowIds == ChunkIds \cup MessageIds

Keys == 0 .. MaxKeys

TenantKey == 0

Stored == DOMAIN key

Versions == [no : Nat \ {0}, dek : Keys, active : BOOLEAN]

Idle == [phase |-> "idle"]

\* ensureKeyVersion (ensure, ensuring), rotateKey up to its first SELECT (read).
Preparing == [phase : {"ensure", "ensuring", "read"}, new : Keys \ {TenantKey}]

\* rotateKey at work: the page just read and not yet re-encrypted, whether it was
\* full, and the rows updated so far; history: the rows there were, and the
\* rows erased, when the rotation began.
Rotating ==
    [phase : {"rows", "commit", "announce"}, current : Nat \ {0}, old : Keys, new : Keys \ {TenantKey},
     table : {"chunks", "messages"}, offset : Nat, page : SUBSET [id : RowIds, dek : Keys],
     full : BOOLEAN, mine : SUBSET RowIds, had : SUBSET RowIds, gone : SUBSET RowIds]

In(q, phase) == rotation[q].phase = phase

Become(q, r) == rotation' = [rotation EXCEPT ![q] = r]

Enter(q, phase) == Become(q, [rotation[q] EXCEPT !.phase = phase])

End(q) == Become(q, Idle)

\* The rows a rotation has updated are locked until its transaction ends.
Updating(q) == rotation[q].phase \in {"rows", "commit"}

LockedByOthers(q, r) == \E p \in Owners \ {q} : Updating(p) /\ r \in rotation[p].mine

Init ==
    /\ key = [r \in {} |-> TenantKey]
    /\ erased = {}
    /\ versions = {}
    /\ drawn = 0
    /\ rotation = [q \in Owners |-> Idle]
    /\ announced = {}

-----------------------------------------------------------------------------
(* Writers and erasure *)

Write(r) ==
    /\ r \notin Stored \cup erased
    /\ key' = [s \in Stored \cup {r} |-> IF s = r THEN TenantKey ELSE key[s]]

\* An upload commits a chunk, encrypted under the tenant key whatever key is active.
IngestChunk(r) ==
    /\ r \in ChunkIds
    /\ Write(r)
    /\ UNCHANGED <<erased, versions, drawn, rotation, announced>>

\* A chat commits a message, encrypted under the tenant key as well.
PersistMessage(r) ==
    /\ r \in MessageIds
    /\ Write(r)
    /\ UNCHANGED <<erased, versions, drawn, rotation, announced>>

\* An erasure deletes a row; it waits for a rotation that has updated the row.
EraseRow(r) ==
    /\ r \in Stored
    /\ Cardinality(erased) < MaxErased
    /\ \A q \in Owners : ~(Updating(q) /\ r \in rotation[q].mine)
    /\ key' = [s \in Stored \ {r} |-> key[s]]
    /\ erased' = erased \cup {r}
    /\ UNCHANGED <<versions, drawn, rotation, announced>>

-----------------------------------------------------------------------------
(* ensureKeyVersion *)

ActiveRows == {v \in versions : v.active}

\* A request arrives; its random key gets the next number.
BeginRotate(q) ==
    /\ In(q, "idle")
    /\ drawn < MaxKeys
    /\ drawn' = drawn + 1
    /\ Become(q, [phase |-> "ensure", new |-> drawn + 1])
    /\ UNCHANGED <<key, erased, versions, announced>>

\* Looks for an active version.
EnsureReads(q) ==
    /\ In(q, "ensure")
    /\ Enter(q, IF ActiveRows = {} THEN "ensuring" ELSE "read")
    /\ UNCHANGED <<key, erased, versions, drawn, announced>>

FirstVersion == [no |-> 1, dek |-> TenantKey, active |-> TRUE]

\* Inserts version 1, around the tenant key, ON CONFLICT DO NOTHING, and commits.
EnsureInserts(q) ==
    /\ In(q, "ensuring")
    /\ versions' = IF \E v \in versions : v.no = 1 THEN versions ELSE versions \cup {FirstVersion}
    /\ Enter(q, "read")
    /\ UNCHANGED <<key, erased, drawn, announced>>

-----------------------------------------------------------------------------
(* rotateKey *)

\* The transaction starts: the active version, LIMIT 1.
\* There is always an active version by now (OneActiveKey).
ReadActive(q) ==
    /\ In(q, "read")
    /\ \E v \in ActiveRows :
          Become(q, [phase |-> "rows", current |-> v.no, old |-> v.dek, new |-> rotation[q].new,
                     table |-> "chunks", offset |-> 0, page |-> {}, full |-> TRUE,
                     mine |-> {}, had |-> Stored, gone |-> erased])
    /\ UNCHANGED <<key, erased, versions, drawn, announced>>

TableRows(table) == Stored \cap (IF table = "chunks" THEN ChunkIds ELSE MessageIds)

Position(r, rows) == Cardinality({s \in rows : s < r})

\* ORDER BY id LIMIT BATCH OFFSET offset, over committed rows and one's own updates.
Page(q, table, offset) ==
    LET rows == TableRows(table)
    IN  {[id |-> r, dek |-> IF r \in rotation[q].mine THEN rotation[q].new ELSE key[r]] :
            r \in {s \in rows : Position(s, rows) \in offset .. offset + BATCH - 1}}

\* Every row of the page is re-encrypted.
PageDone(q) == In(q, "rows") /\ rotation[q].page = {}

Select(q, table, offset) ==
    /\ Become(q, [rotation[q] EXCEPT
                    !.table = table, !.offset = offset + BATCH, !.page = Page(q, table, offset),
                    !.full = Cardinality(Page(q, table, offset)) = BATCH])
    /\ UNCHANGED <<key, erased, versions, drawn, announced>>

\* Mutant: the loop over a table ends after the first page, full or not.
SelectOnePage(q) ==
    /\ PageDone(q)
    /\ rotation[q].table = "chunks"
    /\ Become(q, [rotation[q] EXCEPT
                    !.table = IF rotation[q].offset = 0 THEN "chunks" ELSE "messages",
                    !.offset = @ + BATCH,
                    !.page = IF rotation[q].offset = 0 THEN Page(q, "chunks", 0) ELSE Page(q, "messages", 0),
                    !.full = FALSE])
    /\ UNCHANGED <<key, erased, versions, drawn, announced>>

\* Mutant: the two tables are re-encrypted side by side.
SelectFromEither(q) ==
    /\ PageDone(q)
    /\ \/ rotation[q].full /\ Select(q, rotation[q].table, rotation[q].offset)
       \/ \E table \in {"chunks", "messages"} \ {rotation[q].table} : Select(q, table, 0)

\* The next page: of the same table after a full one, else, after the chunks,
\* the first of the messages.
SelectBatch(q) ==
    /\ PageDone(q)
    /\ \/ rotation[q].full /\ Select(q, rotation[q].table, rotation[q].offset)
       \/ ~rotation[q].full /\ rotation[q].table = "chunks" /\ Select(q, "messages", 0)

Fails(q) == End(q) /\ UNCHANGED <<key, erased, versions, drawn, announced>>

\* Mutant: the UPDATE goes through the pool, not the rotation's transaction.
ReencryptAtOnce(q, row) ==
    IF row.dek # rotation[q].old
      THEN Fails(q)
      ELSE /\ ~LockedByOthers(q, row.id)
           /\ Become(q, [rotation[q] EXCEPT !.page = @ \ {row}])
           /\ key' = [r \in Stored |-> IF r = row.id THEN rotation[q].new ELSE key[r]]
           /\ UNCHANGED <<erased, versions, drawn, announced>>

\* One row: decrypt with the old key, or throw, which rolls everything back;
\* else UPDATE, which waits for other rotations and finds no row if it is erased.
Reencrypt(q, row) ==
    IF row.dek # rotation[q].old
      THEN Fails(q)
      ELSE /\ ~LockedByOthers(q, row.id)
           /\ Become(q, [rotation[q] EXCEPT !.page = @ \ {row}, !.mine = @ \cup ({row.id} \cap Stored)])
           /\ UNCHANGED <<key, erased, versions, drawn, announced>>

\* The rows of a page come in the order of their ids.
NextRow(q, row) ==
    /\ row \in rotation[q].page
    /\ \A other \in rotation[q].page : row.id <= other.id

ReencryptRow(q) == In(q, "rows") /\ \E row \in rotation[q].page : NextRow(q, row) /\ Reencrypt(q, row)

\* Mutant: the number of the new version need not be free.
RetireUnchecked(q) ==
    /\ PageDone(q) /\ ~rotation[q].full /\ rotation[q].table = "messages"
    /\ Enter(q, "commit")
    /\ UNCHANGED <<key, erased, versions, drawn, announced>>

\* Retires the current version, once nobody else holds its row, and inserts the
\* next one, which fails if its number is taken: UNIQUE (org_id, key_version).
Retire(q) ==
    /\ PageDone(q) /\ ~rotation[q].full /\ rotation[q].table = "messages"
    /\ \A p \in Owners \ {q} : ~(In(p, "commit") /\ rotation[p].current = rotation[q].current)
    /\ IF \E v \in versions : v.no = rotation[q].current + 1
         THEN Fails(q)
         ELSE /\ Enter(q, "commit")
              /\ UNCHANGED <<key, erased, versions, drawn, announced>>

Retired(R) ==
    {[v EXCEPT !.active = @ /\ v.no # R.current] : v \in versions}
      \cup {[no |-> R.current + 1, dek |-> R.new, active |-> TRUE]}

\* Updates and versions become visible together.
CommitRotation(q) ==
    /\ In(q, "commit")
    /\ LET R == rotation[q] IN
          /\ key' = [r \in Stored |-> IF r \in R.mine THEN R.new ELSE key[r]]
          /\ versions' = Retired(R)
    /\ Enter(q, "announce")
    /\ UNCHANGED <<erased, drawn, announced>>

\* Mutant: the event is appended as soon as the transaction's work is done.
AnnounceEarly(q) ==
    /\ rotation[q].phase \in {"commit", "announce"}
    /\ announced' = announced \cup {rotation[q].current + 1}
    /\ UNCHANGED <<key, erased, versions, drawn>>
    /\ IF In(q, "announce") THEN End(q) ELSE UNCHANGED rotation

\* appendSecurityEvent, a transaction of its own after the rotation's.
Announce(q) ==
    /\ In(q, "announce")
    /\ announced' = announced \cup {rotation[q].current + 1}
    /\ End(q)
    /\ UNCHANGED <<key, erased, versions, drawn>>

\* The process or the connection fails, in any phase.
RotationDies(q) ==
    /\ ~In(q, "idle")
    /\ Fails(q)

Rotate(q) ==
    \/ EnsureReads(q)
    \/ EnsureInserts(q)
    \/ ReadActive(q)
    \/ SelectBatch(q)
    \/ ReencryptRow(q)
    \/ Retire(q)
    \/ CommitRotation(q)
    \/ Announce(q)

Next ==
    \/ \E r \in RowIds : IngestChunk(r) \/ PersistMessage(r) \/ EraseRow(r)
    \/ \E q \in Owners : BeginRotate(q) \/ Rotate(q) \/ RotationDies(q)

Spec == Init /\ [][Next]_vars

-----------------------------------------------------------------------------
(* Properties *)

\* Every variable keeps its type.
TypeOK ==
    /\ Stored \subseteq RowIds /\ key \in [Stored -> Keys]
    /\ erased \subseteq RowIds
    /\ versions \subseteq Versions
    /\ drawn \in Keys
    /\ rotation \in [Owners -> {Idle} \cup Preparing \cup Rotating]
    /\ announced \subseteq Nat

\* Once an organisation has versions, exactly one of them is active and no two
\* have one number: the unordered LIMIT 1 of activeRow has one row to find, and
\* rotateKey never throws for the lack of it, however many requests overlap.
OneActiveKey ==
    /\ \A v, w \in versions : v.no = w.no \/ (v.active /\ w.active) => v = w
    /\ versions # {} => ActiveRows # {}

\* No ciphertext outlives its key: every stored row is under the tenant key or
\* a key some retained version wraps, whatever rotation failed and where.
EveryCiphertextHasAKey ==
    \A r \in Stored : key[r] = TenantKey \/ \E v \in versions : v.dek = key[r]

Latest == IF versions = {} THEN 0 ELSE (CHOOSE v \in versions : v.active).no

KeyHistory == [n \in 1 .. Latest |-> (CHOOSE v \in versions : v.no = n).dek]

KeyList == INSTANCE EventList WITH Contents <- Keys, list <- KeyHistory

\* The keys of an organisation are a list that grows at its end, one key per
\* rotation: of rotations that started from one version only one takes effect,
\* and none overwrites or renumbers the key of another (encryption.ts:60-71).
ImplementsKeyList == KeyList!ListSpec

\* encryption.rotated events tell of rotations that happened, never of one that
\* was rolled back.
AnnouncedRotationsHappened ==
    \A n \in announced : \E v \in versions : v.no = n /\ v.dek # TenantKey

\* Paging by OFFSET while rows come and go: of the rows that were there when
\* the rotation began and still are, it leaves at most one under another key
\* for each row erased meanwhile.
Missed(q) ==
    {r \in rotation[q].had \cap Stored : key'[r] # rotation[q].new}

RotationMissesOnlyShifted ==
    [][\A q \in Owners :
          In(q, "commit") /\ rotation'[q].phase = "announce"
            => Cardinality(Missed(q)) <= Cardinality(erased \ rotation[q].gone)]_vars

\* Row by row a rotation waits for those that have updated the row.
WaitsFor(q, p) ==
    /\ In(q, "rows") /\ Updating(p) /\ p # q
    /\ \E row \in rotation[q].page :
          NextRow(q, row) /\ row.dek = rotation[q].old /\ row.id \in rotation[p].mine

Circle(C) == C # {} /\ \A q \in C : \E p \in C : WaitsFor(q, p)

\* Rows written since q began.
NewRows(q) == (Stored \cup erased) \ (rotation[q].had \cup rotation[q].gone)

\* Overlapping rotations lock rows in one order, that of the ids, chunks first: as
\* long as no row is written meanwhile, however many they are and whatever is
\* erased, they wait for each other but never in a circle.  A row that is written
\* shifts the pages, and then they may (encryption.ts:86-96).
NoCircularWait == \A C \in SUBSET Owners : Circle(C) => \E q \in C : NewRows(q) # {}

\* Stated by tests/admin/encryption.test.ts:38: a rotation "keeps data
\* readable".  searchDocuments reads a chunk by decrypting it with the tenant key.
Readable(r) == key[r] = TenantKey

DataStaysReadable == \A r \in Stored \cap ChunkIds : Readable(r)
=============================================================================
