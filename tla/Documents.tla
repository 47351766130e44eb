----------------------------- MODULE Documents -----------------------------
(***************************************************************************)
(* Documents of one organisation: upload and new versions (routes of       *)
(* src/src/http/routes/documents.ts, src/src/documents/ingest.ts and       *)
(* storage.ts), the storage quota (src/src/admin/storageQuota.ts), soft    *)
(* deletion and legal hold (src/src/documents/lifecycle.ts), the RAG chat  *)
(* (src/src/http/routes/ragChat.ts) and GDPR erasure                       *)
(* (src/src/documents/erasure.ts), over the tables of                      *)
(* src/src/db/sql/0004_documents.sql and the encrypted files on disk.      *)
(*                                                                         *)
(* Requests interleave between their transactions, and inside those whose  *)
(* statements see different snapshots (READ COMMITTED); any of them may    *)
(* die.  A document's text is not modelled, only whether its chunks are    *)
(* there; of the access log and the chat, only whom they name.  An upload  *)
(* writes one file and one row, and both bear the number of its request.   *)
(***************************************************************************)
EXTENDS Integers, FiniteSets, FiniteSetsExt

CONSTANTS
    Requests,    \* concurrent HTTP requests
    Users,
    Rank,        \* Rank[u]: 0 viewer, 1 member, 2 admin, 3 owner
    Sizes,       \* sizes of uploaded files
    Classes,     \* classifications in use, 0 PUBLIC .. 3 SECRET
    Quota,       \* storageQuotaBytes
    NoUser,      \* SQL NULL in a user column
    MaxRequests, \* bound: requests that may be begun
    MaxUnclear   \* bound: uploads that die or never hear of their COMMIT

ASSUME DocumentsAssumption ==
    /\ IsFiniteSet(Requests) /\ Requests # {}
    /\ Rank \in [Users -> 0 .. 3]
    /\ Sizes \subseteq Nat \ {0}
    /\ \E largest \in Sizes : \A size \in Sizes : size <= largest
    /\ Classes \subseteq 0 .. 3
    /\ Quota \in Nat
    /\ NoUser \notin Users
    /\ MaxRequests \in Nat
    /\ MaxUnclear \in Nat

Ids == 1 .. MaxRequests

Rows ==
    [id : Ids, author : Users, uploadedBy : Users \cup {NoUser}, size : Sizes,
     class : Classes, version : Nat \ {0}, parent : Ids \cup {0},
     hold : BOOLEAN, deleted : BOOLEAN]

\* What a request holds between its steps.
Uploads ==
    [phase : {"quota", "insert", "inserted", "cleanup"}, by : Users,
     id : Ids, size : Sizes, class : Classes,
     version : Nat \ {0}, parent : Ids \cup {0}]
Deletions == [phase : {"delete"}, by : Users, id : Ids]
Chats == [phase : {"chat"}, by : Users]
Erasures ==
    [phase : {"selected", "anonymized"}, by : Users, target : Users,
     docs : SUBSET Ids, logged : BOOLEAN, turns : BOOLEAN]
Idle == [phase |-> "idle"]

VARIABLES
    users,         \* accounts that exist
    documents,     \* rows of documents; author is history, never NULL
    chunks,        \* documents whose chunks and embeddings are stored
    files,         \* encrypted files on disk
    begun,         \* requests begun (bounded by MaxRequests)
    accessLog,     \* users whom entries of document_access_log name
    messages,      \* users with stored chat turns
    job,           \* job[q]: what request q is doing
    unclear,       \* history: uploads whose request died or lost its COMMIT's answer
    late           \* history: users who wrote during or after their own erasure

store == <<documents, chunks, files>>
trail == <<accessLog, messages>>
vars == <<users, store, trail, begun, job, unclear, late>>

Init ==
    /\ users = Users
    /\ documents = {}
    /\ chunks = {}
    /\ files = {}
    /\ begun = 0
    /\ accessLog = {}
    /\ messages = {}
    /\ job = [q \in Requests |-> Idle]
    /\ unclear = {}
    /\ late = {}

-----------------------------------------------------------------------------
(* Roles and row-level security *)

clearanceForRole(u) == Rank[u]

MayUpload(u) == Rank[u] >= 1
MayDelete(u) == Rank[u] >= 1
MayHold(u, hold) == IF hold THEN Rank[u] >= 2 ELSE Rank[u] = 3
MayErase(u) == Rank[u] = 3

\* Mutant: the policy compares with < instead of <=.
BelowClearance(u) == {d \in documents : d.class < clearanceForRole(u)}

\* documents_isolation: rows classified above the caller's clearance do not exist.
VisibleTo(u) == {d \in documents : d.class <= clearanceForRole(u)}

-----------------------------------------------------------------------------
(* Requests *)

Arrives == begun < MaxRequests /\ begun' = begun + 1

Start(q, work) == job[q] = Idle /\ job' = [job EXCEPT ![q] = work]

In(q, phase) == job[q].phase = phase

Advance(q, phase) == job' = [job EXCEPT ![q].phase = phase] /\ UNCHANGED begun

Done(q) == job' = [job EXCEPT ![q] = Idle] /\ UNCHANGED begun

\* An upload's outcome is not known: bounded history of those that may leave a
\* file without a document or a document without its file.
Unclear(i) ==
    /\ unclear' = unclear \cup {i}
    /\ Cardinality(unclear') <= MaxUnclear

Erasing(u) == \E q \in Requests : job[q].phase \in {"selected", "anonymized"} /\ job[q].target = u

\* A transaction of u leaves a trace of u: history of those an erasure may miss.
Writes(u) == late' = IF u \notin users \/ Erasing(u) THEN late \cup {u} ELSE late

-----------------------------------------------------------------------------
(* Upload: quota, file, row *)

\* POST /api/documents/upload.
BeginUpload(q, u, size, class) ==
    /\ MayUpload(u)
    /\ Start(q, [phase |-> "quota", by |-> u, id |-> begun + 1, size |-> size, class |-> class,
                 version |-> 1, parent |-> 0])
    /\ UNCHANGED <<users, store, trail, unclear, late>>

\* Mutant: the new version hangs off the version it replaces.
VersionOfVersion(q, u, size, class, d) ==
    /\ MayUpload(u)
    /\ Start(q, [phase |-> "quota", by |-> u, id |-> begun + 1, size |-> size, class |-> class,
                 version |-> d.version + 1, parent |-> d.id])
    /\ d \in VisibleTo(u)
    /\ UNCHANGED <<users, store, trail, unclear, late>>

\* POST /api/documents/:id/upload: nextVersionFor reads the document, deleted or
\* not, in a transaction of its own; the new version hangs off the root.
BeginVersion(q, u, size, class, d) ==
    /\ MayUpload(u)
    /\ Start(q, [phase |-> "quota", by |-> u, id |-> begun + 1, size |-> size, class |-> class,
                 version |-> d.version + 1,
                 parent |-> IF d.parent = 0 THEN d.id ELSE d.parent])
    /\ d \in VisibleTo(u)
    /\ UNCHANGED <<users, store, trail, unclear, late>>

\* SUM(size_bytes) of the documents the caller sees and nobody deleted.
Usage(u) == MapThenSumSet(LAMBDA d : d.size, {d \in VisibleTo(u) : ~d.deleted})

\* Mutant: the size of the file at hand is not counted.
WithinQuota(q) == Usage(job[q].by) <= Quota

\* enforceStorageQuota.
FitsQuota(q) == Usage(job[q].by) + job[q].size <= Quota

\* The quota and the checks of ingestDocument refuse the upload, or storeEncrypted
\* writes a file under a fresh random name, which nobody else looks at until the
\* row is there: the read of the quota is what other requests can interfere with.
StoreFile(q) ==
    /\ In(q, "quota")
    /\ IF FitsQuota(q) /\ job[q].class <= clearanceForRole(job[q].by)
         THEN files' = files \cup {job[q].id} /\ Advance(q, "insert")
         ELSE UNCHANGED files /\ Done(q)
    /\ UNCHANGED <<users, documents, chunks, trail, unclear, late>>

\* INSERT INTO documents: the foreign key locks the uploader's row until the
\* transaction ends, and fails if the account is gone.
InsertDocument(q) ==
    /\ In(q, "insert")
    /\ Advance(q, IF job[q].by \in users THEN "inserted" ELSE "cleanup")
    /\ UNCHANGED <<users, store, trail, unclear, late>>

\* COMMIT publishes the row, its chunks and the access-log entry together.
Publish(q) ==
    LET u == job[q]
    IN  /\ documents' = documents \cup
               {[id |-> u.id, author |-> u.by, uploadedBy |-> u.by, size |-> u.size,
                 class |-> u.class, version |-> u.version, parent |-> u.parent,
                 hold |-> FALSE, deleted |-> FALSE]}
        /\ chunks' = chunks \cup {u.id}
        /\ accessLog' = accessLog \cup {u.by}
        /\ Writes(u.by)
        /\ UNCHANGED <<users, files, messages>>

CommitUpload(q) ==
    /\ In(q, "inserted")
    /\ Publish(q)
    /\ Done(q)
    /\ UNCHANGED unclear

\* The COMMIT takes effect and the connection is lost before its answer: for
\* ingestDocument the transaction has failed.
CommitUnanswered(q) ==
    /\ In(q, "inserted")
    /\ Publish(q)
    /\ Advance(q, "cleanup")
    /\ Unclear(job[q].id)

\* Mutant: no catch block.
FailLeavingFile(q) ==
    /\ In(q, "insert") \/ In(q, "inserted")
    /\ Done(q)
    /\ UNCHANGED <<users, store, trail, unclear, late>>

\* A statement fails and the transaction rolls back.
UploadFails(q) ==
    /\ In(q, "insert") \/ In(q, "inserted")
    /\ Advance(q, "cleanup")
    /\ UNCHANGED <<users, store, trail, unclear, late>>

\* The catch block: deleteStored, whose own failure is swallowed.
RemoveFile(q) ==
    /\ In(q, "cleanup")
    /\ \/ files' = files \ {job[q].id} /\ UNCHANGED unclear
       \/ Unclear(job[q].id) /\ UNCHANGED files
    /\ Done(q)
    /\ UNCHANGED <<users, documents, chunks, trail, late>>

Upload(q) ==
    \/ StoreFile(q) \/ InsertDocument(q)
    \/ CommitUpload(q) \/ CommitUnanswered(q) \/ UploadFails(q) \/ RemoveFile(q)

-----------------------------------------------------------------------------
(* Deletion and legal hold *)

\* softDeleteDocument, first statement: the row is read without a lock, and the
\* hold is judged on what was read.  An absent or held document ends the request.
BeginDelete(q, u, d) ==
    /\ MayDelete(u)
    /\ Start(q, [phase |-> "delete", by |-> u, id |-> d.id])
    /\ d \in VisibleTo(u) /\ ~d.hold
    /\ UNCHANGED <<users, store, trail, unclear, late>>

\* UPDATE ... WHERE id, the access-log entry, COMMIT.
CommitDelete(q) ==
    /\ In(q, "delete")
    /\ documents' = {IF d.id = job[q].id THEN [d EXCEPT !.deleted = TRUE] ELSE d : d \in documents}
    /\ accessLog' = accessLog \cup {job[q].by}
    /\ Writes(job[q].by)
    /\ Done(q)
    /\ UNCHANGED <<users, chunks, files, messages, unclear>>

\* setLegalHold: one UPDATE of a visible document that is not deleted.
SetLegalHold(u, d, hold) ==
    /\ MayHold(u, hold)
    /\ d \in VisibleTo(u) /\ ~d.deleted
    /\ documents' = (documents \ {d}) \cup {[d EXCEPT !.hold = hold]}
    /\ UNCHANGED <<users, chunks, files, trail, job, unclear, late>>

-----------------------------------------------------------------------------
(* Chat *)

\* searchDocuments, whose transaction logs the query.
BeginChat(q, u) ==
    /\ Start(q, [phase |-> "chat", by |-> u])
    /\ accessLog' = accessLog \cup {u}
    /\ Writes(u)
    /\ UNCHANGED <<users, store, messages, unclear>>

\* persistTurn, after the answer was streamed: best effort.  A new conversation
\* wants the account, by its foreign key; one that is continued does not.
PersistTurn(q) ==
    /\ In(q, "chat")
    /\ \/ /\ messages' = messages \cup {job[q].by}
          /\ Writes(job[q].by)
       \/ UNCHANGED <<messages, late>>
    /\ Done(q)
    /\ UNCHANGED <<users, store, accessLog, unclear>>

-----------------------------------------------------------------------------
(* Erasure: one transaction, three snapshots that matter *)

\* SELECT the target's documents.
BeginErase(q, u, target) ==
    /\ MayErase(u)
    /\ Start(q, [phase |-> "selected", by |-> u, target |-> target,
                 docs |-> {d.id : d \in {e \in VisibleTo(u) : e.uploadedBy = target}},
                 logged |-> FALSE, turns |-> FALSE])
    /\ UNCHANGED <<users, store, trail, unclear, late>>

\* DELETE the messages, gdpr_anonymize_access_log: each takes the rows committed
\* by then, and waits for another erasure that has locked them.  Nobody reads
\* these tables, so the rows are set aside at once and put back if the
\* transaction fails.
Anonymize(q) ==
    /\ In(q, "selected")
    /\ \A p \in Requests :
          In(p, "anonymized") /\ job[p].target = job[q].target => ~job[p].logged /\ ~job[p].turns
    /\ LET target == job[q].target
       IN  /\ job' = [job EXCEPT ![q].phase = "anonymized", ![q].logged = target \in accessLog,
                                 ![q].turns = target \in messages]
           /\ accessLog' = accessLog \ {target}
           /\ messages' = messages \ {target}
    /\ UNCHANGED <<users, store, begun, unclear, late>>

\* DELETE the account, once no open upload holds its row (ON DELETE SET NULL
\* clears uploaded_by), and COMMIT the whole: the selected documents are
\* soft-deleted and their chunks gone.
CommitErase(q) ==
    /\ In(q, "anonymized")
    /\ LET e == job[q]
       IN  /\ \A p \in Requests : ~(In(p, "inserted") /\ job[p].by = e.target)
           /\ users' = users \ {e.target}
           /\ documents' =
                  {[d EXCEPT !.deleted = @ \/ d.id \in e.docs,
                             !.uploadedBy = IF @ = e.target THEN NoUser ELSE @] : d \in documents}
           /\ chunks' = chunks \ e.docs
    /\ Done(q)
    /\ UNCHANGED <<files, trail, unclear, late>>

-----------------------------------------------------------------------------
\* The request dies or its transaction fails, in any phase.
RequestDies(q) ==
    /\ job[q] # Idle
    /\ Done(q)
    /\ IF job[q].phase \in {"insert", "inserted", "cleanup"}
         THEN Unclear(job[q].id) ELSE UNCHANGED unclear
    /\ IF In(q, "anonymized")
         THEN /\ accessLog' = IF job[q].logged THEN accessLog \cup {job[q].target} ELSE accessLog
              /\ messages' = IF job[q].turns THEN messages \cup {job[q].target} ELSE messages
         ELSE UNCHANGED <<accessLog, messages>>
    /\ UNCHANGED <<users, store, late>>

\* A request arrives from a user who has an account.
NewRequest ==
    /\ Arrives
    /\ \E u \in users :
          \/ \E q \in Requests :
                \/ \E size \in Sizes, class \in Classes :
                      \/ BeginUpload(q, u, size, class)
                      \/ \E d \in documents : BeginVersion(q, u, size, class, d)
                \/ \E d \in documents : BeginDelete(q, u, d)
                \/ BeginChat(q, u)
                \/ \E target \in Users : BeginErase(q, u, target)
          \/ \E d \in documents, hold \in BOOLEAN : SetLegalHold(u, d, hold)

Next ==
    \/ NewRequest
    \/ \E q \in Requests :
          \/ Upload(q)
          \/ CommitDelete(q)
          \/ PersistTurn(q)
          \/ Anonymize(q)
          \/ CommitErase(q)
          \/ RequestDies(q)

Spec == Init /\ [][Next]_vars
-----------------------------------------------------------------------------
(* Properties *)

\* Every variable keeps its type.
TypeOK ==
    /\ users \subseteq Users
    /\ documents \subseteq Rows
    /\ chunks \subseteq Ids
    /\ files \subseteq Ids
    /\ begun \in 0 .. MaxRequests
    /\ accessLog \subseteq Users
    /\ messages \subseteq Users
    /\ job \in [Requests -> {Idle} \cup Uploads \cup Deletions \cup Chats \cup Erasures]
    /\ unclear \subseteq Ids
    /\ late \subseteq Users

Running == {job[q].id : q \in {p \in Requests : job[p].phase \in {"insert", "inserted", "cleanup"}}}

\* Every file on disk belongs to a document or to an upload under way, and every
\* document has its file, except where a request died with its upload or its
\* COMMIT was never answered: a failed database write leaves no file behind
\* (ingest.ts:81), and no path removes the file of a stored document.
FilesMatchDocuments ==
    \A i \in Ids \ unclear :
        i \in files <=> i \in {d.id : d \in documents} \cup Running

LowestClearance == Min({Rank[u] : u \in {v \in Users : MayUpload(v)}})

\* The quota is checked before the upload is stored, and nothing reserves the
\* space: concurrent uploads may exceed it together, but never by more than one
\* largest file for each other request in flight, counting what every uploader
\* sees (storageQuota.ts:41-52, documents.ts:44-57).
QuotaOvershootIsBounded ==
    MapThenSumSet(LAMBDA d : d.size,
                  {d \in documents : ~d.deleted /\ d.class <= LowestClearance})
        <= Quota + (Cardinality(Requests) - 1) * Max(Sizes)

\* A version hangs off the root of its document and follows another version of
\* it, however uploads, deletions and erasures interleave with the read of the
\* version it replaces; a family is a tree of depth one, so that getVersions finds
\* all of it (ingest.ts:141-153, lifecycle.ts:53-65).
VersionsFormChains ==
    \A d \in documents :
        IF d.version = 1 THEN d.parent = 0
        ELSE /\ \E root \in documents : root.id = d.parent /\ root.version = 1
             /\ \E p \in documents :
                   /\ p.version = d.version - 1
                   /\ p.id = d.parent \/ p.parent = d.parent

\* Live documents, stored chunks, log entries and chat turns that lead to u.
Traces(u) ==
    {d \in documents : d.author = u /\ (~d.deleted \/ d.id \in chunks \/ d.uploadedBy = u)}
        \cup ((accessLog \cup messages) \cap {u})

\* Nothing of an erased user is left unless a request of that very user wrote
\* while the erasure was running or after it: what was there when the erasure
\* began is gone, whatever ran beside it (erasure.ts:13-19).
ErasureMissesOnlyOverlaps == \A u \in Users \ users : Traces(u) # {} => u \in late

\* What PRIVACY_AND_GDPR.md:57 says of an erasure: it "soft-deletes the user's
\* documents, hard-deletes their chunks+embeddings".  It does not hold for an
\* upload under way: the erasure selected the documents before it committed.
ErasureIsComplete ==
    \A d \in documents : d.author \notin users => d.deleted /\ d.id \notin chunks

\* What lifecycle.ts:67 says of softDeleteDocument: "Blocked when legal_hold is
\* set".  It does not hold when the hold is set between the read and the update.
HoldBlocksDeletion ==
    [][\A q \in Requests :
          CommitDelete(q) => \A d \in documents : d.id = job[q].id => ~d.hold]_vars
=============================================================================
