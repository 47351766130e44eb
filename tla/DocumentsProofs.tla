-------------------------- MODULE DocumentsProofs --------------------------
(***************************************************************************)
(* Proofs about Documents for any users and ranks, any number of           *)
(* concurrent requests and any bounds.  FileInv says which request owns    *)
(* which id, and so which file; FamilyInv that the document a new version  *)
(* was read from stays in place until the version is stored; ErasureInv    *)
(* what an erasure under way has already seen to, unless its target wrote  *)
(* meanwhile; QuotaInv that beside the upload that was checked last, every *)
(* upload under way adds at most one largest file to what it counted.      *)
(***************************************************************************)
EXTENDS Documents, FiniteSetTheorems, NaturalsInduction, WellFoundedInduction, TLAPS

-----------------------------------------------------------------------------
(* Ids and files *)

Uploading(q) == job[q].phase \in {"quota", "insert", "inserted", "cleanup"}

\* An id belongs to one request, and to no document before its COMMIT.
IdsAreFresh ==
    /\ \A d \in documents : d.id <= begun
    /\ \A q \in Requests : Uploading(q) => job[q].id <= begun
    /\ \A p, q \in Requests : Uploading(p) /\ Uploading(q) /\ job[p].id = job[q].id => p = q
    /\ \A i \in files \cup chunks \cup unclear : i <= begun
    /\ \A q \in Requests : job[q].phase \in {"quota", "insert", "inserted"} =>
          job[q].id \notin unclear \cup chunks \cup {d.id : d \in documents}

\* The catch block is entered without a document, unless the COMMIT's answer
\* was lost.
CleanupIsClean ==
    \A q \in Requests : job[q].phase = "cleanup" /\ job[q].id \notin unclear =>
        job[q].id \notin {d.id : d \in documents}

FileInv == TypeOK /\ IdsAreFresh /\ CleanupIsClean /\ FilesMatchDocuments

-----------------------------------------------------------------------------
(* Families of versions *)

\* What a version numbered v under parent r hangs off is stored.
HasFamily(v, r) ==
    IF v = 1 THEN r = 0
    ELSE /\ \E root \in documents : root.id = r /\ root.version = 1
         /\ \E p \in documents : p.version = v - 1 /\ (p.id = r \/ p.parent = r)

PendingVersions ==
    \A q \in Requests : Uploading(q) => HasFamily(job[q].version, job[q].parent)

FamilyInv == VersionsFormChains /\ PendingVersions

-----------------------------------------------------------------------------
(* Erasure *)

\* Nothing of document d is live.
Buried(d) == d.deleted /\ d.id \notin chunks

Targets(q, u) == job[q].phase \in {"selected", "anonymized"} /\ job[q].target = u
Anonymized(q, u) == job[q].phase = "anonymized" /\ job[q].target = u

\* An uploader is cleared only by an erasure, which buries the document.
ClearedIsBuried(u) == \A d \in documents : d.author = u => d.uploadedBy = u \/ Buried(d)

\* What is not buried yet is selected.
SelectionIsComplete(u) ==
    \A q \in Requests, d \in documents :
        Targets(q, u) /\ d.author = u => d.id \in job[q].docs \/ Buried(d)

\* Nothing has come back since the log and the chat were cleaned.
CleanedStaysClean(u) ==
    (\E q \in Requests : Anonymized(q, u)) => u \notin accessLog \cup messages

\* Only one of several erasures of the same user has anything to put back.
OneRestores(u) ==
    \A p, q \in Requests :
        Anonymized(p, u) /\ Anonymized(q, u) /\ p # q => ~job[p].logged /\ ~job[p].turns

\* An erased user has left no trace, and no erasure will bring one back.
ErasedIsGone(u) ==
    u \notin users =>
        /\ \A d \in documents : d.author = u => Buried(d) /\ d.uploadedBy # u
        /\ u \notin accessLog \cup messages
        /\ \A q \in Requests : Anonymized(q, u) => ~job[q].logged /\ ~job[q].turns

Seen(u) ==
    /\ ClearedIsBuried(u)
    /\ SelectionIsComplete(u)
    /\ CleanedStaysClean(u)
    /\ OneRestores(u)
    /\ ErasedIsGone(u)

ErasureInv == \A u \in Users \ late : Seen(u)

-----------------------------------------------------------------------------
(* Types *)

Jobs == {Idle} \cup Uploads \cup Deletions \cup Chats \cup Erasures

\* The phase of a request says what it is.
LEMMA JobKinds ==
    ASSUME TypeOK, NEW q \in Requests
    PROVE  /\ job[q] \in Jobs
           /\ Uploading(q) => job[q] \in Uploads
           /\ job[q].phase = "delete" => job[q] \in Deletions
           /\ job[q].phase = "chat" => job[q] \in Chats
           /\ job[q].phase \in {"selected", "anonymized"} => job[q] \in Erasures
           /\ job[q] = Idle <=> job[q].phase = "idle"
<1>1. job[q] \in Jobs
  BY DEF TypeOK, Jobs
<1>2. CASE job[q] = Idle
  BY <1>1, <1>2 DEF Idle, Uploading
<1>3. CASE job[q] \in Uploads
  BY <1>1, <1>3 DEF Idle, Uploads, Uploading
<1>4. CASE job[q] \in Deletions
  BY <1>1, <1>4 DEF Idle, Deletions, Uploading
<1>5. CASE job[q] \in Chats
  BY <1>1, <1>5 DEF Idle, Chats, Uploading
<1>6. CASE job[q] \in Erasures
  BY <1>1, <1>6 DEF Idle, Erasures, Uploading
<1> QED  BY <1>1, <1>2, <1>3, <1>4, <1>5, <1>6 DEF Jobs

\* One request changes what it is doing, the others go on.
JobSet(q, j) ==
    /\ job'[q] = j
    /\ \A p \in Requests : p # q => job'[p] = job[p]

LEMMA SetJobType ==
    ASSUME TypeOK, NEW q \in Requests, NEW j \in Jobs, job' = [job EXCEPT ![q] = j]
    PROVE  job' \in [Requests -> Jobs] /\ JobSet(q, j)
BY DEF TypeOK, JobSet, Jobs

LEMMA DoneSets ==
    ASSUME TypeOK, NEW q \in Requests, Done(q)
    PROVE  job' \in [Requests -> Jobs] /\ JobSet(q, Idle) /\ begun' = begun
BY SetJobType DEF Done, Jobs

LEMMA StartSets ==
    ASSUME TypeOK, NEW q \in Requests, NEW j \in Jobs, Start(q, j)
    PROVE  job' \in [Requests -> Jobs] /\ JobSet(q, j) /\ job[q] = Idle
BY SetJobType DEF Start

\* An upload goes on to another phase.
LEMMA AdvanceSets ==
    ASSUME TypeOK, NEW q \in Requests, Uploading(q),
           NEW phase \in {"quota", "insert", "inserted", "cleanup"}, Advance(q, phase)
    PROVE  /\ job' \in [Requests -> Jobs]
           /\ begun' = begun
           /\ \A p \in Requests : p # q => job'[p] = job[p]
           /\ job'[q] \in Uploads /\ job'[q].phase = phase
           /\ job'[q].id = job[q].id /\ job'[q].by = job[q].by
           /\ job'[q].version = job[q].version /\ job'[q].parent = job[q].parent
           /\ job'[q].size = job[q].size /\ job'[q].class = job[q].class
<1> DEFINE j == [job[q] EXCEPT !.phase = phase]
<1>1. job[q] \in Uploads
  BY JobKinds
<1>2. /\ j \in Uploads /\ j.phase = phase /\ j.id = job[q].id /\ j.by = job[q].by
      /\ j.version = job[q].version /\ j.parent = job[q].parent
      /\ j.size = job[q].size /\ j.class = job[q].class
  BY <1>1 DEF Uploads
<1>3. job' = [job EXCEPT ![q] = j] /\ begun' = begun
  BY DEF Advance
<1>4. j \in Jobs
  BY <1>2 DEF Jobs
<1> HIDE DEF j
<1> QED  BY <1>2, <1>3, <1>4, SetJobType DEF JobSet

\* The row a COMMIT publishes.
NewDocument(u) ==
    [id |-> u.id, author |-> u.by, uploadedBy |-> u.by, size |-> u.size,
     class |-> u.class, version |-> u.version, parent |-> u.parent,
     hold |-> FALSE, deleted |-> FALSE]

LEMMA NewDocumentType ==
    ASSUME TypeOK, NEW q \in Requests, Uploading(q)
    PROVE  NewDocument(job[q]) \in Rows /\ job[q].id \in Ids /\ job[q].by \in Users
<1>1. job[q] \in Uploads
  BY JobKinds
<1> QED  BY <1>1 DEF Uploads, NewDocument, Rows

LEMMA InitType == Init => TypeOK
BY DocumentsAssumption DEF Init, TypeOK, Ids

LEMMA LateType ==
    ASSUME TypeOK, NEW u \in Users, Writes(u)
    PROVE  late' \subseteq Users
BY DEF TypeOK, Writes

\* A request that arrives.
LEMMA NewRequestType == TypeOK /\ NewRequest => TypeOK'
<1> SUFFICES ASSUME TypeOK, NewRequest PROVE TypeOK'
  OBVIOUS
<1>0. /\ begun \in 0 .. MaxRequests /\ begun < MaxRequests /\ begun' = begun + 1
      /\ MaxRequests \in Nat /\ users \subseteq Users /\ documents \subseteq Rows
  BY DocumentsAssumption DEF NewRequest, Arrives, TypeOK
<1>1. begun' \in 0 .. MaxRequests /\ begun + 1 \in Ids
  BY <1>0 DEF Ids
<1>2. SUFFICES ASSUME UNCHANGED <<users, files, chunks, messages, unclear>>
               PROVE  /\ documents' \subseteq Rows /\ accessLog' \subseteq Users
                      /\ late' \subseteq Users /\ job' \in [Requests -> Jobs]
  <2>1. UNCHANGED <<users, files, chunks, messages, unclear>>
    BY DEF NewRequest, BeginUpload, BeginVersion, BeginDelete, BeginChat, BeginErase,
           SetLegalHold, store, trail
  <2> QED  BY <1>1, <1>2, <2>1 DEF TypeOK, Jobs
<1>3. ASSUME NEW u \in users, NEW q \in Requests, NEW size \in Sizes, NEW class \in Classes,
             BeginUpload(q, u, size, class)
      PROVE  /\ documents' \subseteq Rows /\ accessLog' \subseteq Users
             /\ late' \subseteq Users /\ job' \in [Requests -> Jobs]
  <2> DEFINE j == [phase |-> "quota", by |-> u, id |-> begun + 1, size |-> size,
                   class |-> class, version |-> 1, parent |-> 0]
  <2>1. j \in Jobs
    BY <1>0, <1>1 DEF Uploads, Jobs
  <2>2. Start(q, j) /\ UNCHANGED <<documents, accessLog, late>>
    BY <1>3 DEF BeginUpload, store, trail
  <2> HIDE DEF j
  <2> QED  BY <1>0, <2>1, <2>2, StartSets DEF TypeOK
<1>4. ASSUME NEW u \in users, NEW q \in Requests, NEW size \in Sizes, NEW class \in Classes,
             NEW d \in documents, BeginVersion(q, u, size, class, d)
      PROVE  /\ documents' \subseteq Rows /\ accessLog' \subseteq Users
             /\ late' \subseteq Users /\ job' \in [Requests -> Jobs]
  <2> DEFINE j == [phase |-> "quota", by |-> u, id |-> begun + 1, size |-> size,
                   class |-> class, version |-> d.version + 1,
                   parent |-> IF d.parent = 0 THEN d.id ELSE d.parent]
  <2>1. d.version + 1 \in Nat \ {0} /\ (IF d.parent = 0 THEN d.id ELSE d.parent) \in Ids \cup {0}
    BY <1>0 DEF Rows
  <2>2. j \in Jobs
    BY <1>0, <1>1, <2>1 DEF Uploads, Jobs
  <2>3. Start(q, j) /\ UNCHANGED <<documents, accessLog, late>>
    BY <1>4 DEF BeginVersion, store, trail
  <2> HIDE DEF j
  <2> QED  BY <1>0, <2>2, <2>3, StartSets DEF TypeOK
<1>5. ASSUME NEW u \in users, NEW q \in Requests, NEW d \in documents, BeginDelete(q, u, d)
      PROVE  /\ documents' \subseteq Rows /\ accessLog' \subseteq Users
             /\ late' \subseteq Users /\ job' \in [Requests -> Jobs]
  <2> DEFINE j == [phase |-> "delete", by |-> u, id |-> d.id]
  <2>1. j \in Jobs
    BY <1>0 DEF Deletions, Jobs, Rows
  <2>2. Start(q, j) /\ UNCHANGED <<documents, accessLog, late>>
    BY <1>5 DEF BeginDelete, store, trail
  <2> HIDE DEF j
  <2> QED  BY <1>0, <2>1, <2>2, StartSets DEF TypeOK
<1>6. ASSUME NEW u \in users, NEW q \in Requests, BeginChat(q, u)
      PROVE  /\ documents' \subseteq Rows /\ accessLog' \subseteq Users
             /\ late' \subseteq Users /\ job' \in [Requests -> Jobs]
  <2> DEFINE j == [phase |-> "chat", by |-> u]
  <2>1. j \in Jobs
    BY <1>0 DEF Chats, Jobs
  <2>2. /\ Start(q, j) /\ UNCHANGED documents /\ accessLog' = accessLog \cup {u}
        /\ late' \subseteq Users
    BY <1>0, <1>6, LateType DEF BeginChat, store
  <2> HIDE DEF j
  <2> QED  BY <1>0, <2>1, <2>2, StartSets DEF TypeOK
<1>7. ASSUME NEW u \in users, NEW q \in Requests, NEW target \in Users, BeginErase(q, u, target)
      PROVE  /\ documents' \subseteq Rows /\ accessLog' \subseteq Users
             /\ late' \subseteq Users /\ job' \in [Requests -> Jobs]
  <2> DEFINE docs == {d.id : d \in {e \in VisibleTo(u) : e.uploadedBy = target}}
             j == [phase |-> "selected", by |-> u, target |-> target, docs |-> docs,
                   logged |-> FALSE, turns |-> FALSE]
  <2>1. docs \in SUBSET Ids
    BY <1>0 DEF VisibleTo, Rows
  <2>2. Start(q, j) /\ UNCHANGED <<documents, accessLog, late>>
    BY <1>7 DEF BeginErase, store, trail
  <2> HIDE DEF docs
  <2>3. j \in Jobs
    BY <1>0, <2>1 DEF Erasures, Jobs
  <2> HIDE DEF j
  <2> QED  BY <1>0, <2>2, <2>3, StartSets DEF TypeOK
<1>8. ASSUME NEW u \in users, NEW d \in documents, NEW hold \in BOOLEAN, SetLegalHold(u, d, hold)
      PROVE  /\ documents' \subseteq Rows /\ accessLog' \subseteq Users
             /\ late' \subseteq Users /\ job' \in [Requests -> Jobs]
  <2>1. [d EXCEPT !.hold = hold] \in Rows
    BY <1>0 DEF Rows
  <2> QED  BY <1>0, <1>8, <2>1 DEF SetLegalHold, trail, TypeOK, Jobs
<1> QED  BY <1>3, <1>4, <1>5, <1>6, <1>7, <1>8 DEF NewRequest

\* A step of an upload.
LEMMA UploadType == ASSUME TypeOK, NEW q \in Requests, Upload(q) PROVE TypeOK'
<1> DEFINE Kept == /\ UNCHANGED users /\ messages' = messages /\ begun' = begun
                   /\ job' \in [Requests -> Jobs]
<1>1. ASSUME StoreFile(q) PROVE TypeOK'
  <2>1. Uploading(q)
    BY <1>1 DEF StoreFile, In, Uploading
  <2>2. Kept
    <3>1. Advance(q, "insert") \/ Done(q)
      BY <1>1 DEF StoreFile
    <3> QED  BY <1>1, <2>1, <3>1, AdvanceSets, DoneSets DEF StoreFile, trail
  <2>3. files' \subseteq Ids
    BY <1>1, <2>1, NewDocumentType DEF StoreFile, TypeOK
  <2> QED  BY <1>1, <2>2, <2>3 DEF StoreFile, trail, TypeOK, Jobs
<1>2. ASSUME InsertDocument(q) PROVE TypeOK'
  <2>1. Uploading(q)
    BY <1>2 DEF InsertDocument, In, Uploading
  <2>2. Kept
    BY <1>2, <2>1, AdvanceSets DEF InsertDocument, trail
  <2> QED  BY <1>2, <2>2 DEF InsertDocument, trail, store, TypeOK, Jobs
<1>3. ASSUME CommitUpload(q) \/ CommitUnanswered(q) PROVE TypeOK'
  <2>1. Uploading(q)
    BY <1>3 DEF CommitUpload, CommitUnanswered, In, Uploading
  <2>2. Kept
    BY <1>3, <2>1, AdvanceSets, DoneSets DEF CommitUpload, CommitUnanswered, Publish
  <2>3. /\ documents' = documents \cup {NewDocument(job[q])} /\ chunks' = chunks \cup {job[q].id}
        /\ accessLog' = accessLog \cup {job[q].by} /\ Writes(job[q].by) /\ files' = files
    BY <1>3 DEF CommitUpload, CommitUnanswered, Publish, NewDocument
  <2>4. unclear' \subseteq Ids
    BY <1>3, <2>1, NewDocumentType DEF CommitUpload, CommitUnanswered, Unclear, TypeOK
  <2> QED  BY <2>1, <2>2, <2>3, <2>4, NewDocumentType, LateType DEF TypeOK, Jobs
<1>4. ASSUME UploadFails(q) PROVE TypeOK'
  <2>1. Uploading(q)
    BY <1>4 DEF UploadFails, In, Uploading
  <2>2. Kept
    BY <1>4, <2>1, AdvanceSets DEF UploadFails, trail
  <2> QED  BY <1>4, <2>2 DEF UploadFails, trail, store, TypeOK, Jobs
<1>5. ASSUME RemoveFile(q) PROVE TypeOK'
  <2>1. Uploading(q)
    BY <1>5 DEF RemoveFile, In, Uploading
  <2>2. Kept
    BY <1>5, DoneSets DEF RemoveFile, trail
  <2>3. files' \subseteq Ids /\ unclear' \subseteq Ids
    BY <1>5, <2>1, NewDocumentType DEF RemoveFile, Unclear, TypeOK
  <2> QED  BY <1>5, <2>2, <2>3 DEF RemoveFile, trail, TypeOK, Jobs
<1> QED  BY <1>1, <1>2, <1>3, <1>4, <1>5 DEF Upload

\* A step of any other request.
LEMMA OtherType ==
    ASSUME TypeOK, NEW q \in Requests,
           \/ CommitDelete(q) \/ PersistTurn(q) \/ Anonymize(q)
           \/ CommitErase(q) \/ RequestDies(q)
    PROVE  TypeOK'
<1>1. ASSUME CommitDelete(q) PROVE TypeOK'
  <2>1. job[q] \in Deletions
    BY <1>1, JobKinds DEF CommitDelete, In
  <2>2. documents' \subseteq Rows
    BY <1>1 DEF CommitDelete, TypeOK, Rows
  <2>3. job[q].by \in Users
    BY <2>1 DEF Deletions
  <2>4. accessLog' \subseteq Users /\ late' \subseteq Users
    BY <1>1, <2>3, LateType DEF CommitDelete, TypeOK
  <2> QED  BY <1>1, <2>2, <2>4, DoneSets DEF CommitDelete, TypeOK, Jobs
<1>2. ASSUME PersistTurn(q) PROVE TypeOK'
  <2>1. job[q] \in Chats
    BY <1>2, JobKinds DEF PersistTurn, In
  <2>2. job[q].by \in Users
    BY <2>1 DEF Chats
  <2>3. messages' \subseteq Users /\ late' \subseteq Users
    BY <1>2, <2>2, LateType DEF PersistTurn, TypeOK
  <2> QED  BY <1>2, <2>3, DoneSets DEF PersistTurn, store, TypeOK, Jobs
<1>3. ASSUME Anonymize(q) PROVE TypeOK'
  <2>1. job[q] \in Erasures
    BY <1>3, JobKinds DEF Anonymize, In
  <2> DEFINE logged == job[q].target \in accessLog
             turns == job[q].target \in messages
             j == [job[q] EXCEPT !.phase = "anonymized", !.logged = logged, !.turns = turns]
  <2>a. logged \in BOOLEAN /\ turns \in BOOLEAN
    OBVIOUS
  <2>3. job' = [job EXCEPT ![q] = j]
    BY <1>3 DEF Anonymize
  <2> HIDE DEF logged, turns
  <2>2. j \in Jobs
    BY <2>1, <2>a DEF Erasures, Jobs
  <2> HIDE DEF j
  <2>4. job' \in [Requests -> Jobs]
    BY <2>2, <2>3, SetJobType
  <2> QED  BY <1>3, <2>4 DEF Anonymize, store, TypeOK, Jobs
<1>4. ASSUME CommitErase(q) PROVE TypeOK'
  <2>1. documents' \subseteq Rows
    <3> DEFINE gone(d) == d.deleted \/ d.id \in job[q].docs
               uploader(d) == IF d.uploadedBy = job[q].target THEN NoUser ELSE d.uploadedBy
               image(d) == [d EXCEPT !.deleted = gone(d), !.uploadedBy = uploader(d)]
    <3>1. documents' = {image(d) : d \in documents}
      BY <1>4 DEF CommitErase
    <3>2. \A d \in documents : gone(d) \in BOOLEAN
      OBVIOUS
    <3>3. \A d \in documents : d \in Rows /\ uploader(d) \in Users \cup {NoUser}
      BY DEF TypeOK, Rows
    <3> HIDE DEF gone, uploader
    <3>4. \A d \in documents : image(d) \in Rows
      BY <3>2, <3>3 DEF Rows
    <3> QED  BY <3>1, <3>4
  <2> QED  BY <1>4, <2>1, DoneSets DEF CommitErase, trail, TypeOK, Jobs
<1>5. ASSUME RequestDies(q) PROVE TypeOK'
  <2>1. unclear' \subseteq Ids
    <3>1. CASE job[q].phase \in {"insert", "inserted", "cleanup"}
      BY <1>5, <3>1, NewDocumentType DEF RequestDies, Unclear, TypeOK, Uploading
    <3> QED  BY <1>5, <3>1 DEF RequestDies, TypeOK
  <2>2. accessLog' \subseteq Users /\ messages' \subseteq Users
    <3>1. CASE In(q, "anonymized")
      <4>1. job[q].target \in Users
        BY <3>1, JobKinds DEF In, Erasures
      <4> QED  BY <1>5, <3>1, <4>1 DEF RequestDies, TypeOK
    <3> QED  BY <1>5, <3>1 DEF RequestDies, TypeOK
  <2> QED  BY <1>5, <2>1, <2>2, DoneSets DEF RequestDies, store, TypeOK, Jobs
<1> QED  BY <1>1, <1>2, <1>3, <1>4, <1>5

LEMMA NextType == TypeOK /\ [Next]_vars => TypeOK'
<1>1. TypeOK /\ UNCHANGED vars => TypeOK'
  BY DEF TypeOK, vars, store, trail
<1> QED  BY <1>1, NewRequestType, UploadType, OtherType DEF Next

-----------------------------------------------------------------------------
(* What the steps that upload nothing do to the documents *)

\* Row e is row d with nothing but its hold, its deletion and its uploader changed.
SameDocument(d, e) ==
    /\ e.id = d.id /\ e.author = d.author
    /\ e.version = d.version /\ e.parent = d.parent
    /\ d.deleted => e.deleted

Rewritten ==
    /\ \A e \in documents' : \E d \in documents : SameDocument(d, e)
    /\ \A d \in documents : \E e \in documents' : SameDocument(d, e)

\* A step of a request that is no upload.
Quiet ==
    /\ Rewritten
    /\ UNCHANGED <<files, unclear>>
    /\ chunks' \subseteq chunks
    /\ begun' \in {begun, begun + 1}
    /\ \A q \in Requests : /\ Uploading(q)' <=> Uploading(q)
                           /\ Uploading(q) => job'[q] = job[q]

LEMMA SameRewritten == documents' = documents => Rewritten
BY DEF Rewritten, SameDocument

LEMMA DeletedRewritten ==
    ASSUME TypeOK, NEW q \in Requests, CommitDelete(q)
    PROVE  Rewritten
<1> DEFINE image(d) == IF d.id = job[q].id THEN [d EXCEPT !.deleted = TRUE] ELSE d
<1>1. documents' = {image(d) : d \in documents}
  BY DEF CommitDelete
<1>2. \A d \in documents : SameDocument(d, image(d))
  BY DEF TypeOK, Rows, SameDocument
<1> HIDE DEF image
<1> QED  BY <1>1, <1>2 DEF Rewritten

LEMMA HeldRewritten ==
    ASSUME TypeOK, NEW u, NEW d \in documents, NEW hold \in BOOLEAN, SetLegalHold(u, d, hold)
    PROVE  Rewritten
<1> DEFINE held == [d EXCEPT !.hold = hold]
<1>1. documents' = (documents \ {d}) \cup {held}
  BY DEF SetLegalHold
<1>2. SameDocument(d, held) /\ \A e \in documents : SameDocument(e, e)
  BY DEF TypeOK, Rows, SameDocument
<1> HIDE DEF held
<1> QED  BY <1>1, <1>2 DEF Rewritten

LEMMA ErasedRewritten ==
    ASSUME TypeOK, NEW q \in Requests, CommitErase(q)
    PROVE  Rewritten
<1> DEFINE image(d) ==
               [d EXCEPT !.deleted = @ \/ d.id \in job[q].docs,
                         !.uploadedBy = IF @ = job[q].target THEN NoUser ELSE @]
<1>1. documents' = {image(d) : d \in documents}
  BY DEF CommitErase
<1>2. \A d \in documents : SameDocument(d, image(d))
  BY DEF TypeOK, Rows, SameDocument
<1> HIDE DEF image
<1> QED  BY <1>1, <1>2 DEF Rewritten

\* A request other than q's upload may start, stop or go on.
LEMMA QuietJob ==
    ASSUME TypeOK, NEW q \in Requests, NEW j, ~Uploading(q), JobSet(q, j),
           j.phase \notin {"quota", "insert", "inserted", "cleanup"}
    PROVE  \A p \in Requests : /\ Uploading(p)' <=> Uploading(p)
                               /\ Uploading(p) => job'[p] = job[p]
BY DEF JobSet, Uploading

LEMMA QuietDone ==
    ASSUME TypeOK, NEW q \in Requests, ~Uploading(q), Done(q)
    PROVE  /\ begun' = begun
           /\ \A p \in Requests : /\ Uploading(p)' <=> Uploading(p)
                                  /\ Uploading(p) => job'[p] = job[p]
<1>1. Idle.phase \notin {"quota", "insert", "inserted", "cleanup"}
  BY DEF Idle
<1> QED  BY <1>1, DoneSets, QuietJob

LEMMA OtherIsQuiet ==
    ASSUME TypeOK, NEW q \in Requests,
           \/ CommitDelete(q) \/ PersistTurn(q) \/ Anonymize(q) \/ CommitErase(q)
           \/ RequestDies(q) /\ job[q].phase \notin {"insert", "inserted", "cleanup", "quota"}
    PROVE  Quiet
<1>1. CASE CommitDelete(q)
  BY <1>1, QuietDone, DeletedRewritten DEF Quiet, CommitDelete, In, Uploading
<1>2. CASE PersistTurn(q)
  BY <1>2, QuietDone, SameRewritten DEF Quiet, PersistTurn, In, Uploading, store
<1>3. CASE Anonymize(q)
  <2> DEFINE j == job'[q]
  <2>1. job[q] \in Erasures /\ ~Uploading(q)
    BY <1>3, JobKinds DEF Anonymize, In, Uploading
  <2>2. /\ \A p \in Requests : p # q => job'[p] = job[p]
        /\ job'[q].phase = "anonymized"
    BY <1>3, <2>1 DEF Anonymize, TypeOK, Erasures
  <2>3. \A p \in Requests : /\ Uploading(p)' <=> Uploading(p)
                            /\ Uploading(p) => job'[p] = job[p]
    BY <2>1, <2>2 DEF Uploading
  <2> QED  BY <1>3, <2>3, SameRewritten DEF Quiet, Anonymize, store
<1>4. CASE CommitErase(q)
  BY <1>4, QuietDone, ErasedRewritten DEF Quiet, CommitErase, In, Uploading
<1>5. CASE RequestDies(q) /\ job[q].phase \notin {"insert", "inserted", "cleanup", "quota"}
  BY <1>5, QuietDone, SameRewritten DEF Quiet, RequestDies, Uploading, store
<1> QED  BY <1>1, <1>2, <1>3, <1>4, <1>5

\* A request that arrives and is no upload.
LEMMA NewQuiet ==
    ASSUME TypeOK, Arrives, NEW u \in Users, NEW q \in Requests,
           \/ \E d \in documents : BeginDelete(q, u, d)
           \/ BeginChat(q, u)
           \/ \E target \in Users : BeginErase(q, u, target)
           \/ \E d \in documents, hold \in BOOLEAN : SetLegalHold(u, d, hold)
    PROVE  Quiet
<1>0. begun' = begun + 1
  BY DEF Arrives
<1>1. ASSUME NEW d \in documents, BeginDelete(q, u, d) PROVE Quiet
  <2> DEFINE j == [phase |-> "delete", by |-> u, id |-> d.id]
  <2>1. /\ job[q] = Idle /\ job' = [job EXCEPT ![q] = j]
    BY <1>1 DEF BeginDelete, Start
  <2>2. JobSet(q, j) /\ ~Uploading(q)
    BY <2>1 DEF JobSet, Uploading, Idle, TypeOK
  <2> QED  BY <1>0, <1>1, <2>2, QuietJob, SameRewritten DEF Quiet, BeginDelete, store
<1>2. CASE BeginChat(q, u)
  <2> DEFINE j == [phase |-> "chat", by |-> u]
  <2>1. /\ job[q] = Idle /\ job' = [job EXCEPT ![q] = j]
    BY <1>2 DEF BeginChat, Start
  <2>2. JobSet(q, j) /\ ~Uploading(q)
    BY <2>1 DEF JobSet, Uploading, Idle, TypeOK
  <2> QED  BY <1>0, <1>2, <2>2, QuietJob, SameRewritten DEF Quiet, BeginChat, store
<1>3. ASSUME NEW target \in Users, BeginErase(q, u, target) PROVE Quiet
  <2> DEFINE j == [phase |-> "selected", by |-> u, target |-> target,
                   docs |-> {e.id : e \in {f \in VisibleTo(u) : f.uploadedBy = target}},
                   logged |-> FALSE, turns |-> FALSE]
  <2>1. /\ job[q] = Idle /\ job' = [job EXCEPT ![q] = j]
    BY <1>3 DEF BeginErase, Start
  <2>2. JobSet(q, j) /\ ~Uploading(q)
    BY <2>1 DEF JobSet, Uploading, Idle, TypeOK
  <2> QED  BY <1>0, <1>3, <2>2, QuietJob, SameRewritten DEF Quiet, BeginErase, store
<1>4. ASSUME NEW d \in documents, NEW hold \in BOOLEAN, SetLegalHold(u, d, hold) PROVE Quiet
  BY <1>0, <1>4, HeldRewritten DEF Quiet, SetLegalHold, Uploading
<1> QED  BY <1>1, <1>2, <1>3, <1>4

-----------------------------------------------------------------------------
(* FileInv is inductive *)

LEMMA InitFileInv == Init => FileInv
<1> SUFFICES ASSUME Init PROVE FileInv
  OBVIOUS
<1>1. \A q \in Requests : job[q] = Idle /\ ~Uploading(q) /\ job[q].phase = "idle"
  BY DEF Init, Idle, Uploading
<1> QED  BY <1>1, InitType DEF Init, FileInv, IdsAreFresh, CleanupIsClean, FilesMatchDocuments,
                               Running

LEMMA QuietKeepsFileInv ==
    ASSUME FileInv, TypeOK', Quiet
    PROVE  FileInv'
<1>0. TypeOK /\ IdsAreFresh /\ CleanupIsClean /\ FilesMatchDocuments /\ begun \in Nat
  BY DEF FileInv, TypeOK
<1>1. {d.id : d \in documents'} = {d.id : d \in documents}
  BY DEF Quiet, Rewritten, SameDocument
<1>2. \A q \in Requests : /\ Uploading(q)' <=> Uploading(q)
                          /\ Uploading(q) => job'[q] = job[q]
                          /\ \A ph \in {"quota", "insert", "inserted", "cleanup"} :
                                job'[q].phase = ph <=> job[q].phase = ph
  BY DEF Quiet, Uploading
<1>3. Running' = Running
  BY <1>2 DEF Running, Uploading
<1>4. IdsAreFresh'
  <2>1. \A i \in Ids : i <= begun => i <= begun'
    BY <1>0 DEF Quiet, Ids
  <2>2. \A d \in documents' : d.id <= begun'
    BY <1>0, <1>1, <2>1 DEF IdsAreFresh, TypeOK, Rows
  <2>3. \A q \in Requests : Uploading(q)' => job'[q].id <= begun'
    BY <1>0, <1>2, <2>1, NewDocumentType DEF IdsAreFresh
  <2>4. \A p, q \in Requests : Uploading(p)' /\ Uploading(q)' /\ job'[p].id = job'[q].id => p = q
    BY <1>0, <1>2 DEF IdsAreFresh
  <2>5. \A i \in files' \cup chunks' \cup unclear' : i <= begun'
    BY <1>0, <2>1 DEF IdsAreFresh, TypeOK, Quiet
  <2>6. \A q \in Requests : job'[q].phase \in {"quota", "insert", "inserted"} =>
            job'[q].id \notin unclear' \cup chunks' \cup {d.id : d \in documents'}
    BY <1>0, <1>1, <1>2 DEF IdsAreFresh, Quiet, Uploading
  <2> QED  BY <2>2, <2>3, <2>4, <2>5, <2>6 DEF IdsAreFresh, Uploading
<1>5. CleanupIsClean'
  BY <1>0, <1>1, <1>2 DEF CleanupIsClean, Quiet, Uploading
<1>6. FilesMatchDocuments'
  BY <1>0, <1>1, <1>3 DEF FilesMatchDocuments, Quiet
<1> QED  BY <1>4, <1>5, <1>6 DEF FileInv

\* A new upload has an id of its own.
LEMMA BeginKeepsFileInv ==
    ASSUME FileInv, TypeOK', Arrives, NEW q \in Requests, NEW j,
           j.phase = "quota", j.id = begun + 1, Start(q, j),
           UNCHANGED <<documents, files, chunks, unclear>>
    PROVE  FileInv'
<1>0. /\ TypeOK /\ IdsAreFresh /\ CleanupIsClean /\ FilesMatchDocuments
      /\ begun \in Nat /\ begun' = begun + 1
  BY DEF FileInv, TypeOK, Arrives
<1>1. job[q] = Idle /\ job'[q] = j /\ \A p \in Requests : p # q => job'[p] = job[p]
  BY <1>0 DEF Start, TypeOK
<1>2. /\ ~Uploading(q) /\ Uploading(q)'
      /\ \A p \in Requests : p # q => (Uploading(p)' <=> Uploading(p))
  BY <1>1 DEF Uploading, Idle
<1>3. Running' = Running
  BY <1>1 DEF Running, Idle
<1>4. \A i \in Ids : i <= begun => i <= begun' /\ i # begun + 1
  BY <1>0 DEF Ids
<1>5. /\ files \subseteq Ids /\ chunks \subseteq Ids /\ unclear \subseteq Ids
      /\ \A d \in documents : d.id \in Ids
      /\ \A p \in Requests : Uploading(p) => job[p].id \in Ids
  BY <1>0, NewDocumentType DEF TypeOK, Rows
<1>6. IdsAreFresh'
  <2>1. \A d \in documents' : d.id <= begun'
    BY <1>0, <1>4, <1>5 DEF IdsAreFresh
  <2>2. \A p \in Requests : Uploading(p)' => job'[p].id <= begun'
    BY <1>0, <1>1, <1>2, <1>4, <1>5 DEF IdsAreFresh
  <2>3. \A p \in Requests : p # q /\ Uploading(p) => job[p].id # begun + 1
    BY <1>0, <1>4, <1>5 DEF IdsAreFresh
  <2>4. \A p, r \in Requests : Uploading(p)' /\ Uploading(r)' /\ job'[p].id = job'[r].id => p = r
    BY <1>0, <1>1, <1>2, <2>3 DEF IdsAreFresh
  <2>5. \A i \in files' \cup chunks' \cup unclear' : i <= begun'
    BY <1>0, <1>4, <1>5 DEF IdsAreFresh
  <2>6. begun + 1 \notin unclear \cup chunks \cup {d.id : d \in documents}
    BY <1>0, <1>4, <1>5 DEF IdsAreFresh
  <2>7. \A p \in Requests : job'[p].phase \in {"quota", "insert", "inserted"} =>
            job'[p].id \notin unclear' \cup chunks' \cup {d.id : d \in documents'}
    BY <1>0, <1>1, <2>6 DEF IdsAreFresh
  <2> QED  BY <2>1, <2>2, <2>4, <2>5, <2>7 DEF IdsAreFresh, Uploading
<1>7. CleanupIsClean'
  BY <1>0, <1>1 DEF CleanupIsClean
<1>8. FilesMatchDocuments'
  BY <1>0, <1>3 DEF FilesMatchDocuments
<1> QED  BY <1>6, <1>7, <1>8 DEF FileInv

\* A step of request q that leaves every other upload alone: what it has to show
\* is about its own id.
LEMMA OwnStepKeepsFileInv ==
    ASSUME FileInv, TypeOK', NEW q \in Requests, Uploading(q),
           \A p \in Requests : p # q => job'[p] = job[p],
           begun' = begun,
           Uploading(q)' => job'[q].id = job[q].id,
           files' \ {job[q].id} = files \ {job[q].id},
           chunks' \ {job[q].id} = chunks \ {job[q].id},
           unclear' \ {job[q].id} = unclear \ {job[q].id},
           {d.id : d \in documents'} \ {job[q].id} = {d.id : d \in documents} \ {job[q].id},
           job'[q].phase \in {"quota", "insert", "inserted"} =>
               job[q].id \notin unclear' \cup chunks' \cup {d.id : d \in documents'},
           job'[q].phase = "cleanup" /\ job[q].id \notin unclear' =>
               job[q].id \notin {d.id : d \in documents'},
           job[q].id \notin unclear' =>
               (job[q].id \in files' <=>
                   \/ job[q].id \in {d.id : d \in documents'}
                   \/ job'[q].phase \in {"insert", "inserted", "cleanup"})
    PROVE  FileInv'
<1> DEFINE own == job[q].id
           docIds == {d.id : d \in documents}
           newIds == {d.id : d \in documents'}
<1>0. TypeOK /\ IdsAreFresh /\ CleanupIsClean /\ FilesMatchDocuments /\ own <= begun
  BY DEF FileInv, IdsAreFresh
<1>1. \A p \in Requests : p # q /\ Uploading(p) => job[p].id # own
  BY <1>0 DEF IdsAreFresh
<1>2. \A p \in Requests : p # q => (Uploading(p)' <=> Uploading(p))
  BY DEF Uploading
<1>3. \A i : i # own => /\ i \in files' <=> i \in files
                        /\ i \in chunks' <=> i \in chunks
                        /\ i \in unclear' <=> i \in unclear
                        /\ i \in newIds <=> i \in docIds
  OBVIOUS
<1>4. IdsAreFresh'
  <2>1. \A i \in newIds : i <= begun'
    BY <1>0, <1>3 DEF IdsAreFresh
  <2>2. \A p \in Requests : Uploading(p)' => job'[p].id <= begun'
    BY <1>0, <1>2 DEF IdsAreFresh
  <2>3. \A p, r \in Requests : Uploading(p)' /\ Uploading(r)' /\ job'[p].id = job'[r].id => p = r
    BY <1>0, <1>1, <1>2 DEF IdsAreFresh
  <2>4. \A i \in files' \cup chunks' \cup unclear' : i <= begun'
    BY <1>0, <1>3 DEF IdsAreFresh
  <2>5. ASSUME NEW p \in Requests, job'[p].phase \in {"quota", "insert", "inserted"}
        PROVE  job'[p].id \notin unclear' \cup chunks' \cup newIds
    <3>1. CASE p = q
      BY <2>5, <3>1 DEF Uploading
    <3>2. CASE p # q
      <4>1. /\ job'[p] = job[p] /\ Uploading(p)
            /\ job[p].id \notin unclear \cup chunks \cup docIds
        BY <1>0, <2>5, <3>2 DEF IdsAreFresh, Uploading
      <4> QED  BY <1>1, <1>3, <3>2, <4>1
    <3> QED  BY <3>1, <3>2
  <2> QED  BY <2>1, <2>2, <2>3, <2>4, <2>5 DEF IdsAreFresh, Uploading
<1>5. CleanupIsClean'
  <2> SUFFICES ASSUME NEW p \in Requests, job'[p].phase = "cleanup", job'[p].id \notin unclear'
               PROVE  job'[p].id \notin newIds
    BY DEF CleanupIsClean
  <2>1. CASE p = q
    BY <2>1 DEF Uploading
  <2>2. CASE p # q
    <3>1. job'[p] = job[p] /\ Uploading(p)
      BY <2>2 DEF Uploading
    <3> QED  BY <1>0, <1>1, <1>3, <2>2, <3>1 DEF CleanupIsClean
  <2> QED  BY <2>1, <2>2
<1>6. FilesMatchDocuments'
  <2> SUFFICES ASSUME NEW i \in Ids, i \notin unclear'
               PROVE  i \in files' <=> i \in newIds \cup Running'
    BY DEF FilesMatchDocuments
  <2>1. CASE i = own
    <3>1. own \in Running' <=> job'[q].phase \in {"insert", "inserted", "cleanup"}
      <4>1. job'[q].phase \in {"insert", "inserted", "cleanup"} => own \in Running'
        BY DEF Running, Uploading
      <4>2. own \in Running' => job'[q].phase \in {"insert", "inserted", "cleanup"}
        <5> SUFFICES ASSUME NEW p \in Requests, job'[p].phase \in {"insert", "inserted", "cleanup"},
                            job'[p].id = own
                     PROVE  p = q
          BY DEF Running
        <5> QED  BY <1>1 DEF Uploading
      <4> QED  BY <4>1, <4>2
    <3> QED  BY <2>1, <3>1
  <2>2. CASE i # own
    <3>1. i \in Running' <=> i \in Running
      <4>1. i \in Running => i \in Running'
        <5> SUFFICES ASSUME NEW p \in Requests, job[p].phase \in {"insert", "inserted", "cleanup"},
                            job[p].id = i
                     PROVE  i \in Running'
          BY DEF Running
        <5>1. p # q /\ job'[p] = job[p]
          BY <2>2
        <5> QED  BY <5>1 DEF Running
      <4>2. i \in Running' => i \in Running
        <5> SUFFICES ASSUME NEW p \in Requests, job'[p].phase \in {"insert", "inserted", "cleanup"},
                            job'[p].id = i
                     PROVE  i \in Running
          BY DEF Running
        <5>1. p # q /\ job'[p] = job[p]
          BY <2>2 DEF Uploading
        <5> QED  BY <5>1 DEF Running
      <4> QED  BY <4>1, <4>2
    <3> QED  BY <1>0, <1>3, <2>2, <3>1 DEF FilesMatchDocuments
  <2> QED  BY <2>1, <2>2
<1> QED  BY <1>4, <1>5, <1>6 DEF FileInv

\* What request q may count on about its own id.
LEMMA OwnId ==
    ASSUME FileInv, NEW q \in Requests, Uploading(q)
    PROVE  /\ job[q].id \in Ids
           /\ job[q].phase \in {"quota", "insert", "inserted"} =>
                 /\ job[q].id \notin unclear \cup chunks \cup {d.id : d \in documents}
                 /\ job[q].id \in files <=> job[q].phase # "quota"
           /\ job[q].phase = "cleanup" /\ job[q].id \notin unclear =>
                 job[q].id \notin {d.id : d \in documents}
<1>0. TypeOK /\ IdsAreFresh /\ CleanupIsClean /\ FilesMatchDocuments
  BY DEF FileInv
<1>1. job[q].id \in Ids
  BY <1>0, NewDocumentType
<1>2. job[q].id \in Running <=> job[q].phase \in {"insert", "inserted", "cleanup"}
  <2>1. \A p \in Requests : Uploading(p) /\ job[p].id = job[q].id => p = q
    BY <1>0 DEF IdsAreFresh
  <2> QED  BY <2>1 DEF Running, Uploading
<1> QED  BY <1>0, <1>1, <1>2 DEF IdsAreFresh, CleanupIsClean, FilesMatchDocuments

LEMMA UploadKeepsFileInv ==
    ASSUME FileInv, TypeOK', NEW q \in Requests, Upload(q)
    PROVE  FileInv'
<1> DEFINE id == job[q].id
           docIds == {d.id : d \in documents}
           newIds == {d.id : d \in documents'}
<1>0. TypeOK
  BY DEF FileInv
<1>a. Idle.phase \notin {"quota", "insert", "inserted", "cleanup"}
  BY DEF Idle
<1>1. CASE StoreFile(q)
  <2>1. job[q].phase = "quota" /\ Uploading(q)
    BY <1>1 DEF StoreFile, In, Uploading
  <2>2. /\ UNCHANGED <<documents, chunks, unclear>>
        /\ \/ files' = files \cup {id} /\ Advance(q, "insert")
           \/ files' = files /\ Done(q)
    BY <1>1 DEF StoreFile
  <2>3. /\ begun' = begun /\ \A p \in Requests : p # q => job'[p] = job[p]
        /\ \/ files' = files \cup {id} /\ job'[q].phase = "insert" /\ job'[q].id = id
           \/ files' = files /\ job'[q].phase = "idle"
    <3>1. CASE Advance(q, "insert") /\ files' = files \cup {id}
      BY <1>0, <2>1, <3>1, AdvanceSets
    <3>2. CASE Done(q) /\ files' = files
      BY <1>0, <3>2, DoneSets DEF JobSet, Idle
    <3> QED  BY <2>2, <3>1, <3>2
  <2>4. id \notin unclear \cup chunks \cup docIds \cup files
    BY <2>1, OwnId
  <2> QED  BY <2>1, <2>2, <2>3, <2>4, OwnStepKeepsFileInv DEF Uploading
<1>2. CASE InsertDocument(q) \/ UploadFails(q)
  <2>1. job[q].phase \in {"insert", "inserted"} /\ Uploading(q)
    BY <1>2 DEF InsertDocument, UploadFails, In, Uploading
  <2>2. /\ UNCHANGED <<documents, chunks, files, unclear>>
        /\ Advance(q, "inserted") \/ Advance(q, "cleanup")
    BY <1>2 DEF InsertDocument, UploadFails, store
  <2>3. /\ begun' = begun /\ \A p \in Requests : p # q => job'[p] = job[p]
        /\ job'[q].phase \in {"inserted", "cleanup"} /\ job'[q].id = id
    BY <1>0, <2>1, <2>2, AdvanceSets
  <2>4. id \notin unclear \cup chunks \cup docIds /\ id \in files
    BY <2>1, OwnId
  <2> QED  BY <2>1, <2>2, <2>3, <2>4, OwnStepKeepsFileInv
<1>3. CASE CommitUpload(q) \/ CommitUnanswered(q)
  <2>1. job[q].phase = "inserted" /\ Uploading(q)
    BY <1>3 DEF CommitUpload, CommitUnanswered, In, Uploading
  <2>2. /\ documents' = documents \cup {NewDocument(job[q])}
        /\ chunks' = chunks \cup {id} /\ files' = files
        /\ \/ Done(q) /\ unclear' = unclear
           \/ Advance(q, "cleanup") /\ unclear' = unclear \cup {id}
    BY <1>3 DEF CommitUpload, CommitUnanswered, Publish, NewDocument, Unclear
  <2>3. NewDocument(job[q]).id = id
    BY DEF NewDocument
  <2>4. newIds = docIds \cup {id}
    BY <2>2, <2>3
  <2>5. id \in files
    BY <2>1, OwnId
  <2>6. CASE Done(q) /\ unclear' = unclear
    <3>1. begun' = begun /\ job'[q] = Idle /\ \A p \in Requests : p # q => job'[p] = job[p]
      BY <1>0, <2>6, DoneSets DEF JobSet
    <3> QED  BY <1>a, <2>1, <2>2, <2>4, <2>5, <2>6, <3>1, OwnStepKeepsFileInv DEF Uploading
  <2>7. CASE Advance(q, "cleanup") /\ unclear' = unclear \cup {id}
    <3>1. /\ begun' = begun /\ job'[q].phase = "cleanup" /\ job'[q].id = id
          /\ \A p \in Requests : p # q => job'[p] = job[p]
      BY <1>0, <2>1, <2>7, AdvanceSets
    <3> QED  BY <2>1, <2>2, <2>4, <2>5, <2>7, <3>1, OwnStepKeepsFileInv
  <2> QED  BY <2>2, <2>6, <2>7
<1>4. CASE RemoveFile(q)
  <2>1. job[q].phase = "cleanup" /\ Uploading(q)
    BY <1>4 DEF RemoveFile, In, Uploading
  <2>2. /\ UNCHANGED <<documents, chunks>> /\ Done(q)
        /\ \/ files' = files \ {id} /\ unclear' = unclear
           \/ files' = files /\ unclear' = unclear \cup {id}
    BY <1>4 DEF RemoveFile, Unclear
  <2>3. begun' = begun /\ job'[q] = Idle /\ \A p \in Requests : p # q => job'[p] = job[p]
    BY <1>0, <2>2, DoneSets DEF JobSet
  <2>4. id \notin unclear => id \notin docIds
    BY <2>1, OwnId
  <2> QED  BY <1>a, <2>1, <2>2, <2>3, <2>4, OwnStepKeepsFileInv DEF Uploading
<1> QED  BY <1>1, <1>2, <1>3, <1>4 DEF Upload

\* An upload that dies.
LEMMA DeathKeepsFileInv ==
    ASSUME FileInv, TypeOK', NEW q \in Requests, RequestDies(q), Uploading(q)
    PROVE  FileInv'
<1> DEFINE id == job[q].id
<1>0. TypeOK
  BY DEF FileInv
<1>1. Idle.phase \notin {"quota", "insert", "inserted", "cleanup"}
  BY DEF Idle
<1>2. begun' = begun /\ job'[q] = Idle /\ \A p \in Requests : p # q => job'[p] = job[p]
  BY <1>0, DoneSets DEF RequestDies, JobSet
<1>3. UNCHANGED <<documents, chunks, files>>
  BY DEF RequestDies, store
<1>4. CASE job[q].phase = "quota"
  <2>1. unclear' = unclear
    BY <1>4 DEF RequestDies
  <2>2. id \notin files \cup {d.id : d \in documents}
    BY <1>4, OwnId
  <2> QED  BY <1>1, <1>2, <1>3, <2>1, <2>2, OwnStepKeepsFileInv DEF Uploading
<1>5. CASE job[q].phase # "quota"
  <2>1. unclear' = unclear \cup {id}
    BY <1>5 DEF RequestDies, Unclear, Uploading
  <2> QED  BY <1>1, <1>2, <1>3, <2>1, OwnStepKeepsFileInv DEF Uploading
<1> QED  BY <1>4, <1>5

LEMMA NextFileInv == FileInv /\ [Next]_vars => FileInv'
<1> SUFFICES ASSUME FileInv, [Next]_vars PROVE FileInv'
  OBVIOUS
<1>0. TypeOK /\ TypeOK'
  BY NextType DEF FileInv
<1>1. CASE NewRequest
  <2>1. PICK u \in users :
          \/ \E q \in Requests :
                \/ \E size \in Sizes, class \in Classes :
                      \/ BeginUpload(q, u, size, class)
                      \/ \E d \in documents : BeginVersion(q, u, size, class, d)
                \/ \E d \in documents : BeginDelete(q, u, d)
                \/ BeginChat(q, u)
                \/ \E target \in Users : BeginErase(q, u, target)
          \/ \E d \in documents, hold \in BOOLEAN : SetLegalHold(u, d, hold)
    BY <1>1 DEF NewRequest
  <2>2. Arrives /\ u \in Users
    BY <1>0, <1>1 DEF NewRequest, TypeOK
  <2>3. ASSUME NEW q \in Requests, NEW size \in Sizes, NEW class \in Classes,
               BeginUpload(q, u, size, class)
        PROVE  FileInv'
    <3> DEFINE j == [phase |-> "quota", by |-> u, id |-> begun + 1, size |-> size,
                     class |-> class, version |-> 1, parent |-> 0]
    <3>1. /\ Start(q, j) /\ j.phase = "quota" /\ j.id = begun + 1
          /\ UNCHANGED <<documents, files, chunks, unclear>>
      BY <2>3 DEF BeginUpload, store
    <3> HIDE DEF j
    <3> QED  BY <1>0, <2>2, <3>1, BeginKeepsFileInv
  <2>4. ASSUME NEW q \in Requests, NEW size \in Sizes, NEW class \in Classes,
               NEW d \in documents, BeginVersion(q, u, size, class, d)
        PROVE  FileInv'
    <3> DEFINE j == [phase |-> "quota", by |-> u, id |-> begun + 1, size |-> size,
                     class |-> class, version |-> d.version + 1,
                     parent |-> IF d.parent = 0 THEN d.id ELSE d.parent]
    <3>1. /\ Start(q, j) /\ j.phase = "quota" /\ j.id = begun + 1
          /\ UNCHANGED <<documents, files, chunks, unclear>>
      BY <2>4 DEF BeginVersion, store
    <3> HIDE DEF j
    <3> QED  BY <1>0, <2>2, <3>1, BeginKeepsFileInv
  <2>5. PICK p \in Requests : TRUE
    BY DocumentsAssumption
  <2>6. ASSUME NEW q \in Requests,
               \/ \E d \in documents : BeginDelete(q, u, d)
               \/ BeginChat(q, u)
               \/ \E target \in Users : BeginErase(q, u, target)
               \/ \E d \in documents, hold \in BOOLEAN : SetLegalHold(u, d, hold)
        PROVE  FileInv'
    <3>1. Quiet
      BY <1>0, <2>2, <2>6, NewQuiet
    <3> QED  BY <1>0, <3>1, QuietKeepsFileInv
  <2> QED  BY <2>1, <2>3, <2>4, <2>5, <2>6
<1>2. ASSUME NEW q \in Requests, Upload(q) PROVE FileInv'
  BY <1>0, <1>2, UploadKeepsFileInv
<1>3. ASSUME NEW q \in Requests,
             \/ CommitDelete(q) \/ PersistTurn(q) \/ Anonymize(q) \/ CommitErase(q)
             \/ RequestDies(q) /\ ~Uploading(q)
      PROVE  FileInv'
  BY <1>0, <1>3, OtherIsQuiet, QuietKeepsFileInv DEF Uploading
<1>4. ASSUME NEW q \in Requests, RequestDies(q), Uploading(q) PROVE FileInv'
  BY <1>0, <1>4, DeathKeepsFileInv
<1>5. CASE UNCHANGED vars
  <2>1. Quiet
    BY <1>0, <1>5, SameRewritten DEF Quiet, vars, store, Uploading, TypeOK
  <2> QED  BY <1>0, <2>1, QuietKeepsFileInv
<1> QED  BY <1>1, <1>2, <1>3, <1>4, <1>5 DEF Next

\* What uploads, deletions and erasures keep of rows and files (ingest.ts).
THEOREM FilesInvariance == Spec => []FileInv
<1> QED  BY InitFileInv, NextFileInv, PTL DEF Spec

\* Every variable keeps its type.
THEOREM DocumentsTypeCorrect == Spec => []TypeOK
<1>1. FileInv => TypeOK
  BY DEF FileInv
<1> QED  BY <1>1, FilesInvariance, PTL

\* No failed upload leaves a file behind and no stored document loses its file,
\* except where a request died or a COMMIT went unanswered.
THEOREM FilesFollowDocuments == Spec => []FilesMatchDocuments
<1>1. FileInv => FilesMatchDocuments
  BY DEF FileInv
<1> QED  BY <1>1, FilesInvariance, PTL

-----------------------------------------------------------------------------
(* FamilyInv is inductive *)

\* A version's family stays, whatever is done to its rows.
LEMMA FamiliesStay ==
    ASSUME NEW v, NEW r, HasFamily(v, r),
           \A d \in documents : \E e \in documents' : SameDocument(d, e)
    PROVE  HasFamily(v, r)'
BY DEF HasFamily, SameDocument

\* A version of a stored document has a family.
LEMMA NextVersionHasFamily ==
    ASSUME TypeOK, VersionsFormChains, NEW d \in documents
    PROVE  HasFamily(d.version + 1, IF d.parent = 0 THEN d.id ELSE d.parent)
<1>0. d \in Rows /\ \A e \in documents : e \in Rows
  BY DEF TypeOK
<1>1. d.version \in Nat /\ d.version # 0 /\ d.version + 1 # 1 /\ (d.version + 1) - 1 = d.version
  BY <1>0 DEF Rows
<1>2. CASE d.version = 1
  <2>1. d.parent = 0
    BY <1>2 DEF VersionsFormChains
  <2> QED  BY <1>1, <1>2, <2>1 DEF HasFamily
<1>3. CASE d.version # 1
  <2>1. PICK root \in documents : root.id = d.parent /\ root.version = 1
    BY <1>3 DEF VersionsFormChains
  <2>2. d.parent # 0
    BY <1>0, <2>1 DEF Rows, Ids
  <2> QED  BY <1>1, <2>1, <2>2 DEF HasFamily
<1> QED  BY <1>2, <1>3

\* A step after which every row was there before, or is the row of an upload, and
\* every upload was there before, or has a family.
LEMMA FamilyFrame ==
    ASSUME FamilyInv,
           \A d \in documents : \E e \in documents' : SameDocument(d, e),
           \A e \in documents' :
               \/ \E d \in documents : SameDocument(d, e)
               \/ \E q \in Requests : /\ Uploading(q)
                                      /\ e.version = job[q].version /\ e.parent = job[q].parent,
           \A q \in Requests : Uploading(q)' =>
               \/ /\ Uploading(q)
                  /\ job'[q].version = job[q].version /\ job'[q].parent = job[q].parent
               \/ HasFamily(job'[q].version, job'[q].parent)
    PROVE  FamilyInv'
<1>1. \A v, r : HasFamily(v, r) => HasFamily(v, r)'
  BY FamiliesStay
<1>2. \A d \in documents : HasFamily(d.version, d.parent)
  BY DEF FamilyInv, VersionsFormChains, HasFamily
<1>3. \A q \in Requests : Uploading(q) => HasFamily(job[q].version, job[q].parent)
  BY DEF FamilyInv, PendingVersions
<1>4. \A e \in documents' : HasFamily(e.version, e.parent)
  BY <1>2, <1>3 DEF SameDocument
<1>5. \A e \in documents' : HasFamily(e.version, e.parent)'
  BY <1>1, <1>4
<1>6. VersionsFormChains'
  BY <1>5 DEF VersionsFormChains, HasFamily
<1>7. \A q \in Requests : Uploading(q)' => HasFamily(job'[q].version, job'[q].parent)
  BY <1>3
<1>8. PendingVersions'
  BY <1>1, <1>7 DEF PendingVersions
<1> QED  BY <1>6, <1>8 DEF FamilyInv

LEMMA QuietKeepsFamilyInv ==
    ASSUME FamilyInv, Quiet
    PROVE  FamilyInv'
BY FamilyFrame DEF Quiet, Rewritten

LEMMA UploadKeepsFamilyInv ==
    ASSUME TypeOK, FamilyInv, NEW q \in Requests,
           Upload(q) \/ (RequestDies(q) /\ Uploading(q))
    PROVE  FamilyInv'
<1>1. Uploading(q)
  BY DEF Upload, StoreFile, InsertDocument, CommitUpload, CommitUnanswered, UploadFails,
         RemoveFile, In, Uploading
<1>2. \/ Done(q)
      \/ \E phase \in {"insert", "inserted", "cleanup"} : Advance(q, phase)
  BY DEF Upload, StoreFile, InsertDocument, CommitUpload, CommitUnanswered, UploadFails,
         RemoveFile, RequestDies
<1>3. /\ \A p \in Requests : p # q => job'[p] = job[p]
      /\ \/ job'[q] = Idle
         \/ job'[q].version = job[q].version /\ job'[q].parent = job[q].parent
  <2>1. CASE Done(q)
    BY <2>1, DoneSets DEF JobSet
  <2>2. ASSUME NEW phase \in {"insert", "inserted", "cleanup"}, Advance(q, phase)
        PROVE  /\ \A p \in Requests : p # q => job'[p] = job[p]
               /\ job'[q].version = job[q].version /\ job'[q].parent = job[q].parent
    BY <1>1, <2>2, AdvanceSets
  <2> QED  BY <1>2, <2>1, <2>2
<1>4. \A p \in Requests : Uploading(p)' =>
          /\ Uploading(p)
          /\ job'[p].version = job[p].version /\ job'[p].parent = job[p].parent
  BY <1>1, <1>3 DEF Uploading, Idle
<1>5. documents' = documents \/ documents' = documents \cup {NewDocument(job[q])}
  BY DEF Upload, StoreFile, InsertDocument, CommitUpload, CommitUnanswered, UploadFails,
         RemoveFile, RequestDies, Publish, store, NewDocument
<1>6. /\ NewDocument(job[q]).version = job[q].version
      /\ NewDocument(job[q]).parent = job[q].parent
  BY DEF NewDocument
<1>7. \A d \in documents : SameDocument(d, d)
  BY DEF SameDocument
<1> QED  BY <1>1, <1>4, <1>5, <1>6, <1>7, FamilyFrame

\* A request that starts an upload.
LEMMA BeginKeepsFamilyInv ==
    ASSUME TypeOK, FamilyInv, NEW q \in Requests, NEW j, Start(q, j),
           HasFamily(j.version, j.parent), documents' = documents
    PROVE  FamilyInv'
<1>1. job'[q] = j /\ \A p \in Requests : p # q => job'[p] = job[p]
  BY DEF Start, TypeOK
<1>2. \A d \in documents : SameDocument(d, d)
  BY DEF SameDocument
<1> QED  BY <1>1, <1>2, FamilyFrame DEF Uploading

LEMMA NextFamilyInv == TypeOK /\ FamilyInv /\ [Next]_vars => FamilyInv'
<1> SUFFICES ASSUME TypeOK, FamilyInv, [Next]_vars PROVE FamilyInv'
  OBVIOUS
<1>1. CASE NewRequest
  <2>1. PICK u \in users :
          \/ \E q \in Requests :
                \/ \E size \in Sizes, class \in Classes :
                      \/ BeginUpload(q, u, size, class)
                      \/ \E d \in documents : BeginVersion(q, u, size, class, d)
                \/ \E d \in documents : BeginDelete(q, u, d)
                \/ BeginChat(q, u)
                \/ \E target \in Users : BeginErase(q, u, target)
          \/ \E d \in documents, hold \in BOOLEAN : SetLegalHold(u, d, hold)
    BY <1>1 DEF NewRequest
  <2>2. Arrives /\ u \in Users
    BY <1>1 DEF NewRequest, TypeOK
  <2>3. ASSUME NEW q \in Requests, NEW size \in Sizes, NEW class \in Classes,
               BeginUpload(q, u, size, class)
        PROVE  FamilyInv'
    <3> DEFINE j == [phase |-> "quota", by |-> u, id |-> begun + 1, size |-> size,
                     class |-> class, version |-> 1, parent |-> 0]
    <3>1. /\ Start(q, j) /\ j.version = 1 /\ j.parent = 0 /\ documents' = documents
      BY <2>3 DEF BeginUpload, store
    <3> HIDE DEF j
    <3> QED  BY <3>1, BeginKeepsFamilyInv DEF HasFamily
  <2>4. ASSUME NEW q \in Requests, NEW size \in Sizes, NEW class \in Classes,
               NEW d \in documents, BeginVersion(q, u, size, class, d)
        PROVE  FamilyInv'
    <3> DEFINE root == IF d.parent = 0 THEN d.id ELSE d.parent
               j == [phase |-> "quota", by |-> u, id |-> begun + 1, size |-> size,
                     class |-> class, version |-> d.version + 1, parent |-> root]
    <3>1. /\ Start(q, j) /\ j.version = d.version + 1 /\ j.parent = root
          /\ documents' = documents
      BY <2>4 DEF BeginVersion, store
    <3>2. HasFamily(d.version + 1, root)
      BY NextVersionHasFamily DEF FamilyInv
    <3> HIDE DEF j, root
    <3> QED  BY <3>1, <3>2, BeginKeepsFamilyInv
  <2>5. PICK p \in Requests : TRUE
    BY DocumentsAssumption
  <2>6. ASSUME NEW q \in Requests,
               \/ \E d \in documents : BeginDelete(q, u, d)
               \/ BeginChat(q, u)
               \/ \E target \in Users : BeginErase(q, u, target)
               \/ \E d \in documents, hold \in BOOLEAN : SetLegalHold(u, d, hold)
        PROVE  FamilyInv'
    BY <2>2, <2>6, NewQuiet, QuietKeepsFamilyInv
  <2> QED  BY <2>1, <2>3, <2>4, <2>5, <2>6
<1>2. ASSUME NEW q \in Requests, Upload(q) \/ (RequestDies(q) /\ Uploading(q)) PROVE FamilyInv'
  BY <1>2, UploadKeepsFamilyInv
<1>3. ASSUME NEW q \in Requests,
             \/ CommitDelete(q) \/ PersistTurn(q) \/ Anonymize(q) \/ CommitErase(q)
             \/ RequestDies(q) /\ ~Uploading(q)
      PROVE  FamilyInv'
  BY <1>3, OtherIsQuiet, QuietKeepsFamilyInv DEF Uploading
<1>4. CASE UNCHANGED vars
  <2>1. Quiet
    BY <1>4, SameRewritten DEF Quiet, vars, store, Uploading, TypeOK
  <2> QED  BY <2>1, QuietKeepsFamilyInv
<1> QED  BY <1>1, <1>2, <1>3, <1>4 DEF Next

\* However uploads, deletions and erasures interleave with the read of the version
\* it replaces, a version hangs off a root that is stored and follows a version
\* that is stored.
THEOREM VersionsFollowTheirRoot == Spec => []VersionsFormChains
<1>1. Init => FamilyInv
  BY DEF Init, FamilyInv, VersionsFormChains, PendingVersions, Uploading, Idle
<1>2. TypeOK /\ FamilyInv /\ [Next]_vars => FamilyInv'
  BY NextFamilyInv
<1>3. FamilyInv => VersionsFormChains
  BY DEF FamilyInv
<1> QED  BY <1>1, <1>2, <1>3, DocumentsTypeCorrect, PTL DEF Spec

-----------------------------------------------------------------------------
(* ErasureInv is inductive *)

\* No erasure of u starts or goes on.
ErasuresStay(u) ==
    \A q \in Requests : Targets(q, u)' => Targets(q, u) /\ job'[q] = job[q]

\* A document of u is one that was there, buried if it was, or one that u has just
\* uploaded while nobody was erasing u.
DocumentsStay(u) ==
    \A e \in documents' : e.author = u =>
        \/ \E d \in documents :
              /\ d.author = u /\ d.id = e.id
              /\ d.uploadedBy = u <=> e.uploadedBy = u
              /\ Buried(d) => Buried(e)'
        \/ e.uploadedBy = u /\ u \in users /\ \A q \in Requests : ~Targets(q, u)'

\* The trail of u grows only while u has an account and no erasure has cleaned it.
TrailStays(u) ==
    u \in accessLog' \cup messages' =>
        \/ u \in accessLog \cup messages
        \/ u \in users /\ \A q \in Requests : ~Anonymized(q, u)'

LEMMA SeenFrame ==
    ASSUME NEW u, Seen(u), ErasuresStay(u), DocumentsStay(u), TrailStays(u),
           u \in users' <=> u \in users
    PROVE  Seen(u)'
<1>1. \A q \in Requests : Anonymized(q, u)' => Anonymized(q, u) /\ job'[q] = job[q]
  BY DEF ErasuresStay, Targets, Anonymized
<1>2. ClearedIsBuried(u)'
  BY DEF Seen, ClearedIsBuried, DocumentsStay
<1>3. SelectionIsComplete(u)'
  BY DEF Seen, SelectionIsComplete, DocumentsStay, ErasuresStay
<1>4. CleanedStaysClean(u)'
  BY <1>1 DEF Seen, CleanedStaysClean, TrailStays
<1>5. OneRestores(u)'
  BY <1>1 DEF Seen, OneRestores
<1>6. ErasedIsGone(u)'
  <2> SUFFICES ASSUME u \notin users'
               PROVE  /\ \A e \in documents' : e.author = u => Buried(e)' /\ e.uploadedBy # u
                      /\ u \notin accessLog' \cup messages'
                      /\ \A q \in Requests : Anonymized(q, u)' => ~job'[q].logged /\ ~job'[q].turns
    BY DEF ErasedIsGone
  <2>1. u \notin users
    OBVIOUS
  <2>2. \A e \in documents' : e.author = u => Buried(e)' /\ e.uploadedBy # u
    BY <2>1 DEF Seen, ErasedIsGone, DocumentsStay
  <2>3. u \notin accessLog' \cup messages'
    BY <2>1 DEF Seen, ErasedIsGone, TrailStays
  <2> QED  BY <1>1, <2>1, <2>2, <2>3 DEF Seen, ErasedIsGone
<1> QED  BY <1>2, <1>3, <1>4, <1>5, <1>6 DEF Seen

\* A step of a request that is no erasure, before it or after it.
LEMMA OtherErasuresStay ==
    ASSUME NEW q \in Requests, \A p \in Requests : p # q => job'[p] = job[p],
           job'[q].phase \notin {"selected", "anonymized"}
    PROVE  \A u : ErasuresStay(u)
BY DEF ErasuresStay, Targets

\* Whoever writes without being counted late has an account that nobody erases.
LEMMA WritersAreLate ==
    ASSUME NEW u, Writes(u), u \notin late'
    PROVE  u \in users /\ \A q \in Requests : ~Targets(q, u)
BY DEF Writes, Erasing, Targets

LEMMA LateGrows ==
    ASSUME NEW u, Writes(u)
    PROVE  late \subseteq late'
BY DEF Writes

\* Documents that keep their author, their uploader and what is buried.
LEMMA SameDocumentsStay ==
    ASSUME NEW u, chunks' \subseteq chunks,
           \A e \in documents' : \E d \in documents :
               SameDocument(d, e) /\ d.uploadedBy = e.uploadedBy
    PROVE  DocumentsStay(u)
BY DEF DocumentsStay, SameDocument, Buried

LEMMA UploadKeepsErasureInv ==
    ASSUME FileInv, ErasureInv, NEW q \in Requests,
           Upload(q) \/ (RequestDies(q) /\ Uploading(q))
    PROVE  ErasureInv'
<1>0. TypeOK
  BY DEF FileInv
<1>1. Uploading(q)
  BY DEF Upload, StoreFile, InsertDocument, CommitUpload, CommitUnanswered, UploadFails,
         RemoveFile, In, Uploading
<1>2. \/ Done(q)
      \/ \E phase \in {"insert", "inserted", "cleanup"} : Advance(q, phase)
  BY DEF Upload, StoreFile, InsertDocument, CommitUpload, CommitUnanswered, UploadFails,
         RemoveFile, RequestDies
<1>3. /\ \A p \in Requests : p # q => job'[p] = job[p]
      /\ job'[q].phase \notin {"selected", "anonymized"}
  <2>1. CASE Done(q)
    BY <1>0, <2>1, DoneSets DEF JobSet, Idle
  <2>2. ASSUME NEW phase \in {"insert", "inserted", "cleanup"}, Advance(q, phase)
        PROVE  /\ \A p \in Requests : p # q => job'[p] = job[p]
               /\ job'[q].phase \notin {"selected", "anonymized"}
    BY <1>0, <1>1, <2>2, AdvanceSets
  <2> QED  BY <1>2, <2>1, <2>2
<1>4. \A u : ErasuresStay(u)
  BY <1>3, OtherErasuresStay
<1>5. CASE UNCHANGED <<users, documents, chunks, accessLog, messages, late>>
  <2>1. \A u : DocumentsStay(u) /\ TrailStays(u)
    BY <1>5 DEF DocumentsStay, Buried, TrailStays
  <2> QED  BY <1>4, <1>5, <2>1, SeenFrame DEF ErasureInv
<1>6. CASE Publish(q) /\ job[q].phase = "inserted"
  <2> DEFINE new == NewDocument(job[q])
             by == job[q].by
  <2>1. /\ documents' = documents \cup {new} /\ chunks' = chunks \cup {job[q].id}
        /\ accessLog' = accessLog \cup {by} /\ messages' = messages /\ users' = users
        /\ Writes(by)
    BY <1>6 DEF Publish, NewDocument
  <2>2. new.id = job[q].id /\ new.author = by /\ new.uploadedBy = by
    BY DEF NewDocument
  <2>3. \A d \in documents : d.id # job[q].id
    BY <1>1, <1>6, OwnId
  <2> SUFFICES ASSUME NEW u \in Users \ late' PROVE Seen(u)'
    BY DEF ErasureInv
  <2>4. Seen(u)
    BY <2>1, LateGrows DEF ErasureInv
  <2>5. u = by => u \in users /\ \A p \in Requests : ~Targets(p, u)
    BY <2>1, WritersAreLate
  <2>6. u = by => \A p \in Requests : ~Targets(p, u)'
    BY <1>4, <2>5 DEF ErasuresStay
  <2> HIDE DEF new, by
  <2>7. DocumentsStay(u)
    <3> SUFFICES ASSUME NEW e \in documents', e.author = u
                 PROVE  \/ \E d \in documents :
                              /\ d.author = u /\ d.id = e.id
                              /\ d.uploadedBy = u <=> e.uploadedBy = u
                              /\ Buried(d) => Buried(e)'
                        \/ e.uploadedBy = u /\ u \in users /\ \A p \in Requests : ~Targets(p, u)'
      BY DEF DocumentsStay
    <3>1. CASE e \in documents
      <4>1. Buried(e) => Buried(e)'
        BY <2>1, <2>3, <3>1 DEF Buried
      <4> QED  BY <3>1, <4>1
    <3>2. CASE e = new
      BY <2>2, <2>5, <2>6, <3>2
    <3> QED  BY <2>1, <3>1, <3>2
  <2>8. TrailStays(u)
    BY <2>1, <2>5, <2>6 DEF TrailStays, Targets, Anonymized
  <2> QED  BY <1>4, <2>1, <2>4, <2>7, <2>8, SeenFrame
<1>7. \/ UNCHANGED <<users, documents, chunks, accessLog, messages, late>>
      \/ Publish(q) /\ job[q].phase = "inserted"
  BY <1>1 DEF Upload, StoreFile, InsertDocument, CommitUpload, CommitUnanswered, UploadFails,
              RemoveFile, RequestDies, In, store, trail, Uploading
<1> QED  BY <1>5, <1>6, <1>7

\* A request that is no erasure and no upload leaves a trace of its user: it
\* deletes a document, searches or stores a turn.
LEMMA WriterKeepsErasureInv ==
    ASSUME TypeOK, ErasureInv, NEW q \in Requests, NEW by,
           \A p \in Requests : p # q => job'[p] = job[p],
           job'[q].phase \notin {"selected", "anonymized"},
           UNCHANGED users, chunks' \subseteq chunks,
           \A e \in documents' : \E d \in documents :
               SameDocument(d, e) /\ d.uploadedBy = e.uploadedBy,
           \/ /\ Writes(by)
              /\ accessLog' \cup messages' \subseteq accessLog \cup messages \cup {by}
           \/ /\ UNCHANGED late
              /\ accessLog' \cup messages' \subseteq accessLog \cup messages
    PROVE  ErasureInv'
<1> SUFFICES ASSUME NEW u \in Users \ late' PROVE Seen(u)'
  BY DEF ErasureInv
<1>1. ErasuresStay(u) /\ DocumentsStay(u)
  BY OtherErasuresStay, SameDocumentsStay
<1>2. Seen(u)
  BY LateGrows DEF ErasureInv
<1>3. TrailStays(u)
  <2>1. CASE UNCHANGED late /\ accessLog' \cup messages' \subseteq accessLog \cup messages
    BY <2>1 DEF TrailStays
  <2>2. CASE Writes(by) /\ accessLog' \cup messages' \subseteq accessLog \cup messages \cup {by}
    <3>1. u = by => u \in users /\ \A p \in Requests : ~Targets(p, u)
      BY <2>2, WritersAreLate
    <3>2. u = by => \A p \in Requests : ~Targets(p, u)'
      BY <1>1, <3>1 DEF ErasuresStay
    <3> QED  BY <2>2, <3>1, <3>2 DEF TrailStays, Targets, Anonymized
  <2> QED  BY <2>1, <2>2
<1> QED  BY <1>1, <1>2, <1>3, SeenFrame

\* An erasure selects every document that still names its target: an owner sees
\* them all.
LEMMA BeginEraseKeepsErasureInv ==
    ASSUME TypeOK, ErasureInv, NEW q \in Requests, NEW by \in Users, NEW target \in Users,
           BeginErase(q, by, target)
    PROVE  ErasureInv'
<1> DEFINE docs == {d.id : d \in {e \in VisibleTo(by) : e.uploadedBy = target}}
           j == [phase |-> "selected", by |-> by, target |-> target, docs |-> docs,
                 logged |-> FALSE, turns |-> FALSE]
<1>1. /\ MayErase(by) /\ job[q] = Idle /\ job' = [job EXCEPT ![q] = j]
      /\ UNCHANGED <<users, documents, chunks, accessLog, messages, late>>
  BY DEF BeginErase, Start, store, trail
<1>2. \A d \in documents : d.uploadedBy = target => d.id \in docs
  <2>1. \A d \in documents : d.class \in 0 .. 3
    BY DocumentsAssumption DEF TypeOK, Rows
  <2>2. VisibleTo(by) = documents
    BY <1>1, <2>1 DEF VisibleTo, MayErase, clearanceForRole
  <2> QED  BY <2>2
<1>3. /\ job'[q].phase = "selected" /\ job'[q].target = target /\ job'[q].docs = docs
      /\ \A p \in Requests : p # q => job'[p] = job[p]
  BY <1>1 DEF TypeOK
<1> HIDE DEF docs, j
<1> SUFFICES ASSUME NEW u \in Users \ late PROVE Seen(u)'
  BY <1>1 DEF ErasureInv
<1>4. Seen(u)
  BY DEF ErasureInv
<1>5. \A p \in Requests : /\ Anonymized(p, u)' => Anonymized(p, u) /\ job'[p] = job[p]
                          /\ Targets(p, u)' =>
                                \/ Targets(p, u) /\ job'[p] = job[p]
                                \/ u = target /\ job'[p].docs = docs
  BY <1>3 DEF Anonymized, Targets
<1>6. ClearedIsBuried(u)'
  BY <1>1, <1>4 DEF Seen, ClearedIsBuried, Buried
<1>7. SelectionIsComplete(u)'
  BY <1>1, <1>2, <1>4, <1>5 DEF Seen, SelectionIsComplete, ClearedIsBuried, Buried
<1>8. CleanedStaysClean(u)'
  BY <1>1, <1>4, <1>5 DEF Seen, CleanedStaysClean
<1>9. OneRestores(u)'
  BY <1>4, <1>5 DEF Seen, OneRestores
<1>10. ErasedIsGone(u)'
  BY <1>1, <1>4, <1>5 DEF Seen, ErasedIsGone, Buried
<1> QED  BY <1>6, <1>7, <1>8, <1>9, <1>10 DEF Seen

\* An erasure that finds the trail already cleaned sets nothing aside.
LEMMA AnonymizeKeepsErasureInv ==
    ASSUME TypeOK, ErasureInv, NEW q \in Requests, Anonymize(q)
    PROVE  ErasureInv'
<1> DEFINE target == job[q].target
<1>1. /\ job[q].phase = "selected" /\ job[q] \in Erasures
      /\ UNCHANGED <<users, documents, chunks, late>>
      /\ accessLog' = accessLog \ {target} /\ messages' = messages \ {target}
  BY JobKinds DEF Anonymize, In, store
<1>2. \A p \in Requests : Anonymized(p, target) => ~job[p].logged /\ ~job[p].turns
  BY DEF Anonymize, Anonymized, In
<1>3. \A p \in Requests : p # q => job'[p] = job[p]
  BY DEF Anonymize, TypeOK
<1>4. /\ job'[q].phase = "anonymized" /\ job'[q].target = target /\ job'[q].docs = job[q].docs
      /\ job'[q].logged = (target \in accessLog) /\ job'[q].turns = (target \in messages)
  <2> DEFINE logged == target \in accessLog
             turns == target \in messages
             j == [job[q] EXCEPT !.phase = "anonymized", !.logged = logged, !.turns = turns]
  <2>1. job'[q] = j
    BY DEF Anonymize, TypeOK
  <2> HIDE DEF logged, turns
  <2>2. /\ j.phase = "anonymized" /\ j.target = target /\ j.docs = job[q].docs
        /\ j.logged = logged /\ j.turns = turns
    BY <1>1 DEF Erasures
  <2> QED  BY <2>1, <2>2 DEF logged, turns
<1> HIDE DEF target
<1> SUFFICES ASSUME NEW u \in Users \ late PROVE Seen(u)'
  BY <1>1 DEF ErasureInv
<1>5. Seen(u)
  BY DEF ErasureInv
<1>6. CASE u # target
  <2>1. ErasuresStay(u)
    BY <1>3, <1>4, <1>6 DEF ErasuresStay, Targets
  <2>2. DocumentsStay(u) /\ TrailStays(u)
    BY <1>1 DEF DocumentsStay, TrailStays, Buried
  <2> QED  BY <1>1, <1>5, <2>1, <2>2, SeenFrame
<1>7. CASE u = target
  <2>1. ClearedIsBuried(u)'
    BY <1>1, <1>5 DEF Seen, ClearedIsBuried, Buried
  <2>2. \A p \in Requests : Targets(p, u)' => Targets(p, u) /\ job'[p].docs = job[p].docs
    BY <1>1, <1>3, <1>4, <1>7 DEF Targets, target
  <2>3. SelectionIsComplete(u)'
    BY <1>1, <1>5, <2>2 DEF Seen, SelectionIsComplete, Buried
  <2>4. CleanedStaysClean(u)'
    BY <1>1, <1>7 DEF CleanedStaysClean
  <2>5. \A p \in Requests : p # q /\ Anonymized(p, u)' =>
            Anonymized(p, u) /\ ~job'[p].logged /\ ~job'[p].turns
    BY <1>2, <1>3, <1>7 DEF Anonymized
  <2>6. (\E p \in Requests : Anonymized(p, u)) \/ u \notin users =>
            ~job'[q].logged /\ ~job'[q].turns
    BY <1>4, <1>5, <1>7 DEF Seen, CleanedStaysClean, ErasedIsGone
  <2>7. OneRestores(u)'
    BY <2>5, <2>6 DEF OneRestores
  <2>8. ErasedIsGone(u)'
    BY <1>1, <1>5, <2>5, <2>6 DEF Seen, ErasedIsGone, Buried
  <2> QED  BY <2>1, <2>3, <2>4, <2>7, <2>8 DEF Seen
<1> QED  BY <1>6, <1>7

\* The COMMIT of an erasure buries what was selected, and with what was buried
\* before that is all there is.
LEMMA CommitEraseKeepsErasureInv ==
    ASSUME TypeOK, ErasureInv, NEW q \in Requests, CommitErase(q)
    PROVE  ErasureInv'
<1> DEFINE t == job[q].target
           docs == job[q].docs
           gone(d) == d.deleted \/ d.id \in docs
           uploader(d) == IF d.uploadedBy = t THEN NoUser ELSE d.uploadedBy
           image(d) == [d EXCEPT !.deleted = gone(d), !.uploadedBy = uploader(d)]
<1>1. /\ Anonymized(q, t) /\ Targets(q, t) /\ Done(q)
      /\ users' = users \ {t} /\ chunks' = chunks \ docs
      /\ UNCHANGED <<accessLog, messages, late>>
      /\ documents' = {image(d) : d \in documents}
  BY DEF CommitErase, In, Anonymized, Targets, trail
<1>2. \A d \in documents :
          /\ image(d).id = d.id /\ image(d).author = d.author
          /\ image(d).deleted = gone(d) /\ image(d).uploadedBy = uploader(d)
  <2>1. documents \subseteq Rows
    BY DEF TypeOK
  <2> HIDE DEF gone, uploader
  <2> QED  BY <2>1 DEF Rows
<1> HIDE DEF image
<1>3. \A e \in documents' : \E d \in documents :
          /\ e.id = d.id /\ e.author = d.author /\ e.uploadedBy = uploader(d)
          /\ Buried(d) \/ d.id \in docs => Buried(e)'
  <2> SUFFICES ASSUME NEW d \in documents, NEW e, e = image(d)
               PROVE  /\ e.id = d.id /\ e.author = d.author /\ e.uploadedBy = uploader(d)
                      /\ Buried(d) \/ d.id \in docs => Buried(e)'
    BY <1>1
  <2> QED  BY <1>1, <1>2 DEF Buried
<1>4. /\ \A p \in Requests : p # q => job'[p] = job[p]
      /\ job'[q].phase \notin {"selected", "anonymized"}
  BY <1>1, DoneSets DEF JobSet, Idle
<1>5. \A u : ErasuresStay(u)
  BY <1>4, OtherErasuresStay
<1> SUFFICES ASSUME NEW u \in Users \ late PROVE Seen(u)'
  BY <1>1 DEF ErasureInv
<1>6. Seen(u) /\ u # NoUser
  BY DocumentsAssumption DEF ErasureInv
<1>7. CASE u # t
  <2>1. DocumentsStay(u)
    BY <1>3, <1>6, <1>7 DEF DocumentsStay
  <2>2. TrailStays(u) /\ (u \in users' <=> u \in users)
    BY <1>1, <1>7 DEF TrailStays
  <2> QED  BY <1>5, <1>6, <2>1, <2>2, SeenFrame
<1>8. CASE u = t
  <2>1. \A d \in documents : d.author = u => d.id \in docs \/ Buried(d)
    BY <1>1, <1>6, <1>8 DEF Seen, SelectionIsComplete
  <2>2. \A e \in documents' : e.author = u => Buried(e)' /\ e.uploadedBy # u
    BY <1>3, <1>6, <1>8, <2>1
  <2>3. u \notin accessLog' \cup messages'
    BY <1>1, <1>6, <1>8 DEF Seen, CleanedStaysClean
  <2>4. \A p \in Requests : Anonymized(p, u)' =>
            /\ Anonymized(p, u) /\ job'[p] = job[p] /\ p # q
            /\ ~job'[p].logged /\ ~job'[p].turns
    BY <1>1, <1>4, <1>6, <1>8 DEF Anonymized, Seen, OneRestores
  <2> QED  BY <2>2, <2>3, <2>4 DEF Seen, ClearedIsBuried, SelectionIsComplete, CleanedStaysClean,
                                   OneRestores, ErasedIsGone
<1> QED  BY <1>7, <1>8

\* An erasure that dies puts back what it set aside, unless another erasure of the
\* same user has been or is under way.
LEMMA DeathKeepsErasureInv ==
    ASSUME TypeOK, ErasureInv, NEW q \in Requests, RequestDies(q)
    PROVE  ErasureInv'
<1> SUFFICES ASSUME NEW u \in Users \ late PROVE Seen(u)'
  BY DEF ErasureInv, RequestDies
<1>1. Seen(u) /\ UNCHANGED <<users, documents, chunks, late>> /\ Done(q)
  BY DEF ErasureInv, RequestDies, store
<1>2. /\ \A p \in Requests : p # q => job'[p] = job[p]
      /\ job'[q].phase \notin {"selected", "anonymized"}
  BY <1>1, DoneSets DEF JobSet, Idle
<1>3. ErasuresStay(u)
  BY <1>2, OtherErasuresStay
<1>4. DocumentsStay(u)
  BY <1>1 DEF DocumentsStay, Buried
<1>5. TrailStays(u)
  <2> SUFFICES ASSUME u \in accessLog' \cup messages', u \notin accessLog \cup messages
               PROVE  u \in users /\ \A p \in Requests : ~Anonymized(p, u)'
    BY DEF TrailStays
  <2>1. Anonymized(q, u) /\ (job[q].logged \/ job[q].turns)
    BY DEF RequestDies, In, Anonymized
  <2>2. u \in users
    BY <1>1, <2>1 DEF Seen, ErasedIsGone
  <2>3. \A p \in Requests : p # q => ~Anonymized(p, u)
    BY <1>1, <2>1 DEF Seen, OneRestores
  <2> QED  BY <1>2, <2>2, <2>3 DEF Anonymized
<1> QED  BY <1>1, <1>3, <1>4, <1>5, SeenFrame

\* A deletion, a search and a turn that is stored each write for their user alone.
LEMMA WritesKeepErasureInv ==
    ASSUME TypeOK, ErasureInv, NEW q \in Requests,
           \/ CommitDelete(q)
           \/ PersistTurn(q)
           \/ \E u \in Users : BeginChat(q, u)
    PROVE  ErasureInv'
<1>a. Idle.phase \notin {"selected", "anonymized"}
  BY DEF Idle
<1>b. UNCHANGED documents =>
          \A e \in documents' : \E d \in documents :
              SameDocument(d, e) /\ d.uploadedBy = e.uploadedBy
  BY DEF SameDocument
<1>1. CASE CommitDelete(q)
  <2> DEFINE image(d) == IF d.id = job[q].id THEN [d EXCEPT !.deleted = TRUE] ELSE d
  <2>1. documents' = {image(d) : d \in documents}
    BY <1>1 DEF CommitDelete
  <2>2. \A d \in documents : SameDocument(d, image(d)) /\ d.uploadedBy = image(d).uploadedBy
    BY DEF TypeOK, Rows, SameDocument
  <2> HIDE DEF image
  <2>3. \A e \in documents' : \E d \in documents :
            SameDocument(d, e) /\ d.uploadedBy = e.uploadedBy
    BY <2>1, <2>2
  <2>4. /\ UNCHANGED <<users, chunks, messages>> /\ Writes(job[q].by)
        /\ accessLog' = accessLog \cup {job[q].by} /\ Done(q)
    BY <1>1 DEF CommitDelete
  <2>5. job'[q] = Idle /\ \A p \in Requests : p # q => job'[p] = job[p]
    BY <2>4, DoneSets DEF JobSet
  <2> QED  BY <1>a, <2>3, <2>4, <2>5, WriterKeepsErasureInv
<1>2. CASE PersistTurn(q)
  <2>1. /\ UNCHANGED <<users, documents, chunks, accessLog>> /\ Done(q)
        /\ \/ messages' = messages \cup {job[q].by} /\ Writes(job[q].by)
           \/ UNCHANGED <<messages, late>>
    BY <1>2 DEF PersistTurn, store
  <2>2. job'[q] = Idle /\ \A p \in Requests : p # q => job'[p] = job[p]
    BY <2>1, DoneSets DEF JobSet
  <2>3. \/ /\ Writes(job[q].by)
           /\ accessLog' \cup messages' \subseteq accessLog \cup messages \cup {job[q].by}
        \/ UNCHANGED late /\ accessLog' \cup messages' \subseteq accessLog \cup messages
    BY <2>1
  <2> QED  BY <1>a, <1>b, <2>1, <2>2, <2>3, WriterKeepsErasureInv
<1>3. ASSUME NEW u \in Users, BeginChat(q, u) PROVE ErasureInv'
  <2> DEFINE j == [phase |-> "chat", by |-> u]
  <2>1. /\ UNCHANGED <<users, documents, chunks, messages>> /\ Writes(u)
        /\ accessLog' = accessLog \cup {u} /\ Start(q, j)
    BY <1>3 DEF BeginChat, store
  <2>2. job'[q] = j /\ \A p \in Requests : p # q => job'[p] = job[p]
    BY <2>1 DEF Start, TypeOK
  <2>3. j.phase \notin {"selected", "anonymized"}
    OBVIOUS
  <2> HIDE DEF j
  <2> QED  BY <1>b, <2>1, <2>2, <2>3, WriterKeepsErasureInv
<1> QED  BY <1>1, <1>2, <1>3

\* A request that starts and touches nothing, or sets a hold.
LEMMA StartKeepsErasureInv ==
    ASSUME TypeOK, ErasureInv, NEW q \in Requests, NEW by \in Users,
           \/ \E size \in Sizes, class \in Classes :
                 \/ BeginUpload(q, by, size, class)
                 \/ \E d \in documents : BeginVersion(q, by, size, class, d)
           \/ \E d \in documents : BeginDelete(q, by, d)
           \/ \E d \in documents, hold \in BOOLEAN : SetLegalHold(by, d, hold)
    PROVE  ErasureInv'
<1>1. UNCHANGED <<users, chunks, accessLog, messages, late>>
  BY DEF BeginUpload, BeginVersion, BeginDelete, SetLegalHold, store, trail
<1>2. \A u : ErasuresStay(u)
  <2>1. \/ UNCHANGED job
        \/ /\ \A p \in Requests : p # q => job'[p] = job[p]
           /\ job'[q].phase \notin {"selected", "anonymized"}
    BY DEF BeginUpload, BeginVersion, BeginDelete, SetLegalHold, Start, TypeOK
  <2>2. UNCHANGED job => \A u : ErasuresStay(u)
    BY DEF ErasuresStay, Targets
  <2> QED  BY <2>1, <2>2, OtherErasuresStay
<1>3. \A e \in documents' : \E d \in documents :
          SameDocument(d, e) /\ d.uploadedBy = e.uploadedBy
  <2>1. CASE UNCHANGED documents
    BY <2>1 DEF SameDocument
  <2>2. ASSUME NEW d \in documents, NEW hold \in BOOLEAN, SetLegalHold(by, d, hold)
        PROVE  \A e \in documents' : \E f \in documents :
                   SameDocument(f, e) /\ f.uploadedBy = e.uploadedBy
    <3> DEFINE held == [d EXCEPT !.hold = hold]
    <3>1. documents' = (documents \ {d}) \cup {held}
      BY <2>2 DEF SetLegalHold
    <3>2. /\ SameDocument(d, held) /\ d.uploadedBy = held.uploadedBy
          /\ \A e \in documents : SameDocument(e, e)
      BY DEF TypeOK, Rows, SameDocument
    <3> HIDE DEF held
    <3> QED  BY <3>1, <3>2
  <2>3. \/ UNCHANGED documents
        \/ \E d \in documents, hold \in BOOLEAN : SetLegalHold(by, d, hold)
    BY DEF BeginUpload, BeginVersion, BeginDelete, store
  <2> QED  BY <2>1, <2>2, <2>3
<1> SUFFICES ASSUME NEW u \in Users \ late' PROVE Seen(u)'
  BY DEF ErasureInv
<1>4. Seen(u) /\ ErasuresStay(u) /\ DocumentsStay(u) /\ TrailStays(u)
  BY <1>1, <1>2, <1>3, SameDocumentsStay DEF ErasureInv, TrailStays
<1> QED  BY <1>1, <1>4, SeenFrame

LEMMA NextErasureInv == FileInv /\ ErasureInv /\ [Next]_vars => ErasureInv'
<1> SUFFICES ASSUME FileInv, ErasureInv, [Next]_vars PROVE ErasureInv'
  OBVIOUS
<1>0. TypeOK /\ users \subseteq Users
  BY DEF FileInv, TypeOK
<1>1. CASE NewRequest
  <2>1. PICK p \in Requests : TRUE
    BY DocumentsAssumption
  <2> QED  BY <1>0, <1>1, <2>1, StartKeepsErasureInv, WritesKeepErasureInv,
              BeginEraseKeepsErasureInv DEF NewRequest
<1>2. ASSUME NEW q \in Requests, Upload(q) PROVE ErasureInv'
  BY <1>2, UploadKeepsErasureInv
<1>3. ASSUME NEW q \in Requests, CommitDelete(q) \/ PersistTurn(q) PROVE ErasureInv'
  BY <1>0, <1>3, WritesKeepErasureInv
<1>4. ASSUME NEW q \in Requests, Anonymize(q) PROVE ErasureInv'
  BY <1>0, <1>4, AnonymizeKeepsErasureInv
<1>5. ASSUME NEW q \in Requests, CommitErase(q) PROVE ErasureInv'
  BY <1>0, <1>5, CommitEraseKeepsErasureInv
<1>6. ASSUME NEW q \in Requests, RequestDies(q) PROVE ErasureInv'
  BY <1>0, <1>6, DeathKeepsErasureInv
<1>7. CASE UNCHANGED vars
  <2>1. /\ UNCHANGED <<users, documents, chunks, accessLog, messages, job, late>>
    BY <1>7 DEF vars, store, trail
  <2>2. \A u : ErasuresStay(u) /\ DocumentsStay(u) /\ TrailStays(u)
    BY <2>1 DEF ErasuresStay, Targets, DocumentsStay, Buried, TrailStays
  <2> QED  BY <2>1, <2>2, SeenFrame DEF ErasureInv
<1> QED  BY <1>1, <1>2, <1>3, <1>4, <1>5, <1>6, <1>7 DEF Next

\* Nothing leads to an erased user - no live document or chunk, no uploader, no
\* entry of the access log, no chat turn - unless a request of that very user
\* wrote while the erasure ran or after it, whatever else ran beside it and
\* wherever a request died.
THEOREM ErasureLeavesNoTrace == Spec => []ErasureMissesOnlyOverlaps
<1>1. Init => ErasureInv
  BY DEF Init, ErasureInv, Seen, ClearedIsBuried, SelectionIsComplete, CleanedStaysClean,
         OneRestores, ErasedIsGone, Targets, Anonymized, Idle
<1>2. FileInv /\ ErasureInv /\ [Next]_vars => ErasureInv'
  BY NextErasureInv
<1>3. TypeOK /\ ErasureInv => ErasureMissesOnlyOverlaps
  BY DEF ErasureMissesOnlyOverlaps, ErasureInv, Seen, ErasedIsGone, Traces, Buried, TypeOK
<1>4. FileInv => TypeOK
  BY DEF FileInv
<1> QED  BY <1>1, <1>2, <1>3, <1>4, FilesInvariance, PTL DEF Spec

-----------------------------------------------------------------------------
(* Sums of sizes *)

\* Induction over the natural numbers, from the fact that < is well-founded.
LEMMA LeastNat ==
    ASSUME NEW T \in SUBSET Nat, T # {}
    PROVE  \E n \in T : \A m \in T : n <= m
<1> DEFINE R == OpToRel(<, Nat)
<1>1. IsWellFoundedOn(R, Nat)
  BY NatLessThanWellFounded
<1>2. PICK n \in T : \A m \in T : ~(<<m, n>> \in R)
  <2> HIDE DEF R
  <2> QED  BY <1>1, WFMin
<1>3. \A m \in T : ~(m < n)
  BY <1>2 DEF OpToRel
<1> QED  BY <1>3

LEMMA AllNumbers ==
    ASSUME NEW T \in SUBSET Nat, 0 \in T, \A n \in T : n + 1 \in T
    PROVE  T = Nat
<1> SUFFICES ASSUME Nat \ T # {} PROVE FALSE
  OBVIOUS
<1>1. PICK n \in Nat \ T : \A m \in Nat \ T : n <= m
  BY LeastNat
<1>2. n - 1 \in Nat /\ n - 1 \notin Nat \ T
  BY <1>1
<1> QED  BY <1>1, <1>2

Sum(S) == MapThenSumSet(LAMBDA d : d.size, S)

Chosen(S) == CHOOSE x \in S : TRUE

\* The function by which Folds defines the sum: f[s] is the sum of s.
SumsUp(f, S, s) == f[s] = IF s = {} THEN 0 ELSE Chosen(s).size + f[s \ {Chosen(s)}]

Sums(f, S) ==
    f = [s \in SUBSET S |-> IF s = {} THEN 0 ELSE Chosen(s).size + f[s \ {Chosen(s)}]]

LEMMA SumsGiveSum ==
    ASSUME NEW S, \E f : Sums(f, S)
    PROVE  \E f : Sums(f, S) /\ Sum(S) = f[S]
<1>1. Sum(S) = (CHOOSE f : Sums(f, S))[S]
  BY DEF Sum, MapThenSumSet, MapThenFoldSet, Sums, Chosen
<1>2. Sums(CHOOSE f : Sums(f, S), S)
  OBVIOUS
<1> QED  BY <1>1, <1>2

LEMMA OneLess ==
    ASSUME NEW S, IsFiniteSet(S), S # {}
    PROVE  /\ Chosen(S) \in S
           /\ \A x \in S : /\ IsFiniteSet(S \ {x})
                           /\ Cardinality(S \ {x}) = Cardinality(S) - 1
           /\ Cardinality(S) \in Nat \ {0}
<1>1. Chosen(S) \in S
  BY DEF Chosen
<1>2. Cardinality(S) \in Nat /\ Cardinality(S) # 0
  BY FS_CardinalityType, FS_EmptySet
<1>3. \A x \in S : IsFiniteSet(S \ {x}) /\ Cardinality(S \ {x}) = Cardinality(S) - 1
  BY FS_RemoveElement
<1> QED  BY <1>1, <1>2, <1>3

LEMMA SumsExist ==
    ASSUME NEW S, IsFiniteSet(S)
    PROVE  \E f : Sums(f, S)
<1> DEFINE UpTo(f, n) ==
               /\ f = [s \in SUBSET S |-> f[s]]
               /\ \A s \in SUBSET S : Cardinality(s) <= n => SumsUp(f, S, s)
           T == {n \in Nat : \E f : UpTo(f, n)}
<1>0. \A s \in SUBSET S : IsFiniteSet(s) /\ Cardinality(s) \in Nat
                          /\ Cardinality(s) <= Cardinality(S)
  BY FS_Subset, FS_CardinalityType
<1>1. 0 \in T
  <2> DEFINE f == [s \in SUBSET S |-> 0]
  <2>1. \A s \in SUBSET S : Cardinality(s) <= 0 => s = {}
    BY <1>0, FS_EmptySet
  <2>2. UpTo(f, 0)
    BY <2>1 DEF SumsUp
  <2> HIDE DEF UpTo, f
  <2> QED  BY <2>2
<1>2. ASSUME NEW n \in T PROVE n + 1 \in T
  <2>1. PICK f : UpTo(f, n)
    OBVIOUS
  <2> DEFINE g == [s \in SUBSET S |->
                     IF Cardinality(s) <= n THEN f[s] ELSE Chosen(s).size + f[s \ {Chosen(s)}]]
  <2>2. n \in Nat
    OBVIOUS
  <2>3. ASSUME NEW s \in SUBSET S, Cardinality(s) <= n + 1 PROVE SumsUp(g, S, s)
    <3>1. CASE s = {}
      <4>1. Cardinality(s) <= n
        BY <2>2, <3>1, FS_EmptySet
      <4> QED  BY <2>1, <3>1, <4>1 DEF SumsUp
    <3>2. CASE s # {}
      <4> DEFINE t == s \ {Chosen(s)}
      <4>1. Cardinality(s) \in Nat /\ Cardinality(t) = Cardinality(s) - 1 /\ t \in SUBSET S
        BY <1>0, <3>2, OneLess
      <4>2. Cardinality(t) <= n
        BY <2>2, <2>3, <4>1
      <4>3. g[t] = f[t]
        BY <4>1, <4>2
      <4>4. g[s] = Chosen(s).size + f[t]
        BY <2>1, <3>2 DEF SumsUp
      <4> QED  BY <3>2, <4>3, <4>4 DEF SumsUp
    <3> QED  BY <3>1, <3>2
  <2>4. UpTo(g, n + 1)
    <3>1. g = [s \in SUBSET S |-> g[s]]
      OBVIOUS
    <3> HIDE DEF g
    <3> QED  BY <2>3, <3>1
  <2> HIDE DEF UpTo, g
  <2> QED  BY <2>2, <2>4
<1>3. T = Nat
  <2> HIDE DEF T
  <2>1. T \in SUBSET Nat
    BY DEF T
  <2> QED  BY <1>1, <1>2, <2>1, AllNumbers
<1>4. Cardinality(S) \in Nat
  BY <1>0
<1>5. PICK f : UpTo(f, Cardinality(S))
  <2>1. Cardinality(S) \in T
    BY <1>3, <1>4
  <2> HIDE DEF UpTo
  <2> QED  BY <2>1
<1>6. \A s \in SUBSET S : SumsUp(f, S, s)
  BY <1>0, <1>5
<1>7. Sums(f, S)
  BY <1>5, <1>6 DEF Sums, SumsUp
<1> QED  BY <1>7

\* Sums over two sets agree on what is in both.
LEMMA SumsAgree ==
    ASSUME NEW S, IsFiniteSet(S), NEW f, Sums(f, S), NEW T \in SUBSET S, NEW g, Sums(g, T)
    PROVE  f[T] = g[T]
<1> DEFINE N == {n \in Nat : \A s \in SUBSET T : Cardinality(s) <= n => f[s] = g[s]}
<1>0. \A s \in SUBSET T : IsFiniteSet(s) /\ Cardinality(s) \in Nat
  BY FS_Subset, FS_CardinalityType
<1>a. \A s \in SUBSET T : SumsUp(f, S, s) /\ SumsUp(g, T, s)
  BY DEF Sums, SumsUp
<1>1. 0 \in N
  <2>1. \A s \in SUBSET T : Cardinality(s) <= 0 => s = {}
    BY <1>0, FS_EmptySet
  <2> QED  BY <1>a, <2>1 DEF SumsUp
<1>2. ASSUME NEW n \in N PROVE n + 1 \in N
  <2>1. ASSUME NEW s \in SUBSET T, Cardinality(s) <= n + 1 PROVE f[s] = g[s]
    <3>1. CASE s = {}
      BY <1>a, <3>1 DEF SumsUp
    <3>2. CASE s # {}
      <4> DEFINE t == s \ {Chosen(s)}
      <4>1. Cardinality(s) \in Nat /\ Cardinality(t) = Cardinality(s) - 1 /\ t \in SUBSET T
        BY <1>0, <3>2, OneLess
      <4>2. f[t] = g[t]
        BY <2>1, <4>1
      <4> QED  BY <1>a, <3>2, <4>2 DEF SumsUp
    <3> QED  BY <3>1, <3>2
  <2> QED  BY <2>1
<1>3. N = Nat
  <2> HIDE DEF N
  <2>1. N \in SUBSET Nat
    BY DEF N
  <2> QED  BY <1>1, <1>2, <2>1, AllNumbers
<1> QED  BY <1>0, <1>3

LEMMA SumUnfolds ==
    ASSUME NEW S, IsFiniteSet(S)
    PROVE  Sum(S) = IF S = {} THEN 0 ELSE Chosen(S).size + Sum(S \ {Chosen(S)})
<1> DEFINE T == S \ {Chosen(S)}
<1>1. IsFiniteSet(T) /\ T \in SUBSET S
  BY FS_Subset
<1>2. PICK f : Sums(f, S) /\ Sum(S) = f[S]
  BY SumsExist, SumsGiveSum
<1>3. PICK g : Sums(g, T) /\ Sum(T) = g[T]
  BY <1>1, SumsExist, SumsGiveSum
<1>4. f[T] = g[T]
  BY <1>1, <1>2, <1>3, SumsAgree
<1>5. f[S] = IF S = {} THEN 0 ELSE Chosen(S).size + f[T]
  BY <1>2 DEF Sums
<1> QED  BY <1>2, <1>3, <1>4, <1>5

Sized(S) == IsFiniteSet(S) /\ \A d \in S : d.size \in Nat

\* Whichever element is taken out first, the sum is the same.
LEMMA SumOfElement ==
    ASSUME NEW S, Sized(S)
    PROVE  Sum(S) \in Nat /\ \A x \in S : Sum(S) = x.size + Sum(S \ {x})
<1> DEFINE Good(s) == Sum(s) \in Nat /\ \A x \in s : Sum(s) = x.size + Sum(s \ {x})
           N == {n \in Nat : \A s : Sized(s) /\ Cardinality(s) <= n => Good(s)}
<1>0. \A s : Sized(s) => Cardinality(s) \in Nat
  BY FS_CardinalityType DEF Sized
<1>1. 0 \in N
  <2>1. ASSUME NEW s, Sized(s), Cardinality(s) <= 0 PROVE Good(s)
    <3>1. s = {}
      BY <1>0, <2>1, FS_EmptySet DEF Sized
    <3>2. Sum(s) = 0
      BY <2>1, <3>1, SumUnfolds DEF Sized
    <3> QED  BY <3>1, <3>2
  <2> HIDE DEF Good
  <2> QED  BY <2>1
<1>2. ASSUME NEW n \in N PROVE n + 1 \in N
  <2>0. n \in Nat /\ \A s : Sized(s) /\ Cardinality(s) <= n => Good(s)
    OBVIOUS
  <2>1. ASSUME NEW s, Sized(s), Cardinality(s) <= n + 1 PROVE Good(s)
    <3>1. CASE s = {}
      BY <2>1, <3>1, SumUnfolds DEF Sized
    <3>2. CASE s # {}
      <4> DEFINE c == Chosen(s)
      <4>1. c \in s /\ c.size \in Nat
        BY <2>1, <3>2, OneLess DEF Sized
      <4>2. Sum(s) = c.size + Sum(s \ {c})
        BY <2>1, <3>2, SumUnfolds DEF Sized
      <4>3. \A x \in s : Sized(s \ {x}) /\ Cardinality(s \ {x}) <= n
        <5>1. /\ IsFiniteSet(s) /\ Cardinality(s) \in Nat
              /\ \A x \in s : /\ IsFiniteSet(s \ {x})
                              /\ Cardinality(s \ {x}) = Cardinality(s) - 1
          BY <1>0, <2>1, <3>2, OneLess DEF Sized
        <5>2. \A x \in s : Sized(s \ {x})
          BY <2>1, <5>1 DEF Sized
        <5>3. n \in Nat /\ Cardinality(s) <= n + 1
          BY <2>0, <2>1
        <5>4. \A x \in s : Cardinality(s \ {x}) <= n
          <6> HIDE DEF Good
          <6> QED  BY ONLY <5>1, <5>3
        <5> QED  BY <5>2, <5>4
      <4>4. \A x \in s : Good(s \ {x})
        <5> HIDE DEF Good
        <5> QED  BY <2>0, <4>3
      <4>5. \A x \in s : Sum(s \ {x}) \in Nat
        BY <4>4
      <4>6. ASSUME NEW x \in s PROVE Sum(s) = x.size + Sum(s \ {x})
        <5>1. CASE x = c
          BY <4>2, <5>1
        <5>2. CASE x # c
          <6> DEFINE r == (s \ {c}) \ {x}
          <6>1. x \in s \ {c} /\ c \in s \ {x} /\ r = (s \ {x}) \ {c} /\ x.size \in Nat
            BY <2>1, <4>1, <5>2 DEF Sized
          <6>2. Sum(s \ {c}) = x.size + Sum(r)
            BY <4>1, <4>4, <6>1
          <6>3. Sum(s \ {x}) = c.size + Sum(r)
            BY <4>4, <6>1
          <6>4. Sum(r) \in Nat
            <7>1. Sized(r) /\ Cardinality(r) <= n
              <8>1. Sized(s \ {c}) /\ Cardinality(s \ {c}) <= n /\ Cardinality(s \ {c}) \in Nat
                BY <1>0, <4>1, <4>3
              <8>2. /\ IsFiniteSet(r) /\ Cardinality(r) = Cardinality(s \ {c}) - 1
                    /\ \A d \in r : d.size \in Nat
                BY <6>1, <8>1, OneLess DEF Sized
              <8> QED  BY <2>0, <8>1, <8>2 DEF Sized
            <7>2. Good(r)
              <8> HIDE DEF Good
              <8> QED  BY <2>0, <7>1
            <7> QED  BY <7>2
          <6> HIDE DEF r, c
          <6> QED  BY <4>1, <4>2, <6>1, <6>2, <6>3, <6>4
        <5> QED  BY <5>1, <5>2
      <4>7. Sum(s) \in Nat
        <5>1. Sum(s \ {c}) \in Nat
          BY <4>1, <4>5
        <5> HIDE DEF c
        <5> QED  BY <4>1, <4>2, <5>1
      <4> QED  BY <4>6, <4>7
    <3> QED  BY <3>1, <3>2
  <2> HIDE DEF Good
  <2> QED  BY <2>0, <2>1
<1>3. N = Nat
  <2> HIDE DEF N
  <2>1. N \in SUBSET Nat
    BY DEF N
  <2> QED  BY <1>1, <1>2, <2>1, AllNumbers
<1>4. Good(S)
  <2> HIDE DEF Good
  <2> QED  BY <1>0, <1>3
<1> QED  BY <1>4

LEMMA SumOfAdded ==
    ASSUME NEW S, Sized(S), NEW d, d.size \in Nat
    PROVE  Sized(S \cup {d}) /\ Sum(S \cup {d}) <= Sum(S) + d.size
<1>1. Sized(S \cup {d})
  BY FS_AddElement DEF Sized
<1>2. Sum(S) \in Nat
  BY SumOfElement
<1>3. CASE d \in S
  <2>1. S \cup {d} = S
    BY <1>3
  <2> QED  BY <1>1, <1>2, <2>1
<1>4. CASE d \notin S
  <2>1. (S \cup {d}) \ {d} = S
    BY <1>4
  <2>2. Sum(S \cup {d}) = d.size + Sum((S \cup {d}) \ {d})
    BY <1>1, SumOfElement
  <2>3. Sum(S \cup {d}) = d.size + Sum(S)
    BY <2>1, <2>2
  <2> QED  BY <1>1, <1>2, <2>3
<1> QED  BY <1>3, <1>4

\* The documents of R need no more room than those of S if each of them has the
\* size of one of S of its own.
Fits(f, R, S) ==
    /\ \A r \in R : f[r] \in S /\ r.size = f[r].size
    /\ \A r, t \in R : f[r] = f[t] => r = t

LEMMA SumOfFitting ==
    ASSUME NEW S, Sized(S), NEW R, NEW f, Fits(f, R, S)
    PROVE  Sized(R) /\ Sum(R) <= Sum(S)
<1> DEFINE Good(r, s) == Sized(r) /\ Sum(r) <= Sum(s)
           N == {n \in Nat : \A r, s : Sized(s) /\ Cardinality(s) <= n /\ Fits(f, r, s) => Good(r, s)}
<1>0. \A s : Sized(s) => Cardinality(s) \in Nat /\ IsFiniteSet(s) /\ Sum(s) \in Nat
  BY FS_CardinalityType, SumOfElement DEF Sized
<1>1. \A r, s : Sized(s) /\ r = {} => Good(r, s)
  <2>1. Sized({}) /\ Sum({}) = 0
    BY FS_EmptySet, SumUnfolds DEF Sized
  <2> QED  BY <1>0, <2>1
<1>2. 0 \in N
  <2>1. ASSUME NEW r, NEW s, Sized(s), Cardinality(s) <= 0, Fits(f, r, s) PROVE Good(r, s)
    <3>1. s = {}
      BY <1>0, <2>1, FS_EmptySet
    <3>2. r = {}
      BY <2>1, <3>1 DEF Fits
    <3> QED  BY <1>1, <2>1, <3>2
  <2> HIDE DEF Good
  <2> QED  BY <2>1
<1>3. ASSUME NEW n \in N PROVE n + 1 \in N
  <2>0. n \in Nat /\ \A r, s : Sized(s) /\ Cardinality(s) <= n /\ Fits(f, r, s) => Good(r, s)
    OBVIOUS
  <2>1. ASSUME NEW r, NEW s, Sized(s), Cardinality(s) <= n + 1, Fits(f, r, s), NEW x \in r
        PROVE  Good(r, s)
    <3> DEFINE q == r \ {x}
               t == s \ {f[x]}
    <3>1. f[x] \in s /\ x.size = f[x].size /\ x.size \in Nat
      BY <2>1 DEF Fits, Sized
    <3>2. Sized(t) /\ Cardinality(t) <= n
      <4>1. /\ IsFiniteSet(s) /\ Cardinality(s) \in Nat
            /\ IsFiniteSet(t) /\ Cardinality(t) = Cardinality(s) - 1
        BY <1>0, <2>1, <3>1, OneLess
      <4>2. Sized(t)
        BY <2>1, <4>1 DEF Sized
      <4> QED  BY <2>0, <2>1, <4>1, <4>2
    <3>3. Fits(f, q, t)
      BY <2>1 DEF Fits
    <3>4. Sized(q) /\ Sum(q) <= Sum(t)
      <4>1. Good(q, t)
        <5> HIDE DEF Good, q, t
        <5> QED  BY <2>0, <3>2, <3>3
      <4> QED  BY <4>1
    <3>5. Sized(r) /\ Sum(r) <= Sum(q) + x.size
      <4>1. r = q \cup {x}
        OBVIOUS
      <4> HIDE DEF q
      <4> QED  BY <3>1, <3>4, <4>1, SumOfAdded
    <3>6. Sum(s) = x.size + Sum(t)
      <4>1. Sum(s) = f[x].size + Sum(s \ {f[x]})
        BY <2>1, <3>1, SumOfElement
      <4> QED  BY <3>1, <4>1
    <3>7. Sum(q) \in Nat /\ Sum(t) \in Nat /\ Sum(r) \in Nat
      BY <1>0, <3>2, <3>4, <3>5
    <3> HIDE DEF q, t
    <3> QED  BY <3>1, <3>4, <3>5, <3>6, <3>7
  <2>2. \A r, s : Sized(s) /\ Cardinality(s) <= n + 1 /\ Fits(f, r, s) => Good(r, s)
    <3> HIDE DEF Good
    <3> QED  BY <1>1, <2>1
  <2> HIDE DEF Good
  <2> QED  BY <2>0, <2>2
<1>4. N = Nat
  <2> HIDE DEF N
  <2>1. N \in SUBSET Nat
    BY DEF N
  <2> QED  BY <1>2, <1>3, <2>1, AllNumbers
<1>5. Good(R, S)
  <2> HIDE DEF Good
  <2> QED  BY <1>0, <1>4
<1> QED  BY <1>5

LEMMA SumOfPart ==
    ASSUME NEW S, Sized(S), NEW R \in SUBSET S
    PROVE  Sized(R) /\ Sum(R) <= Sum(S)
<1> DEFINE f == [r \in R |-> r]
<1>1. Fits(f, R, S)
  BY DEF Fits
<1> HIDE DEF f
<1> QED  BY <1>1, SumOfFitting

-----------------------------------------------------------------------------
(* The quota *)

Largest == Max(Sizes)
Overshoot == (Cardinality(Requests) - 1) * Largest

\* What every uploader counts against the quota.
Live == {d \in documents : ~d.deleted /\ d.class <= LowestClearance}

\* Uploads that have passed the check and are not published.
Admitted == {q \in Requests : job[q].phase \in {"insert", "inserted"}}

\* The uploads in P, of the sizes z, fit on top of s: the one that was checked last
\* counted s as it was then, and the others are at most as large as any file.
Room(s, P, z) ==
    IF P = {} THEN s <= Quota + Overshoot
    ELSE \E q \in P : s + z[q] + (Cardinality(P) - 1) * Largest <= Quota + Overshoot

AdmittedSizes == [q \in Requests |-> job[q].size]

UploadersMayUpload == \A q \in Requests : Uploading(q) => MayUpload(job[q].by)

QuotaInv ==
    /\ IsFiniteSet(documents)
    /\ UploadersMayUpload
    /\ Room(Sum(Live), Admitted, AdmittedSizes)

LEMMA LargestIsLargest == Sizes # {} /\ Largest \in Nat /\ \A size \in Sizes : size \in Nat /\ size <= Largest
<1>1. PICK m \in Sizes : \A size \in Sizes : size <= m
  BY DocumentsAssumption
<1>2. \A x, y \in Nat : x <= y => y >= x
  OBVIOUS
<1>3. m \in Sizes /\ \A size \in Sizes : m >= size
  BY <1>1, <1>2, DocumentsAssumption
<1>4. Largest \in Sizes /\ \A size \in Sizes : Largest >= size
  BY <1>3 DEF Largest, Max
<1> QED  BY <1>4, DocumentsAssumption

LEMMA LowestIsLowest ==
    ASSUME NEW u \in Users, MayUpload(u)
    PROVE  LowestClearance \in 0 .. 3 /\ LowestClearance <= Rank[u]
<1> DEFINE R == {Rank[v] : v \in {w \in Users : MayUpload(w)}}
<1>1. R \in SUBSET Nat /\ Rank[u] \in R /\ R \subseteq 0 .. 3
  BY DocumentsAssumption
<1>2. PICK n \in R : \A m \in R : n <= m
  <2> HIDE DEF R
  <2> QED  BY <1>1, LeastNat
<1>3. Min(R) \in R /\ \A m \in R : Min(R) <= m
  <2> HIDE DEF R
  <2> QED  BY <1>2 DEF Min
<1>4. LowestClearance = Min(R)
  BY DEF LowestClearance
<1> HIDE DEF R
<1> QED  BY <1>1, <1>3, <1>4

LEMMA Products ==
    ASSUME NEW m \in Nat
    PROVE  /\ \A k \in Nat : k * m \in Nat
           /\ \A k \in Nat : (k + 1) * m = k * m + m
           /\ \A k, n \in Nat : k <= n => k * m <= n * m
<1>1. \A k, d \in Nat : (k + d) * m = k * m + d * m /\ d * m \in Nat /\ k * m \in Nat
  OBVIOUS
<1>2. ASSUME NEW k \in Nat, NEW n \in Nat, k <= n PROVE k * m <= n * m
  <2>1. n = k + (n - k) /\ n - k \in Nat
    BY <1>2
  <2>2. n * m = k * m + (n - k) * m /\ (n - k) * m \in Nat /\ k * m \in Nat
    BY <1>1, <2>1
  <2> QED  BY <2>2
<1>3. \A k \in Nat : (k + 1) * m = k * m + m
  OBVIOUS
<1> QED  BY <1>1, <1>2, <1>3

LEMMA BoundIsNat == Overshoot \in Nat /\ Quota \in Nat
<1>1. Cardinality(Requests) \in Nat /\ Cardinality(Requests) # 0
  BY DocumentsAssumption, FS_CardinalityType, FS_EmptySet
<1>2. Cardinality(Requests) - 1 \in Nat
  BY <1>1
<1> QED  BY <1>2, LargestIsLargest, Products, DocumentsAssumption DEF Overshoot

LEMMA RoomBounds ==
    ASSUME NEW s \in Nat, NEW P, IsFiniteSet(P), NEW z, \A q \in P : z[q] \in Sizes,
           Room(s, P, z)
    PROVE  s <= Quota + Overshoot
<1>1. CASE P = {}
  BY <1>1 DEF Room
<1>2. CASE P # {}
  <2>1. PICK q \in P : s + z[q] + (Cardinality(P) - 1) * Largest <= Quota + Overshoot
    BY <1>2 DEF Room
  <2>2. Cardinality(P) - 1 \in Nat
    BY <1>2, FS_CardinalityType, FS_EmptySet
  <2>3. (Cardinality(P) - 1) * Largest \in Nat /\ z[q] \in Nat
    BY <2>2, LargestIsLargest, Products
  <2> QED  BY <2>1, <2>3, BoundIsNat
<1> QED  BY <1>1, <1>2

\* Less is stored, and admitted uploads end.
LEMMA RoomGrows ==
    ASSUME NEW s \in Nat, NEW t \in Nat, t <= s,
           NEW P, IsFiniteSet(P), NEW R \in SUBSET P,
           NEW z, \A q \in P : z[q] \in Sizes, NEW y, \A q \in R : y[q] = z[q],
           Room(s, P, z)
    PROVE  Room(t, R, y)
<1>1. CASE R = {}
  BY <1>1, RoomBounds, BoundIsNat DEF Room
<1>2. CASE R # {}
  <2>1. PICK q \in P : s + z[q] + (Cardinality(P) - 1) * Largest <= Quota + Overshoot
    BY <1>2 DEF Room
  <2>2. /\ IsFiniteSet(R) /\ Cardinality(R) - 1 \in Nat /\ Cardinality(P) - 1 \in Nat
        /\ Cardinality(R) <= Cardinality(P)
    BY <1>2, FS_Subset, FS_CardinalityType, FS_EmptySet
  <2> DEFINE k == Cardinality(P) - 1
             n == Cardinality(R) - 1
  <2>3. /\ Largest \in Nat /\ k * Largest \in Nat /\ n * Largest \in Nat
        /\ n <= k /\ n * Largest <= k * Largest
    <3>1. n \in Nat /\ k \in Nat /\ n <= k
      BY <2>2, FS_CardinalityType
    <3> HIDE DEF n, k
    <3> QED  BY <3>1, LargestIsLargest, Products
  <2>4. \A p \in P : z[p] \in Nat /\ z[p] <= Largest
    BY LargestIsLargest
  <2>5. CASE q \in R
    <3>1. t + y[q] + n * Largest <= Quota + Overshoot
      <4> HIDE DEF n
      <4>1. s + z[q] + k * Largest <= Quota + Overshoot
        BY <2>1
      <4> HIDE DEF k
      <4>2. y[q] = z[q] /\ z[q] \in Nat
        BY <2>4, <2>5
      <4> QED  BY <2>3, <4>1, <4>2, BoundIsNat
    <3> QED  BY <1>2, <2>5, <3>1 DEF Room
  <2>6. CASE q \notin R
    <3>1. PICK p \in R : TRUE
      BY <1>2
    <3>2. Cardinality(R) + 1 <= Cardinality(P)
      <4>1. Cardinality(R) = Cardinality(P) => R = P
        BY FS_Subset
      <4> QED  BY <2>2, <2>6, <4>1, FS_CardinalityType
    <3>3. n * Largest + Largest <= k * Largest
      <4>1. n \in Nat /\ k \in Nat /\ n + 1 <= k /\ n + 1 \in Nat
        BY <2>2, <3>2, FS_CardinalityType
      <4> HIDE DEF n, k
      <4>2. (n + 1) * Largest = n * Largest + Largest /\ (n + 1) * Largest <= k * Largest
        BY <4>1, LargestIsLargest, Products
      <4> QED  BY <4>2
    <3>4. t + y[p] + n * Largest <= Quota + Overshoot
      <4>1. s + z[q] + k * Largest <= Quota + Overshoot
        BY <2>1
      <4> HIDE DEF n, k
      <4>2. y[p] = z[p] /\ z[p] \in Nat /\ z[p] <= Largest /\ z[q] \in Nat
        BY <2>4, <3>1
      <4> QED  BY <2>3, <3>3, <4>1, <4>2, BoundIsNat
    <3> QED  BY <1>2, <3>1, <3>4 DEF Room
  <2> QED  BY <2>5, <2>6
<1> QED  BY <1>1, <1>2

\* An admitted upload is stored.
LEMMA RoomIsTaken ==
    ASSUME NEW s \in Nat, NEW P, IsFiniteSet(P), NEW z, \A q \in P : z[q] \in Sizes,
           NEW p \in P, NEW t \in Nat, t <= s + z[p], Room(s, P, z),
           NEW y, \A q \in P \ {p} : y[q] = z[q]
    PROVE  Room(t, P \ {p}, y)
<1> DEFINE R == P \ {p}
<1>1. PICK q \in P : s + z[q] + (Cardinality(P) - 1) * Largest <= Quota + Overshoot
  BY DEF Room
<1>2. /\ IsFiniteSet(R) /\ Cardinality(R) = Cardinality(P) - 1
      /\ Cardinality(R) \in Nat
  BY FS_RemoveElement, FS_CardinalityType
<1> DEFINE n == Cardinality(R)
<1>3. \A r \in P : z[r] \in Nat /\ z[r] <= Largest
  BY LargestIsLargest
<1>4. s + z[q] + n * Largest <= Quota + Overshoot
  BY <1>1, <1>2
<1>5. n \in Nat /\ Largest \in Nat /\ n * Largest \in Nat
  <2>1. n \in Nat
    BY <1>2
  <2> HIDE DEF n
  <2> QED  BY <2>1, LargestIsLargest, Products
<1>6. CASE R = {}
  <2>1. q = p
    BY <1>6
  <2>2. t <= Quota + Overshoot
    <3> HIDE DEF n
    <3> QED  BY <1>3, <1>4, <1>5, <2>1, BoundIsNat
  <2> QED  BY <1>6, <2>2 DEF Room
<1>7. CASE R # {}
  <2>1. n - 1 \in Nat /\ n * Largest = (n - 1) * Largest + Largest /\ (n - 1) * Largest \in Nat
    <3>1. n # 0 /\ n \in Nat
      BY <1>2, <1>7, FS_EmptySet
    <3> HIDE DEF n
    <3>2. n - 1 \in Nat /\ (n - 1) + 1 = n
      BY <3>1
    <3> QED  BY <3>2, LargestIsLargest, Products
  <2>2. PICK r \in R : r = q \/ q = p
    BY <1>7
  <2>3. t + y[r] + (n - 1) * Largest <= Quota + Overshoot
    <3>1. y[r] = z[r] /\ z[r] \in Nat /\ z[r] <= Largest
      BY <1>3
    <3>2. z[p] \in Nat /\ z[p] <= Largest
      BY <1>3
    <3> HIDE DEF n, R
    <3>3. CASE q = p
      BY <1>4, <1>5, <2>1, <3>1, <3>2, <3>3, BoundIsNat
    <3>4. CASE r = q
      BY <1>4, <1>5, <2>1, <3>1, <3>2, <3>4, BoundIsNat
    <3> QED  BY <2>2, <3>3, <3>4
  <2> QED  BY <1>7, <2>3 DEF Room
<1> QED  BY <1>6, <1>7

\* Documents rewritten one by one, none of them brought back.
Image(g, R, A) == \A r \in R : \E d \in A : r = g[d] /\ r.size = d.size

LEMMA ImageFits ==
    ASSUME NEW A, NEW g, NEW R, Image(g, R, A)
    PROVE  \E f : Fits(f, R, A)
<1> DEFINE f == [r \in R |-> CHOOSE d \in A : r = g[d] /\ r.size = d.size]
<1>1. \A r \in R : f[r] \in A /\ r = g[f[r]] /\ r.size = f[r].size
  BY DEF Image
<1> HIDE DEF f
<1>2. Fits(f, R, A)
  BY <1>1 DEF Fits
<1> QED  BY <1>2

LEMMA DocumentsSized ==
    ASSUME TypeOK, IsFiniteSet(documents)
    PROVE  Sized(documents) /\ Sized(Live) /\ Sum(Live) \in Nat
<1>1. Sized(documents)
  BY DocumentsAssumption DEF TypeOK, Rows, Sized
<1>2. Live \subseteq documents
  BY DEF Live
<1> QED  BY <1>1, <1>2, SumOfPart, SumOfElement

LEMMA AdmittedAreSized ==
    ASSUME TypeOK
    PROVE  IsFiniteSet(Admitted) /\ \A q \in Admitted : AdmittedSizes[q] \in Sizes
<1>1. IsFiniteSet(Admitted)
  BY DocumentsAssumption, FS_Subset DEF Admitted
<1>2. \A q \in Admitted : q \in Requests /\ job[q] \in Uploads
  BY JobKinds DEF Admitted, Uploading
<1> QED  BY <1>1, <1>2 DEF AdmittedSizes, Uploads

\* A step that stores nothing and admits nobody.
Declines ==
    /\ \E f : Fits(f, documents', documents)
    /\ \E f : Fits(f, Live', Live)
    /\ Admitted' \subseteq Admitted
    /\ \A q \in Admitted' : job'[q].size = job[q].size

LEMMA DecliningKeepsQuotaInv ==
    ASSUME TypeOK, QuotaInv, Declines, UploadersMayUpload'
    PROVE  QuotaInv'
<1>1. Sized(documents) /\ Sized(Live) /\ Sum(Live) \in Nat
  BY DocumentsSized DEF QuotaInv
<1>2. IsFiniteSet(documents')
  BY <1>1, SumOfFitting DEF Declines, Sized
<1>3. Sized(Live') /\ Sum(Live') <= Sum(Live) /\ Sum(Live') \in Nat
  BY <1>1, SumOfFitting, SumOfElement DEF Declines
<1>4. /\ IsFiniteSet(Admitted) /\ \A q \in Admitted : AdmittedSizes[q] \in Sizes
      /\ Admitted' \in SUBSET Admitted
      /\ \A q \in Admitted' : AdmittedSizes'[q] = AdmittedSizes[q]
  BY AdmittedAreSized DEF Declines, AdmittedSizes, Admitted
<1>5. Room(Sum(Live'), Admitted', AdmittedSizes')
  BY <1>1, <1>3, <1>4, RoomGrows DEF QuotaInv
<1>6. Room(Sum(Live), Admitted, AdmittedSizes)'
  BY <1>5 DEF Room, Sum, MapThenSumSet, MapThenFoldSet
<1> QED  BY <1>2, <1>6 DEF QuotaInv

LEMMA SameFits ==
    ASSUME NEW A, NEW R \in SUBSET A
    PROVE  \E f : Fits(f, R, A)
<1> DEFINE f == [r \in R |-> r]
<1>1. Fits(f, R, A)
  BY DEF Fits
<1> HIDE DEF f
<1> QED  BY <1>1

LEMMA SameDocumentsFit ==
    ASSUME documents' = documents
    PROVE  (\E f : Fits(f, documents', documents)) /\ (\E f : Fits(f, Live', Live))
<1>1. Live' = Live
  BY DEF Live
<1> QED  BY <1>1, SameFits

LEMMA RewrittenDocumentsFit ==
    ASSUME TypeOK, NEW g, documents' = {g[d] : d \in documents},
           \A d \in documents : /\ g[d].size = d.size /\ g[d].class = d.class
                                /\ d.deleted => g[d].deleted
    PROVE  (\E f : Fits(f, documents', documents)) /\ (\E f : Fits(f, Live', Live))
<1>1. Image(g, documents', documents)
  BY DEF Image
<1>2. Image(g, Live', Live)
  BY DEF Live, Image
<1> QED  BY <1>1, <1>2, ImageFits

LEMMA DeletedDocumentsFit ==
    ASSUME TypeOK, NEW q \in Requests, CommitDelete(q)
    PROVE  (\E f : Fits(f, documents', documents)) /\ (\E f : Fits(f, Live', Live))
<1> DEFINE g == [d \in documents |-> IF d.id = job[q].id THEN [d EXCEPT !.deleted = TRUE] ELSE d]
<1>1. documents' = {g[d] : d \in documents}
  BY DEF CommitDelete
<1>2. \A d \in documents : /\ g[d].size = d.size /\ g[d].class = d.class
                           /\ d.deleted => g[d].deleted
  BY DEF TypeOK, Rows
<1> HIDE DEF g
<1> QED  BY <1>1, <1>2, RewrittenDocumentsFit

LEMMA HeldDocumentsFit ==
    ASSUME TypeOK, NEW u, NEW d \in documents, NEW hold \in BOOLEAN, SetLegalHold(u, d, hold)
    PROVE  (\E f : Fits(f, documents', documents)) /\ (\E f : Fits(f, Live', Live))
<1> DEFINE g == [e \in documents |-> IF e = d THEN [d EXCEPT !.hold = hold] ELSE e]
<1>1. documents' = {g[e] : e \in documents}
  BY DEF SetLegalHold
<1>2. \A e \in documents : /\ g[e].size = e.size /\ g[e].class = e.class
                           /\ e.deleted => g[e].deleted
  BY DEF TypeOK, Rows
<1> HIDE DEF g
<1> QED  BY <1>1, <1>2, RewrittenDocumentsFit

LEMMA ErasedDocumentsFit ==
    ASSUME TypeOK, NEW q \in Requests, CommitErase(q)
    PROVE  (\E f : Fits(f, documents', documents)) /\ (\E f : Fits(f, Live', Live))
<1> DEFINE g == [d \in documents |->
               [d EXCEPT !.deleted = @ \/ d.id \in job[q].docs,
                         !.uploadedBy = IF @ = job[q].target THEN NoUser ELSE @]]
<1>1. documents' = {g[d] : d \in documents}
  BY DEF CommitErase
<1>2. \A d \in documents : /\ g[d].size = d.size /\ g[d].class = d.class
                           /\ d.deleted => g[d].deleted
  BY DEF TypeOK, Rows
<1> HIDE DEF g
<1> QED  BY <1>1, <1>2, RewrittenDocumentsFit

\* A step that lets every upload alone.
LEMMA QuietKeepsQuotaInv ==
    ASSUME TypeOK, QuotaInv, Quiet,
           (\E f : Fits(f, documents', documents)) /\ (\E f : Fits(f, Live', Live))
    PROVE  QuotaInv'
<1>1. Admitted' \subseteq Admitted /\ \A q \in Admitted' : job'[q].size = job[q].size
  BY DEF Quiet, Admitted, Uploading
<1>2. UploadersMayUpload'
  BY DEF QuotaInv, UploadersMayUpload, Quiet, Uploading, MayUpload
<1> QED  BY <1>1, <1>2, DecliningKeepsQuotaInv DEF Declines

\* A request that begins an upload, or a step of one that is not admitted by it.
LEMMA UploadsComeAndGo ==
    ASSUME TypeOK, QuotaInv, NEW q \in Requests, documents' = documents,
           \A p \in Requests : p # q => job'[p] = job[p],
           \/ job'[q].phase = "quota" /\ MayUpload(job'[q].by)
           \/ job'[q].phase = "idle"
           \/ /\ job'[q].phase \in {"insert", "inserted", "cleanup"}
              /\ Uploading(q) /\ job'[q].by = job[q].by /\ job'[q].size = job[q].size
              /\ job'[q].phase # "cleanup" => job[q].phase \in {"insert", "inserted"}
    PROVE  QuotaInv'
<1>1. Admitted' \subseteq Admitted /\ \A p \in Admitted' : job'[p].size = job[p].size
  BY DEF Admitted
<1>2. UploadersMayUpload'
  BY DEF QuotaInv, UploadersMayUpload, Uploading, MayUpload
<1> QED  BY <1>1, <1>2, SameDocumentsFit, DecliningKeepsQuotaInv DEF Declines

\* enforceStorageQuota counts all that is live and the file at hand.
LEMMA AdmissionKeepsQuotaInv ==
    ASSUME TypeOK, QuotaInv, NEW q \in Requests, StoreFile(q), FitsQuota(q),
           job[q].class <= clearanceForRole(job[q].by)
    PROVE  QuotaInv'
<1>1. job[q].phase = "quota" /\ Uploading(q) /\ documents' = documents /\ Advance(q, "insert")
  BY DEF StoreFile, In, Uploading
<1>2. /\ \A p \in Requests : p # q => job'[p] = job[p]
      /\ job'[q].phase = "insert" /\ job'[q].size = job[q].size /\ job'[q].by = job[q].by
  BY <1>1, AdvanceSets
<1>3. job[q] \in Uploads /\ job[q].by \in Users /\ job[q].size \in Nat /\ MayUpload(job[q].by)
  BY <1>1, JobKinds, DocumentsAssumption DEF Uploads, QuotaInv, UploadersMayUpload
<1> DEFINE Seeable == {d \in VisibleTo(job[q].by) : ~d.deleted}
<1>4. Sized(documents) /\ Sized(Live) /\ Sum(Live) \in Nat
  BY DocumentsSized DEF QuotaInv
<1>5. Sum(Live) <= Sum(Seeable) /\ Sum(Seeable) \in Nat
  <2>1. Seeable \subseteq documents
    BY DEF VisibleTo
  <2>2. LowestClearance \in 0 .. 3 /\ LowestClearance <= Rank[job[q].by] /\ Rank[job[q].by] \in 0 .. 3
    BY <1>3, LowestIsLowest, DocumentsAssumption
  <2>3. \A d \in documents : d.class \in 0 .. 3
    BY DocumentsAssumption DEF TypeOK, Rows
  <2>4. Live \subseteq Seeable
    BY <2>2, <2>3 DEF Live, VisibleTo, clearanceForRole
  <2> HIDE DEF Seeable
  <2> QED  BY <1>4, <2>1, <2>4, SumOfPart, SumOfElement
<1>6. Sum(Seeable) + job[q].size <= Quota
  BY DEF FitsQuota, Usage, Sum
<1>7. Admitted' = Admitted \cup {q} /\ IsFiniteSet(Admitted') /\ Admitted' \subseteq Requests
  <2>1. Admitted' = Admitted \cup {q} /\ Admitted' \subseteq Requests
    BY <1>2 DEF Admitted
  <2> QED  BY <2>1, DocumentsAssumption, FS_Subset
<1>8. /\ Cardinality(Admitted') - 1 \in Nat
      /\ (Cardinality(Admitted') - 1) * Largest <= Overshoot
      /\ (Cardinality(Admitted') - 1) * Largest \in Nat
  <2>1. /\ Cardinality(Admitted') \in Nat /\ Cardinality(Admitted') # 0
        /\ Cardinality(Requests) \in Nat /\ Cardinality(Admitted') <= Cardinality(Requests)
    BY <1>7, DocumentsAssumption, FS_Subset, FS_CardinalityType, FS_EmptySet
  <2> DEFINE n == Cardinality(Admitted') - 1
             k == Cardinality(Requests) - 1
  <2>2. n \in Nat /\ k \in Nat /\ n <= k
    BY <2>1
  <2>3. Overshoot = k * Largest
    BY DEF Overshoot
  <2> HIDE DEF n, k
  <2>4. n * Largest <= Overshoot /\ n * Largest \in Nat
    BY <2>2, <2>3, LargestIsLargest, Products
  <2> QED  BY <2>2, <2>4 DEF n
<1>9. Live' = Live
  BY <1>1 DEF Live
<1>10. Sum(Live') + AdmittedSizes'[q] + (Cardinality(Admitted') - 1) * Largest <= Quota + Overshoot
  <2>1. AdmittedSizes'[q] = job[q].size
    BY <1>2 DEF AdmittedSizes
  <2> HIDE DEF Seeable
  <2> QED  BY <1>3, <1>4, <1>5, <1>6, <1>8, <1>9, <2>1, BoundIsNat
<1>11. Room(Sum(Live'), Admitted', AdmittedSizes')
  BY <1>7, <1>10 DEF Room
<1>12. Room(Sum(Live), Admitted, AdmittedSizes)'
  BY <1>11 DEF Room, Sum, MapThenSumSet, MapThenFoldSet
<1>13. UploadersMayUpload'
  BY <1>1, <1>2 DEF QuotaInv, UploadersMayUpload, Uploading, MayUpload
<1>14. IsFiniteSet(documents')
  BY <1>1 DEF QuotaInv
<1> QED  BY <1>12, <1>13, <1>14 DEF QuotaInv

LEMMA CommitKeepsQuotaInv ==
    ASSUME TypeOK, QuotaInv, NEW q \in Requests, CommitUpload(q) \/ CommitUnanswered(q)
    PROVE  QuotaInv'
<1>1. /\ job[q].phase = "inserted" /\ Uploading(q) /\ q \in Admitted
      /\ documents' = documents \cup {NewDocument(job[q])}
      /\ Done(q) \/ Advance(q, "cleanup")
  BY DEF CommitUpload, CommitUnanswered, In, Uploading, Admitted, Publish, NewDocument
<1>2. /\ \A p \in Requests : p # q => job'[p] = job[p]
      /\ \/ job'[q].phase = "idle"
         \/ job'[q].phase = "cleanup" /\ job'[q].by = job[q].by
  <2>1. CASE Done(q)
    BY <2>1, DoneSets DEF JobSet, Idle
  <2>2. CASE Advance(q, "cleanup")
    BY <1>1, <2>2, AdvanceSets
  <2> QED  BY <1>1, <2>1, <2>2
<1> DEFINE new == NewDocument(job[q])
<1>3. job[q] \in Uploads /\ new.size = job[q].size /\ new.size \in Nat
  BY <1>1, JobKinds, DocumentsAssumption DEF Uploads, NewDocument
<1>4. Sized(documents) /\ Sized(Live) /\ Sum(Live) \in Nat
  BY DocumentsSized DEF QuotaInv
<1>5. Sized(documents')
  <2> HIDE DEF new
  <2> QED  BY <1>1, <1>3, <1>4, SumOfAdded DEF new
<1>6. Sum(Live') <= Sum(Live) + job[q].size /\ Sum(Live') \in Nat
  <2>1. Live' \in SUBSET (Live \cup {new})
    BY <1>1 DEF Live
  <2> HIDE DEF new
  <2>2. Sized(Live \cup {new}) /\ Sum(Live \cup {new}) <= Sum(Live) + job[q].size
    BY <1>3, <1>4, SumOfAdded
  <2>3. /\ Sum(Live') <= Sum(Live \cup {new}) /\ Sum(Live') \in Nat
        /\ Sum(Live \cup {new}) \in Nat
    BY <2>1, <2>2, SumOfPart, SumOfElement
  <2> QED  BY <1>3, <1>4, <2>2, <2>3
<1>7. Admitted' = Admitted \ {q} /\ \A p \in Admitted \ {q} : AdmittedSizes'[p] = AdmittedSizes[p]
  BY <1>2 DEF Admitted, AdmittedSizes
<1>8. Room(Sum(Live'), Admitted', AdmittedSizes')
  <2>1. AdmittedSizes[q] = job[q].size
    BY DEF AdmittedSizes
  <2> QED  BY <1>1, <1>4, <1>6, <1>7, <2>1, AdmittedAreSized, RoomIsTaken DEF QuotaInv
<1>9. Room(Sum(Live), Admitted, AdmittedSizes)'
  BY <1>8 DEF Room, Sum, MapThenSumSet, MapThenFoldSet
<1>10. UploadersMayUpload'
  BY <1>1, <1>2 DEF QuotaInv, UploadersMayUpload, Uploading, MayUpload
<1> QED  BY <1>5, <1>9, <1>10 DEF QuotaInv, Sized

LEMMA InitQuotaInv == Init => QuotaInv
<1> SUFFICES ASSUME Init PROVE QuotaInv
  OBVIOUS
<1>1. documents = {} /\ \A q \in Requests : job[q].phase = "idle"
  BY DEF Init, Idle
<1>2. Live = {} /\ Admitted = {} /\ UploadersMayUpload /\ IsFiniteSet(documents)
  BY <1>1, FS_EmptySet DEF Live, Admitted, UploadersMayUpload, Uploading
<1>3. Sum(Live) = 0
  BY <1>2, SumUnfolds, FS_EmptySet
<1> QED  BY <1>2, <1>3, BoundIsNat DEF QuotaInv, Room

LEMMA NextQuotaInv == TypeOK /\ QuotaInv /\ [Next]_vars => QuotaInv'
<1> SUFFICES ASSUME TypeOK, QuotaInv, [Next]_vars PROVE QuotaInv'
  OBVIOUS
<1>1. CASE NewRequest
  <2>1. PICK u \in users :
          \/ \E q \in Requests :
                \/ \E size \in Sizes, class \in Classes :
                      \/ BeginUpload(q, u, size, class)
                      \/ \E d \in documents : BeginVersion(q, u, size, class, d)
                \/ \E d \in documents : BeginDelete(q, u, d)
                \/ BeginChat(q, u)
                \/ \E target \in Users : BeginErase(q, u, target)
          \/ \E d \in documents, hold \in BOOLEAN : SetLegalHold(u, d, hold)
    BY <1>1 DEF NewRequest
  <2>2. Arrives /\ u \in Users
    BY <1>1 DEF NewRequest, TypeOK
  <2>3. ASSUME NEW q \in Requests, NEW size \in Sizes, NEW class \in Classes,
               \/ BeginUpload(q, u, size, class)
               \/ \E d \in documents : BeginVersion(q, u, size, class, d)
        PROVE  QuotaInv'
    <3>1. /\ MayUpload(u) /\ documents' = documents
          /\ \E v, r : Start(q, [phase |-> "quota", by |-> u, id |-> begun + 1, size |-> size,
                                 class |-> class, version |-> v, parent |-> r])
      BY <2>3 DEF BeginUpload, BeginVersion, store
    <3>2. /\ \A p \in Requests : p # q => job'[p] = job[p]
          /\ job'[q].phase = "quota" /\ job'[q].by = u
      BY <3>1 DEF Start, TypeOK
    <3> QED  BY <3>1, <3>2, UploadsComeAndGo
  <2>4. ASSUME NEW q \in Requests,
               \/ \E d \in documents : BeginDelete(q, u, d)
               \/ BeginChat(q, u)
               \/ \E target \in Users : BeginErase(q, u, target)
        PROVE  QuotaInv'
    <3>1. Quiet
      BY <2>2, <2>4, NewQuiet
    <3>2. documents' = documents
      BY <2>4 DEF BeginDelete, BeginChat, BeginErase, store
    <3> QED  BY <3>1, <3>2, SameDocumentsFit, QuietKeepsQuotaInv
  <2>5. ASSUME NEW d \in documents, NEW hold \in BOOLEAN, SetLegalHold(u, d, hold)
        PROVE  QuotaInv'
    <3>1. PICK q \in Requests : TRUE
      BY DocumentsAssumption
    <3>2. Quiet
      BY <2>2, <2>5, <3>1, NewQuiet
    <3> QED  BY <2>5, <3>2, HeldDocumentsFit, QuietKeepsQuotaInv
  <2> QED  BY <2>1, <2>3, <2>4, <2>5
<1>2. ASSUME NEW q \in Requests, StoreFile(q) PROVE QuotaInv'
  <2>1. CASE FitsQuota(q) /\ job[q].class <= clearanceForRole(job[q].by)
    BY <1>2, <2>1, AdmissionKeepsQuotaInv
  <2>2. CASE ~(FitsQuota(q) /\ job[q].class <= clearanceForRole(job[q].by))
    <3>1. Done(q) /\ documents' = documents
      BY <1>2, <2>2 DEF StoreFile
    <3>2. /\ \A p \in Requests : p # q => job'[p] = job[p]
          /\ job'[q].phase = "idle"
      BY <3>1, DoneSets DEF JobSet, Idle
    <3> QED  BY <3>1, <3>2, UploadsComeAndGo
  <2> QED  BY <2>1, <2>2
<1>3. ASSUME NEW q \in Requests, InsertDocument(q) \/ UploadFails(q) PROVE QuotaInv'
  <2>1. /\ job[q].phase \in {"insert", "inserted"} /\ Uploading(q) /\ documents' = documents
        /\ Advance(q, "inserted") \/ Advance(q, "cleanup")
    BY <1>3 DEF InsertDocument, UploadFails, In, Uploading, store
  <2>2. /\ \A p \in Requests : p # q => job'[p] = job[p]
        /\ job'[q].phase \in {"inserted", "cleanup"}
        /\ job'[q].by = job[q].by /\ job'[q].size = job[q].size
    BY <2>1, AdvanceSets
  <2> QED  BY <2>1, <2>2, UploadsComeAndGo
<1>4. ASSUME NEW q \in Requests, CommitUpload(q) \/ CommitUnanswered(q) PROVE QuotaInv'
  BY <1>4, CommitKeepsQuotaInv
<1>5. ASSUME NEW q \in Requests, RemoveFile(q) \/ RequestDies(q) PROVE QuotaInv'
  <2>1. Done(q) /\ documents' = documents
    BY <1>5 DEF RemoveFile, RequestDies, store
  <2>2. /\ \A p \in Requests : p # q => job'[p] = job[p]
        /\ job'[q].phase = "idle"
    BY <2>1, DoneSets DEF JobSet, Idle
  <2> QED  BY <2>1, <2>2, UploadsComeAndGo
<1>6. ASSUME NEW q \in Requests,
             CommitDelete(q) \/ PersistTurn(q) \/ Anonymize(q) \/ CommitErase(q)
      PROVE  QuotaInv'
  <2>1. Quiet
    BY <1>6, OtherIsQuiet
  <2>2. (\E f : Fits(f, documents', documents)) /\ (\E f : Fits(f, Live', Live))
    <3>1. CASE PersistTurn(q) \/ Anonymize(q)
      BY <3>1, SameDocumentsFit DEF PersistTurn, Anonymize, store
    <3> QED  BY <1>6, <3>1, DeletedDocumentsFit, ErasedDocumentsFit
  <2> QED  BY <2>1, <2>2, QuietKeepsQuotaInv
<1>7. CASE UNCHANGED vars
  <2>1. documents' = documents /\ job' = job
    BY <1>7 DEF vars, store
  <2>2. UploadersMayUpload' /\ Admitted' = Admitted
    BY <2>1 DEF QuotaInv, UploadersMayUpload, Uploading, MayUpload, Admitted
  <2> QED  BY <2>1, <2>2, SameDocumentsFit, DecliningKeepsQuotaInv DEF Declines
<1> QED  BY <1>1, <1>2, <1>3, <1>4, <1>5, <1>6, <1>7 DEF Next, Upload

\* Uploads that pass the check together exceed the quota by at most one largest
\* file for each other request in flight (storageQuota.ts:41-52).
THEOREM QuotaHoldsUpToUploadsInFlight == Spec => []QuotaOvershootIsBounded
<1>1. TypeOK /\ QuotaInv => QuotaOvershootIsBounded
  <2> SUFFICES ASSUME TypeOK, QuotaInv PROVE QuotaOvershootIsBounded
    OBVIOUS
  <2>1. Sum(Live) <= Quota + Overshoot
    BY DocumentsSized, AdmittedAreSized, RoomBounds DEF QuotaInv
  <2> QED  BY <2>1 DEF QuotaOvershootIsBounded, Sum, Live, Overshoot, Largest
<1>2. Spec => []QuotaInv
  BY InitQuotaInv, NextQuotaInv, DocumentsTypeCorrect, PTL DEF Spec
<1> QED  BY <1>1, <1>2, DocumentsTypeCorrect, PTL

=============================================================================
