---------------------------- MODULE SecurityLog ----------------------------
(***************************************************************************)
(* The tamper-evident security-event log: src/src/audit/securityLog.ts     *)
(* (writers) and src/src/audit/verifyChain.ts (the offline verifier), over *)
(* the table security_events of src/src/db/sql/0002_audit.sql.             *)
(*                                                                         *)
(* A writer runs one READ COMMITTED transaction per event: it takes the    *)
(* advisory lock, reads the hash of the newest row, inserts a row whose id *)
(* comes from the bigserial sequence, and commits, which makes the row     *)
(* visible and releases the lock in one step.  A transaction that fails at *)
(* any point releases the lock and leaves a gap in the ids, because a      *)
(* sequence is not rolled back.                                            *)
(*                                                                         *)
(* SHA-256 is idealised: a hash is the sequence of contents it commits to, *)
(* so distinct inputs have distinct hashes, and a content is an element of *)
(* Contents (it stands for org, type, severity, payload and timestamp).    *)
(***************************************************************************)
EXTENDS Integers, Sequences, FiniteSets

CONSTANTS
    Writers,      \* concurrent callers of appendSecurityEvent
    Contents,     \* what an event says: canonicalContent of its fields
    Nobody,       \* the advisory lock is free
    MaxAppends    \* bound: calls of appendSecurityEvent that may be begun

ASSUME NobodyAssumption == Nobody \notin Writers
ASSUME ContentsAssumption == Contents # {}
ASSUME MaxAppendsAssumption == MaxAppends \in Nat

Hashes == Seq(Contents)

Rows == [id : Nat, content : Contents, prevHash : Hashes, hash : Hashes]

\* Where a call of appendSecurityEvent stands.
Phases == {"idle", "waiting", "locked", "linked", "inserted"}

VARIABLES
    securityEvents,  \* the committed rows
    lastId,          \* last value the bigserial sequence handed out
    chainLock,       \* holder of pg_advisory_xact_lock(CHAIN_LOCK_KEY)
    pc,              \* pc[w]: phase of writer w
    input,           \* input[w]: the content w was called with
    prevHash,        \* prevHash[w]: the tail hash w read
    rowId,           \* rowId[w]: the id w's uncommitted insert was given
    begun            \* calls begun so far (bounded by MaxAppends)

logVars == <<securityEvents, lastId, chainLock, pc, input, prevHash, rowId, begun>>

-----------------------------------------------------------------------------
(* Hashing and the tail of the chain *)

GENESIS_HASH == << >>

computeHash(prev, content) == Append(prev, content)

\* ORDER BY id DESC LIMIT 1.
Newest(rows) == CHOOSE r \in rows : \A s \in rows : s.id <= r.id

TailHash(rows) == IF rows = {} THEN GENESIS_HASH ELSE Newest(rows).hash

-----------------------------------------------------------------------------
(* appendSecurityEvent, one action per statement of its transaction *)

LogInit ==
    /\ securityEvents = {}
    /\ lastId = 0
    /\ chainLock = Nobody
    /\ pc = [w \in Writers |-> "idle"]
    /\ input = [w \in Writers |-> CHOOSE c \in Contents : TRUE]
    /\ prevHash = [w \in Writers |-> GENESIS_HASH]
    /\ rowId = [w \in Writers |-> 0]
    /\ begun = 0

Step(w, from, to) ==
    /\ pc[w] = from
    /\ pc' = [pc EXCEPT ![w] = to]

\* A caller opens the transaction and asks for the lock.
BeginAppend(w, c) ==
    /\ begun < MaxAppends
    /\ Step(w, "idle", "waiting")
    /\ input' = [input EXCEPT ![w] = c]
    /\ begun' = begun + 1
    /\ UNCHANGED <<securityEvents, lastId, chainLock, prevHash, rowId>>

\* Mutant: pg_try_advisory_xact_lock, whose answer nobody looks at.
TryLock(w) ==
    /\ Step(w, "waiting", "locked")
    /\ chainLock' = IF chainLock = Nobody THEN w ELSE chainLock
    /\ UNCHANGED <<securityEvents, lastId, input, prevHash, rowId, begun>>

\* SELECT pg_advisory_xact_lock(...) returns.
AcquireLock(w) ==
    /\ chainLock = Nobody
    /\ Step(w, "waiting", "locked")
    /\ chainLock' = w
    /\ UNCHANGED <<securityEvents, lastId, input, prevHash, rowId, begun>>

\* SELECT hash ... ORDER BY id DESC LIMIT 1: sees every committed row.
ReadTail(w) ==
    /\ Step(w, "locked", "linked")
    /\ prevHash' = [prevHash EXCEPT ![w] = TailHash(securityEvents)]
    /\ UNCHANGED <<securityEvents, lastId, chainLock, input, rowId, begun>>

\* INSERT ... RETURNING id: the row is not visible to others yet.
InsertRow(w) ==
    /\ Step(w, "linked", "inserted")
    /\ lastId' = lastId + 1
    /\ rowId' = [rowId EXCEPT ![w] = lastId + 1]
    /\ UNCHANGED <<securityEvents, chainLock, input, prevHash, begun>>

NewRow(w) ==
    [id |-> rowId[w], content |-> input[w], prevHash |-> prevHash[w],
     hash |-> computeHash(prevHash[w], input[w])]

\* The locals of a finished call are gone.
Forget(w) ==
    /\ prevHash' = [prevHash EXCEPT ![w] = GENESIS_HASH]
    /\ rowId' = [rowId EXCEPT ![w] = 0]
    /\ UNCHANGED <<lastId, input, begun>>

\* Mutant: a session-level lock, which outlives the transaction.
CommitKeepingLock(w) ==
    /\ Step(w, "inserted", "idle")
    /\ securityEvents' = securityEvents \cup {NewRow(w)}
    /\ UNCHANGED chainLock
    /\ Forget(w)

\* COMMIT publishes the row and releases the transaction-scoped lock.
CommitAppend(w) ==
    /\ Step(w, "inserted", "idle")
    /\ securityEvents' = securityEvents \cup {NewRow(w)}
    /\ chainLock' = Nobody
    /\ Forget(w)

\* ROLLBACK: an exception, a lost connection or the death of the process.
AbortAppend(w) ==
    /\ pc[w] # "idle"
    /\ pc' = [pc EXCEPT ![w] = "idle"]
    /\ chainLock' = IF chainLock = w THEN Nobody ELSE chainLock
    /\ Forget(w)
    /\ UNCHANGED securityEvents

Progress(w) == ReadTail(w) \/ InsertRow(w) \/ CommitAppend(w)

LogNext ==
    \E w \in Writers :
        \/ \E c \in Contents : BeginAppend(w, c)
        \/ AcquireLock(w)
        \/ Progress(w)
        \/ AbortAppend(w)

LogSpec == LogInit /\ [][LogNext]_logVars

\* The database answers every statement of an open transaction, and its lock
\* queue is first-in first-out, so a waiting writer is not overtaken for ever.
\* Nothing obliges a caller to append, or a transaction to fail.
LogFairness ==
    \A w \in Writers :
        /\ SF_logVars(AcquireLock(w))
        /\ WF_logVars(Progress(w))

FairLogSpec == LogSpec /\ LogFairness

-----------------------------------------------------------------------------
(* verifyChain: the walk over the rows in id order *)

RowsBefore(rows, i) == {r \in rows : r.id < i}

\* The walk expects each row to link to the stored hash of its predecessor ...
BadLink(rows, r) == r.prevHash # TailHash(RowsBefore(rows, r.id))

\* ... and to store the hash recomputed from that link and its own content.
BadHash(rows, r) == r.hash # computeHash(TailHash(RowsBefore(rows, r.id)), r.content)

BrokenRows(rows) == {r \in rows : BadLink(rows, r) \/ BadHash(rows, r)}

\* The verdict names the first broken row; only a sound predecessor's hash is
\* carried on, so the first broken row is the same whichever way one walks.
verifyChain(rows) ==
    IF BrokenRows(rows) = {}
      THEN [ok |-> TRUE, length |-> Cardinality(rows)]
      ELSE LET first == CHOOSE r \in BrokenRows(rows) :
                            \A s \in BrokenRows(rows) : r.id <= s.id
           IN  [ok |-> FALSE, length |-> Cardinality(rows), brokenAt |-> first.id,
                reason |-> IF BadLink(rows, first) THEN "prev_hash_mismatch"
                                                   ELSE "hash_mismatch"]

-----------------------------------------------------------------------------
(* Properties *)

\* Every variable keeps its type.
LogTypeOK ==
    /\ securityEvents \subseteq Rows
    /\ lastId \in Nat
    /\ chainLock \in Writers \cup {Nobody}
    /\ pc \in [Writers -> Phases]
    /\ input \in [Writers -> Contents]
    /\ prevHash \in [Writers -> Hashes]
    /\ rowId \in [Writers -> Nat]
    /\ begun \in 0 .. MaxAppends

\* Concurrent and failing writers never leave a chain the verifier rejects: no
\* fork, no link to a row that was rolled back (securityLog.ts:9, "concurrent
\* writers cannot fork the chain").
ChainVerifies == verifyChain(securityEvents).ok

\* A row becomes visible with an id above every id already visible, so a reader
\* that walks the log by id never finds a row behind the point it has reached.
\* Ids come from a sequence: this is what taking the lock first buys.
CommitsInIdOrder ==
    [][\A r \in securityEvents' \ securityEvents :
          \A s \in securityEvents : s.id < r.id]_logVars

\* An append that was begun ends, by commit or by failure, whatever the other
\* writers do: the chain lock is never left behind.
AppendsEnd == \A w \in Writers : pc[w] # "idle" ~> pc[w] = "idle"

EventLog == INSTANCE EventList WITH list <- TailHash(securityEvents)

\* Read through the hash of its newest row, the table is a plain list of
\* contents that grows by one element at its end: the log that every caller of
\* appendSecurityEvent relies on.
ImplementsEventList == EventLog!ListSpec
=============================================================================
