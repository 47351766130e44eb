----------------------------- MODULE Anchoring -----------------------------
(***************************************************************************)
(* Off-box anchoring of the security-event chain: src/src/audit/anchor.ts, *)
(* run by src/src/audit/anchor-cli.ts from cron, composed with the writers *)
(* of SecurityLog.  A run of createAnchor is not a transaction: it reads   *)
(* the newest row, the row count and the last anchor in three statements,  *)
(* inserts in a fourth, and then hands the checkpoint to an optional sink. *)
(* Runs may overlap each other and the writers, and may fail between any   *)
(* two steps.                                                              *)
(*                                                                         *)
(* Signatures are idealised: signing a checkpoint yields the checkpoint,   *)
(* and verification compares the two.  Damage is what the verifier exists  *)
(* to find: a privileged edit of the tables (the edits are those of        *)
(* tests/audit), never a step of the program.                              *)
(***************************************************************************)
EXTENDS SecurityLog

CONSTANTS
    Anchorers,     \* overlapping runs of createAnchor
    HasSink,       \* whether AUDIT_ANCHOR_DIR configures a sink
    MaxAnchorRuns, \* bound: runs of createAnchor that may be begun
    MaxDamage      \* bound: privileged edits of the tables

ASSUME AnchoringAssumption ==
    /\ HasSink \in BOOLEAN
    /\ MaxAnchorRuns \in Nat
    /\ MaxDamage \in Nat

Checkpoints ==
    [checkpointSeq : Nat, eventId : Nat, eventCount : Nat, chainHash : Hashes]

Anchors == [content : Checkpoints, signature : Checkpoints]

AnchorPhases == {"idle", "headRead", "counted", "ready", "stored"}

VARIABLES
    auditAnchors,  \* rows of audit_anchors
    shipped,       \* checkpoints the sink has received
    apc,           \* apc[a]: phase of run a
    draft,         \* draft[a]: the checkpoint run a is putting together
    anchorRuns,    \* runs begun (bounded by MaxAnchorRuns)
    damage,        \* privileged edits so far (bounded by MaxDamage)
    seen,          \* history: seen[a] is the log when run a read its head
    witnessed      \* history: for each checkpoint stored, the log its run saw

anchorVars == <<auditAnchors, shipped, apc, draft, anchorRuns, damage, seen, witnessed>>
vars == <<logVars, anchorVars>>

-----------------------------------------------------------------------------
(* createAnchor *)

GENESIS_HEAD ==
    [checkpointSeq |-> 0, eventId |-> 0, eventCount |-> 0, chainHash |-> GENESIS_HASH]

AnchorInit ==
    /\ auditAnchors = {}
    /\ shipped = {}
    /\ apc = [a \in Anchorers |-> "idle"]
    /\ draft = [a \in Anchorers |-> GENESIS_HEAD]
    /\ anchorRuns = 0
    /\ damage = 0
    /\ seen = [a \in Anchorers |-> {}]
    /\ witnessed = {}

Goto(a, from, to) ==
    /\ apc[a] = from
    /\ apc' = [apc EXCEPT ![a] = to]

\* chainHead, first statement: id and hash of the newest row.  An empty log
\* yields GENESIS_HEAD without the count.
ReadHead(a) ==
    /\ anchorRuns < MaxAnchorRuns
    /\ anchorRuns' = anchorRuns + 1
    /\ IF securityEvents = {}
         THEN /\ Goto(a, "idle", "counted")
              /\ draft' = [draft EXCEPT ![a] = GENESIS_HEAD]
         ELSE /\ Goto(a, "idle", "headRead")
              /\ draft' = [draft EXCEPT
                     ![a].eventId = Newest(securityEvents).id,
                     ![a].chainHash = Newest(securityEvents).hash]
    /\ seen' = [seen EXCEPT ![a] = securityEvents]
    /\ UNCHANGED <<auditAnchors, shipped, damage, witnessed>>

\* Mutant: the sequence stands in for the count, as if ids had no gaps.
CountByLastId(a) ==
    /\ Goto(a, "headRead", "counted")
    /\ draft' = [draft EXCEPT ![a].eventCount = lastId]
    /\ UNCHANGED <<auditAnchors, shipped, anchorRuns, damage, seen, witnessed>>

\* chainHead, second statement: SELECT count(*), on a later snapshot.
ReadCount(a) ==
    /\ Goto(a, "headRead", "counted")
    /\ draft' = [draft EXCEPT ![a].eventCount = Cardinality(securityEvents)]
    /\ UNCHANGED <<auditAnchors, shipped, anchorRuns, damage, seen, witnessed>>

\* ORDER BY checkpoint_seq DESC LIMIT 1.
LastAnchor ==
    CHOOSE x \in auditAnchors :
        \A y \in auditAnchors : y.content.checkpointSeq <= x.content.checkpointSeq

\* Mutant: the head is recognised by the row count, as if ids had no gaps.
CountUnchanged(a) ==
    /\ auditAnchors # {}
    /\ LastAnchor.content.eventId = draft[a].eventCount
    /\ LastAnchor.content.chainHash = draft[a].chainHash

HeadUnchanged(a) ==
    /\ auditAnchors # {}
    /\ LastAnchor.content.eventId = draft[a].eventId
    /\ LastAnchor.content.chainHash = draft[a].chainHash

NextSeq == IF auditAnchors = {} THEN 1 ELSE LastAnchor.content.checkpointSeq + 1

Finish(a) ==
    /\ draft' = [draft EXCEPT ![a] = GENESIS_HEAD]
    /\ seen' = [seen EXCEPT ![a] = {}]

Keep == UNCHANGED <<draft, seen>>

\* Read the last anchor: return it when the head has not moved, otherwise
\* number the new checkpoint after it.
ReadLastAnchor(a) ==
    /\ IF HeadUnchanged(a)
         THEN Goto(a, "counted", "idle") /\ Finish(a)
         ELSE /\ Goto(a, "counted", "ready")
              /\ draft' = [draft EXCEPT ![a].checkpointSeq = NextSeq]
              /\ UNCHANGED seen
    /\ UNCHANGED <<auditAnchors, shipped, anchorRuns, damage, witnessed>>

\* Mutant: checkpoint_seq without its UNIQUE constraint.
StoreUnchecked(a) ==
    /\ auditAnchors' = auditAnchors \cup {[content |-> draft[a], signature |-> draft[a]]}
    /\ witnessed' = witnessed \cup {[checkpoint |-> draft[a], rows |-> seen[a]]}
    /\ IF HasSink THEN Goto(a, "ready", "stored") /\ Keep
                  ELSE Goto(a, "ready", "idle") /\ Finish(a)
    /\ UNCHANGED <<shipped, anchorRuns, damage>>

\* Mutant: ON CONFLICT DO NOTHING, and the sink is called all the same.
StoreOrIgnore(a) ==
    /\ IF \E x \in auditAnchors : x.content.checkpointSeq = draft[a].checkpointSeq
         THEN UNCHANGED <<auditAnchors, witnessed>>
         ELSE /\ auditAnchors' = auditAnchors \cup
                     {[content |-> draft[a], signature |-> draft[a]]}
              /\ witnessed' = witnessed \cup
                     {[checkpoint |-> draft[a], rows |-> seen[a]]}
    /\ Goto(a, "ready", "stored") /\ Keep
    /\ UNCHANGED <<shipped, anchorRuns, damage>>

\* INSERT into audit_anchors; checkpoint_seq is UNIQUE, so a run that lost the
\* race gets an error and ends.
StoreAnchor(a) ==
    /\ IF \E x \in auditAnchors : x.content.checkpointSeq = draft[a].checkpointSeq
         THEN /\ Goto(a, "ready", "idle")
              /\ Finish(a)
              /\ UNCHANGED <<auditAnchors, witnessed>>
         ELSE /\ auditAnchors' = auditAnchors \cup
                     {[content |-> draft[a], signature |-> draft[a]]}
              /\ witnessed' = witnessed \cup
                     {[checkpoint |-> draft[a], rows |-> seen[a]]}
              /\ IF HasSink
                   THEN Goto(a, "ready", "stored") /\ Keep
                   ELSE Goto(a, "ready", "idle") /\ Finish(a)
    /\ UNCHANGED <<shipped, anchorRuns, damage>>

\* await sink({...content, signature}).
ShipAnchor(a) ==
    /\ Goto(a, "stored", "idle")
    /\ shipped' = shipped \cup {draft[a]}
    /\ Finish(a)
    /\ UNCHANGED <<auditAnchors, anchorRuns, damage, witnessed>>

\* The process dies, the database or the sink throws: what is stored stays.
AnchorFails(a) ==
    /\ apc[a] # "idle"
    /\ apc' = [apc EXCEPT ![a] = "idle"]
    /\ Finish(a)
    /\ UNCHANGED <<auditAnchors, shipped, anchorRuns, damage, witnessed>>

createAnchor(a) ==
    \/ ReadHead(a) \/ ReadCount(a) \/ ReadLastAnchor(a)
    \/ StoreAnchor(a) \/ ShipAnchor(a) \/ AnchorFails(a)

-----------------------------------------------------------------------------
(* verifyAnchors: signature, then existence, then hash of the anchored row *)

BadSignature(x) == x.signature # x.content

\* Mutant: an anchor of the empty log is looked up like any other.
MissingGenesis(rows, x) == ~\E r \in rows : r.id = x.content.eventId

MissingEvent(rows, x) ==
    x.content.eventId > 0 /\ ~\E r \in rows : r.id = x.content.eventId

\* Mutant: only an anchor of the newest row is compared with it.
HeadMismatch(rows, x) ==
    \E r \in rows : /\ r = Newest(rows) /\ r.id = x.content.eventId
                    /\ r.hash # x.content.chainHash

HashMismatch(rows, x) ==
    \E r \in rows : r.id = x.content.eventId /\ r.hash # x.content.chainHash

BrokenAnchors(rows) ==
    {x \in auditAnchors : BadSignature(x) \/ MissingEvent(rows, x) \/ HashMismatch(rows, x)}

verifyAnchors(rows) ==
    IF BrokenAnchors(rows) = {}
      THEN [ok |-> TRUE, checked |-> Cardinality(auditAnchors)]
      ELSE LET first == CHOOSE x \in BrokenAnchors(rows) : \A y \in BrokenAnchors(rows) :
                            x.content.checkpointSeq <= y.content.checkpointSeq
           IN  [ok |-> FALSE,
                checked |-> Cardinality({x \in auditAnchors :
                    x.content.checkpointSeq < first.content.checkpointSeq}),
                brokenAt |-> first.content.checkpointSeq,
                reason |-> CASE BadSignature(first) -> "bad_signature"
                             [] MissingEvent(rows, first) -> "missing_event"
                             [] OTHER -> "hash_mismatch"]

\* verifyChain-cli.ts with a public key: the chain, then the anchors.
VerificationPasses(rows) == verifyChain(rows).ok /\ verifyAnchors(rows).ok

-----------------------------------------------------------------------------
(* Privileged edits of the tables *)

\* One stored content is changed in place, its hash left alone.
MutateRow(r, c) ==
    securityEvents' = (securityEvents \ {r}) \cup {[r EXCEPT !.content = c]}

\* One row is deleted.
DeleteRow(r) == securityEvents' = securityEvents \ {r}

\* A content is changed and every hash from there on recomputed, so that the
\* chain on its own verifies again.  The rows up to r have 1..n elements in
\* their hash, and the edit replaces element n.
RewriteFrom(r, c) ==
    LET n == Len(r.hash)
        edited(h) == IF Len(h) < n THEN h ELSE [h EXCEPT ![n] = c]
    IN  securityEvents' =
            {[s EXCEPT !.content = IF s.id = r.id THEN c ELSE s.content,
                       !.prevHash = edited(s.prevHash),
                       !.hash = edited(s.hash)] : s \in securityEvents}

\* A stored checkpoint is changed; without the private key it keeps its old
\* signature.
EditAnchor(x, h) ==
    auditAnchors' = (auditAnchors \ {x}) \cup {[x EXCEPT !.content.chainHash = h]}

\* Checkpoints are edited but never removed: verifyAnchors cannot miss a row that
\* is not there, and only a comparison with the off-box copy would.
Damage ==
    /\ damage < MaxDamage
    /\ damage' = damage + 1
    /\ \/ /\ \E r \in securityEvents :
                \/ \E c \in Contents \ {r.content} : MutateRow(r, c) \/ RewriteFrom(r, c)
                \/ DeleteRow(r)
          /\ UNCHANGED auditAnchors
       \/ /\ \E x \in auditAnchors : \E r \in securityEvents :
                r.hash # x.content.chainHash /\ EditAnchor(x, r.hash)
          /\ UNCHANGED securityEvents
    /\ UNCHANGED <<lastId, chainLock, pc, input, prevHash, rowId, begun,
                   shipped, apc, draft, anchorRuns, seen, witnessed>>

-----------------------------------------------------------------------------
Init == LogInit /\ AnchorInit

LogStep == LogNext /\ UNCHANGED anchorVars

AnchorStep == \E a \in Anchorers : createAnchor(a) /\ UNCHANGED logVars

Next == LogStep \/ AnchorStep \/ Damage

Spec == Init /\ [][Next]_vars

-----------------------------------------------------------------------------
(* Properties *)

\* Every variable keeps its type.
TypeOK ==
    /\ LogTypeOK
    /\ auditAnchors \subseteq Anchors
    /\ shipped \subseteq Checkpoints
    /\ apc \in [Anchorers -> AnchorPhases]
    /\ draft \in [Anchorers -> Checkpoints]
    /\ anchorRuns \in 0 .. MaxAnchorRuns
    /\ damage \in 0 .. MaxDamage
    /\ seen \in [Anchorers -> SUBSET Rows]
    /\ witnessed \subseteq [checkpoint : Checkpoints, rows : SUBSET Rows]

\* As long as nobody edits the tables, a checkpoint taken at any moment, by
\* overlapping runs and beside any writer, verifies for ever after: the verifier
\* raises no false alarm (verifyAnchors, anchor.ts:146-172).
NoFalseAlarm == damage = 0 => VerificationPasses(securityEvents)

\* Whatever is edited, verification passes only while the log up to every
\* checkpoint is still the log its run committed to: mutated, deleted and
\* re-hashed rows are all found (anchor.ts:9-16, "a DB superuser who rewrites
\* security_events cannot forge a matching anchor").
AnchoredLogIsGenuine ==
    VerificationPasses(securityEvents) =>
        \A w \in witnessed :
            verifyChain(w.rows).ok =>
                RowsBefore(securityEvents, w.checkpoint.eventId + 1) = w.rows

\* The checkpoints form a sequence, although overlapping runs compute their
\* number and compare the head on stale reads (anchor.ts:103-118): they are
\* numbered 1, 2, ... without a gap or a duplicate, and no two consecutive ones
\* commit to the same head, for a run that finds it anchored writes nothing.
CheckpointsAreNumbered ==
    /\ {x.content.checkpointSeq : x \in auditAnchors} = 1 .. Cardinality(auditAnchors)
    /\ damage = 0 =>
           \A x, y \in auditAnchors :
               y.content.checkpointSeq = x.content.checkpointSeq + 1 =>
                   x.content.chainHash # y.content.chainHash

\* The off-box copy never holds a checkpoint the database does not: it is
\* shipped after the insert, never on the strength of it.
ShippedIsStored ==
    damage = 0 => shipped \subseteq {x.content : x \in auditAnchors}

\* event_count, read after the head on a snapshot of its own (anchor.ts:81-83), may
\* count events that the checkpoint does not cover; but it counts all that it
\* covers, and none that the log does not hold.
CountIncludesCovered ==
    damage = 0 =>
        \A w \in witnessed :
            w.checkpoint.eventCount \in Cardinality(w.rows) .. Cardinality(securityEvents)
=============================================================================
