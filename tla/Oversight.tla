----------------------------- MODULE Oversight -----------------------------
(***************************************************************************)
(* Human oversight of tools (EU AI Act Art. 14): the database-backed gate  *)
(* of src/src/compliance/oversight.ts, the forward-only trigger of         *)
(* src/src/db/sql/0005_compliance.sql and the sandbox that consults them,  *)
(* src/src/ai/tools/sandbox.ts with the in-memory approvals of             *)
(* src/src/ai/tools/approval.ts.                                           *)
(*                                                                         *)
(* Several calls of executeTool, and several humans deciding, interleave   *)
(* statement by statement (READ COMMITTED); any of them may die between    *)
(* two steps.  An invocation is a tool together with its arguments, so     *)
(* equality of invocations is equality of tool name and argument hash.     *)
(* One organisation is modelled: row-level security confines every         *)
(* statement of these functions to it.                                     *)
(***************************************************************************)
EXTENDS Integers, FiniteSets

CONSTANTS
    Callers,       \* concurrent calls of executeTool
    Deciders,      \* concurrent calls of approveRequest / rejectRequest
    Invocations,   \* allowlisted tool + valid arguments
    HighRisk,      \* those whose riskLevel is HIGH or CRITICAL
    Dangerous,     \* those whose tool is marked dangerous
    Isolated,      \* those whose tool requires isolation
    None,          \* no invocation
    MaxCalls,      \* bound: calls of executeTool that may be made
    MaxRequests    \* bound: rows ever inserted; a call inserts at most one

ASSUME OversightAssumption ==
    /\ HighRisk \subseteq Invocations
    /\ Dangerous \subseteq Invocations
    /\ Isolated \subseteq Invocations
    /\ None \notin Invocations
    /\ MaxCalls \in Nat
    /\ MaxRequests \in Nat /\ MaxCalls <= MaxRequests

RequestIds == 1 .. MaxRequests
Verdicts == {"APPROVED", "REJECTED"}
Statuses == {"PENDING", "EXPIRED"} \cup Verdicts

\* A row of oversight_requests; recorded says outcome_summary is not null.
Requests ==
    [id : RequestIds, inv : Invocations, status : Statuses, recorded : BOOLEAN]

CallPhases ==
    {"idle", "expire", "findApproved", "findPending", "notify", "commit",
     "handler", "runner", "record"}

VARIABLES
    requests,   \* committed rows of oversight_requests
    overdue,    \* ids whose expires_at has passed
    lastRequest,\* ids handed out so far, committed or not
    notified,   \* ids the notifier was called with
    approvals,  \* InMemoryApprovalStore.approved
    pc,         \* pc[c]: phase of call c
    inv,        \* inv[c]: what call c asks for
    req,        \* req[c]: request id in call c's hands, 0 for none
    lingering,  \* lingering[r]: timed-out handlers still running under request r
    effects,    \* effects[r]: executions completed under request r
    calls,      \* calls made (bounded by MaxCalls)
    deciding,   \* deciding[d]: the decision d has committed and not logged yet
    auditLog,   \* oversight events in the security log
    lost        \* history: decisions whose writer died before logging them

callVars == <<pc, inv, req, lingering, effects, calls>>
decisionVars == <<deciding, auditLog, lost>>
tableVars == <<requests, overdue, lastRequest, notified>>
vars == <<tableVars, approvals, callVars, decisionVars>>

NoDecision == [id |-> 0, verdict |-> "APPROVED"]
Decisions == [id : RequestIds, verdict : Verdicts]

Init ==
    /\ requests = {}
    /\ overdue = {}
    /\ lastRequest = 0
    /\ notified = {}
    /\ approvals = {}
    /\ pc = [c \in Callers |-> "idle"]
    /\ inv = [c \in Callers |-> None]
    /\ req = [c \in Callers |-> 0]
    /\ lingering = [r \in RequestIds |-> 0]
    /\ effects = [r \in RequestIds |-> 0]
    /\ calls = 0
    /\ deciding = [d \in Deciders |-> NoDecision]
    /\ auditLog = {}
    /\ lost = {}

-----------------------------------------------------------------------------
(* The table and its trigger *)

\* Mutant: the trigger is missing.
NoTrigger(row) == TRUE

\* oversight_forward_only: a BEFORE UPDATE trigger raises on a decided row.
TriggerAllows(row) == row.status = "PENDING"

Pending(row) == row.status = "PENDING"

\* UPDATE ... SET status of the rows in chosen; the statement fails as a whole
\* if the trigger raises on one of them.
SetStatus(chosen, status) ==
    /\ \A row \in chosen : TriggerAllows(row)
    /\ requests' = (requests \ chosen) \cup {[row EXCEPT !.status = status] : row \in chosen}

\* 24 hours pass; older requests run out first.
TimePasses ==
    /\ \E row \in requests :
         /\ row.id \notin overdue
         /\ \A other \in requests : other.id < row.id => other.id \in overdue
         /\ overdue' = overdue \cup {row.id}
    /\ UNCHANGED <<requests, lastRequest, notified, approvals, callVars, decisionVars>>

-----------------------------------------------------------------------------
(* executeTool: the enforcement layers, then the run *)

Goto(c, from, to) ==
    /\ pc[c] = from
    /\ pc' = [pc EXCEPT ![c] = to]

\* The call returns or throws; its locals are gone.
Return(c) ==
    /\ pc' = [pc EXCEPT ![c] = "idle"]
    /\ inv' = [inv EXCEPT ![c] = None]
    /\ req' = [req EXCEPT ![c] = 0]

\* 3c and 4: where a call goes once every approval is there.  An isolated tool
\* without a runner is denied, which returns.
RunPhase(i, hasRunner) ==
    IF i \notin Isolated THEN "handler"
    ELSE IF hasRunner THEN "runner" ELSE "idle"

\* 1 to 3b: the synchronous layers.  A dangerous tool nobody approved and a
\* high-risk tool without a gate return at once, and so leave no trace; a
\* high-risk tool goes to the gate.
Call(c, i, hasGate, hasRunner) ==
    /\ calls < MaxCalls
    /\ i \in Dangerous => i \in approvals
    /\ IF i \in HighRisk
         THEN hasGate /\ Goto(c, "idle", "expire")
         ELSE RunPhase(i, hasRunner) # "idle" /\ Goto(c, "idle", RunPhase(i, hasRunner))
    /\ inv' = [inv EXCEPT ![c] = i]
    /\ calls' = calls + 1
    /\ UNCHANGED <<tableVars, approvals, req, lingering, effects, decisionVars>>

\* DbOversightGate.check, first transaction: expireStale.
ExpireStale(c) ==
    /\ Goto(c, "expire", "findApproved")
    /\ SetStatus({row \in requests : Pending(row) /\ row.id \in overdue}, "EXPIRED")
    /\ UNCHANGED <<overdue, lastRequest, notified, approvals, inv, req, lingering,
                   effects, calls, decisionVars>>

\* Mutant: the status of the request is not looked at.
UsableUnapproved(row, i) == row.inv = i /\ ~row.recorded

\* Mutant: an approval of any invocation will do.
UsableByAny(row, i) == row.status = "APPROVED" /\ ~row.recorded

Usable(row, i) == row.inv = i /\ row.status = "APPROVED" /\ ~row.recorded

Reusable(row, i) == row.inv = i /\ row.status = "PENDING"

\* Second transaction, SELECT of an approved request without an outcome (LIMIT 1
\* in no particular order).  Whether the call has a runner matters only now.
FindApproved(c) ==
    /\ \/ \E row \in requests, hasRunner \in BOOLEAN :
            /\ Usable(row, inv[c])
            /\ pc[c] = "findApproved"
            /\ IF RunPhase(inv[c], hasRunner) = "idle"
                 THEN Return(c)
                 ELSE /\ Goto(c, "findApproved", RunPhase(inv[c], hasRunner))
                      /\ req' = [req EXCEPT ![c] = row.id]
                      /\ UNCHANGED inv
       \/ /\ ~\E row \in requests : Usable(row, inv[c])
          /\ Goto(c, "findApproved", "findPending")
          /\ UNCHANGED <<inv, req>>
    /\ UNCHANGED <<tableVars, approvals, lingering, effects, calls, decisionVars>>

\* Mutant: nobody is notified of a new request.
FindPendingSilently(c) ==
    /\ IF \E row \in requests : Reusable(row, inv[c])
         THEN /\ pc[c] = "findPending"
              /\ Return(c)
              /\ UNCHANGED lastRequest
         ELSE /\ lastRequest < MaxRequests
              /\ Goto(c, "findPending", "commit")
              /\ lastRequest' = lastRequest + 1
              /\ req' = [req EXCEPT ![c] = lastRequest + 1]
              /\ UNCHANGED inv
    /\ UNCHANGED <<requests, overdue, notified, approvals, lingering, effects, calls,
                   decisionVars>>

\* SELECT of a pending request: one is reused and the call is blocked;
\* otherwise INSERT, which nobody sees before the commit.
FindPending(c) ==
    /\ IF \E row \in requests : Reusable(row, inv[c])
         THEN /\ pc[c] = "findPending"
              /\ Return(c)
              /\ UNCHANGED lastRequest
         ELSE /\ lastRequest < MaxRequests
              /\ Goto(c, "findPending", "notify")
              /\ lastRequest' = lastRequest + 1
              /\ req' = [req EXCEPT ![c] = lastRequest + 1]
              /\ UNCHANGED inv
    /\ UNCHANGED <<requests, overdue, notified, approvals, lingering, effects, calls,
                   decisionVars>>

\* await notify(...), inside the transaction, of a gate that has a notifier.
Notify(c) ==
    /\ Goto(c, "notify", "commit")
    /\ notified' = notified \cup {req[c]}
    /\ UNCHANGED <<requests, overdue, lastRequest, approvals, inv, req, lingering,
                   effects, calls, decisionVars>>

\* COMMIT of the second transaction; the call answers pending_approval.
CommitRequest(c) ==
    /\ pc[c] = "commit"
    /\ requests' = requests \cup
            {[id |-> req[c], inv |-> inv[c], status |-> "PENDING", recorded |-> FALSE]}
    /\ Return(c)
    /\ UNCHANGED <<overdue, lastRequest, notified, approvals, lingering, effects, calls,
                   decisionVars>>

\* An execution under request r is complete; 0 stands for a tool that needs no
\* request, and is not counted.
Executed(r) == effects' = [q \in RequestIds |-> effects[q] + (IF q = r THEN 1 ELSE 0)]

\* The handler, or the isolation runner, resolves: the outcome is recorded
\* next, if there is a request to record it on.
ToolReturns(c) ==
    /\ pc[c] \in {"handler", "runner"}
    /\ Executed(req[c])
    /\ IF req[c] = 0
         THEN Return(c)
         ELSE Goto(c, pc[c], "record") /\ UNCHANGED <<inv, req>>
    /\ UNCHANGED <<tableVars, approvals, lingering, calls, decisionVars>>

\* It rejects, having done its work or not; nothing is recorded.
ToolThrows(c) ==
    /\ pc[c] \in {"handler", "runner"}
    /\ Return(c)
    /\ UNCHANGED effects \/ Executed(req[c])
    /\ UNCHANGED <<tableVars, approvals, lingering, calls, decisionVars>>

\* Mutant: the timer is started on the wrong branch.
TimeoutOfIsolated(c) ==
    /\ pc[c] = "handler" /\ inv[c] \in Isolated
    /\ lingering' = [r \in RequestIds |-> lingering[r] + (IF r = req[c] THEN 1 ELSE 0)]
    /\ Return(c)
    /\ UNCHANGED <<tableVars, approvals, effects, calls, decisionVars>>

\* The timer of an in-process tool fires first: the race is lost, the call
\* answers "timeout", and the handler is still running.
Timeout(c) ==
    /\ pc[c] = "handler"
    /\ lingering' = [r \in RequestIds |-> lingering[r] + (IF r = req[c] THEN 1 ELSE 0)]
    /\ Return(c)
    /\ UNCHANGED <<tableVars, approvals, effects, calls, decisionVars>>

\* A handler whose call has long been answered does its work all the same.
LateExecution ==
    /\ \E r \in RequestIds :
         /\ lingering[r] > 0
         /\ lingering' = [lingering EXCEPT ![r] = @ - 1]
         /\ Executed(r)
    /\ UNCHANGED <<tableVars, approvals, pc, inv, req, calls, decisionVars>>

\* recordOutcome: UPDATE ... SET outcome_summary WHERE id.  If the trigger
\* raises, executeTool catches the error and answers ok: false.
RecordOutcome(c) ==
    /\ pc[c] = "record"
    /\ requests' = {IF row.id = req[c] /\ TriggerAllows(row)
                      THEN [row EXCEPT !.recorded = TRUE] ELSE row : row \in requests}
    /\ Return(c)
    /\ UNCHANGED <<overdue, lastRequest, notified, approvals, lingering, effects, calls,
                   decisionVars>>

\* The process dies, or a statement or the notifier throws: an open transaction
\* rolls back and the call is gone.  A running handler dies with it.
CallFails(c) ==
    /\ pc[c] # "idle"
    /\ Return(c)
    /\ UNCHANGED <<tableVars, approvals, lingering, effects, calls, decisionVars>>

GateStep(c) ==
    ExpireStale(c) \/ FindApproved(c) \/ FindPending(c) \/ Notify(c) \/ CommitRequest(c)

executeTool(c) ==
    \/ \E i \in Invocations, hasGate, hasRunner \in BOOLEAN : Call(c, i, hasGate, hasRunner)
    \/ GateStep(c)
    \/ ToolReturns(c) \/ ToolThrows(c) \/ Timeout(c)
    \/ RecordOutcome(c)
    \/ CallFails(c)

-----------------------------------------------------------------------------
(* Humans *)

\* Mutant: a decision that updated no row is logged like any other.
DecideBlindly(d, r, verdict) ==
    /\ deciding[d] = NoDecision
    /\ SetStatus({row \in requests : row.id = r /\ Pending(row)}, verdict)
    /\ deciding' = [deciding EXCEPT ![d] = [id |-> r, verdict |-> verdict]]
    /\ UNCHANGED <<overdue, lastRequest, notified, approvals, callVars, auditLog, lost>>

\* decide: UPDATE ... WHERE id AND status = 'PENDING'.  A human may act on a
\* notification before its request is visible, and then finds nothing.  A row
\* that is not pending is answered 409 and changes nothing.
Decide(d, r, verdict) ==
    /\ deciding[d] = NoDecision
    /\ \E row \in requests : row.id = r /\ Pending(row)
    /\ SetStatus({row \in requests : row.id = r /\ Pending(row)}, verdict)
    /\ deciding' = [deciding EXCEPT ![d] = [id |-> r, verdict |-> verdict]]
    /\ UNCHANGED <<overdue, lastRequest, notified, approvals, callVars, auditLog, lost>>

\* The second half of decide, in a transaction of its own: appendSecurityEvent.
LogDecision(d) ==
    /\ deciding[d] # NoDecision
    /\ auditLog' = auditLog \cup {deciding[d]}
    /\ deciding' = [deciding EXCEPT ![d] = NoDecision]
    /\ UNCHANGED <<tableVars, approvals, callVars, lost>>

\* The process dies, or the append throws, after the decision committed.
DecisionFails(d) ==
    /\ deciding[d] # NoDecision
    /\ lost' = lost \cup {deciding[d]}
    /\ deciding' = [deciding EXCEPT ![d] = NoDecision]
    /\ UNCHANGED <<tableVars, approvals, callVars, auditLog>>

\* InMemoryApprovalStore.approve and revoke.
Approve(i) ==
    /\ approvals' = approvals \cup {i}
    /\ UNCHANGED <<tableVars, callVars, decisionVars>>

Revoke(i) ==
    /\ approvals' = approvals \ {i}
    /\ UNCHANGED <<tableVars, callVars, decisionVars>>

Human ==
    \/ \E d \in Deciders :
          \/ \E r \in RequestIds, verdict \in Verdicts : Decide(d, r, verdict)
          \/ LogDecision(d)
          \/ DecisionFails(d)
    \/ \E i \in Dangerous : Approve(i) \/ Revoke(i)

Next ==
    \/ \E c \in Callers : executeTool(c)
    \/ LateExecution
    \/ Human
    \/ TimePasses

Spec == Init /\ [][Next]_vars

\* The database answers, the notifier returns or throws, the timer of an
\* in-process tool fires.  A human need not decide, a handler need not return,
\* and nothing bounds an isolation runner: sandbox.ts hands it the timeout and
\* starts no timer of its own.
Fairness ==
    /\ \A c \in Callers :
         /\ WF_vars(GateStep(c))
         /\ WF_vars(Timeout(c))
         /\ WF_vars(RecordOutcome(c))
    /\ \A d \in Deciders : WF_vars(LogDecision(d))

FairSpec == Spec /\ Fairness
-----------------------------------------------------------------------------
(* Properties *)

\* Every variable keeps its type.
TypeOK ==
    /\ requests \subseteq Requests
    /\ overdue \subseteq RequestIds
    /\ lastRequest \in 0 .. MaxRequests
    /\ notified \subseteq RequestIds
    /\ approvals \subseteq Dangerous
    /\ pc \in [Callers -> CallPhases]
    /\ inv \in [Callers -> Invocations \cup {None}]
    /\ req \in [Callers -> RequestIds \cup {0}]
    /\ lingering \in [RequestIds -> Nat]
    /\ effects \in [RequestIds -> Nat]
    /\ calls \in 0 .. MaxCalls
    /\ deciding \in [Deciders -> Decisions \cup {NoDecision}]
    /\ auditLog \subseteq Decisions
    /\ lost \subseteq Decisions

ApprovedFor(r, i) ==
    \E row \in requests : row.id = r /\ row.inv = i /\ row.status = "APPROVED"

\* A high-risk tool runs only under a request that a human approved for exactly
\* this invocation, whatever happened to the table between the gate's check and
\* the run; and no effect, even a late one, is without its approval.
OnlyApprovedRuns ==
    /\ \A c \in Callers :
          pc[c] \in {"handler", "runner", "record"} /\ inv[c] \in HighRisk
              => ApprovedFor(req[c], inv[c])
    /\ \A r \in RequestIds :
          lingering[r] > 0 \/ effects[r] > 0 => \E i \in HighRisk : ApprovedFor(r, i)

DecidedRows == {row \in requests : row.status \in Verdicts}

InFlight == {deciding[d] : d \in Deciders} \ {NoDecision}

\* The oversight events of the security log and the decided rows tell the same
\* story: every decision is in the log, about to be appended, or was lost with
\* the process that made it; and the log claims no decision the table does not
\* hold (oversight.ts:136-144, two transactions).
AuditAccountsForDecisions ==
    {[id |-> row.id, verdict |-> row.status] : row \in DecidedRows}
        = auditLog \cup InFlight \cup lost

\* A request waits for a human only after the notifier was told of it: it runs
\* inside the transaction that inserts the row (oversight.ts:105-106), for a gate
\* that was given one.
NoSilentRequest == \A row \in requests : row.id \in notified

\* A decided row is never re-decided, rewritten or removed
\* (0005_compliance.sql:62-63).
DecidedRowsAreFrozen ==
    [][\A row \in requests : row.status # "PENDING" => row \in requests']_vars

\* What the rows of these statuses are requests for.
Asked(statuses) ==
    {[id |-> row.id, inv |-> row.inv] : row \in {r \in requests : r.status \in statuses}}

Oversees == INSTANCE Approvals
    WITH Ids <- RequestIds, Subjects <- HighRisk, done <- effects,
         waiting <- Asked({"PENDING"}), approved <- Asked({"APPROVED"}),
         closed <- Asked({"REJECTED", "EXPIRED"})

\* Gate, sandbox and trigger together keep what oversight promises (Approvals),
\* although no two of their steps are in one transaction and a handler outlives
\* its call: each execution counts against a request approved by then, and a
\* request is decided once (oversight.ts:63-75 and 129-133, sandbox.ts:139-176).
ImplementsApprovals == Oversees!ApprovalsSpec

\* A call ends: it is blocked on nothing but an isolation runner, which is
\* outside the program.
CallsEnd == \A c \in Callers : pc[c] \notin {"idle", "runner"} ~> pc[c] \in {"idle", "runner"}

\* What docs/security/LLM_TOP_10_MAPPING.md:14 says of an oversight approval:
\* "single-use".  Recording the outcome of a run is what consumes its approval
\* (the gate looks for an approval without an outcome).  It does not hold: the
\* trigger refuses the update, so the approval is good for any number of runs.
ApprovalIsSingleUse ==
    [][\A c \in Callers :
          RecordOutcome(c) => \A row \in requests' : row.id = req[c] => row.recorded]_vars
=============================================================================
