-------------------------- MODULE OversightProofs --------------------------
(***************************************************************************)
(* Proofs about Oversight, for any number of concurrent calls, humans,     *)
(* invocations and requests.  The inductive invariant IInv adds to the     *)
(* properties what the code relies on silently: request ids are fresh, a   *)
(* call holds a request id only while it works under it, and a row about   *)
(* to be committed was announced.                                          *)
(***************************************************************************)
EXTENDS OversightUsers, TLAPS

USE OversightAssumption DEF RequestIds

\* Ids are a primary key and come from the counter.
KeysAreUnique ==
    /\ \A row \in requests : row.id <= lastRequest
    /\ \A row, other \in requests : row.id = other.id => row = other

Inserting == {"notify", "commit"}

\* A row being inserted has an id that no other row, committed or not, has.
InsertsAreFresh ==
    \A c \in Callers : pc[c] \in Inserting =>
        /\ req[c] \in 1 .. lastRequest
        /\ \A row \in requests : row.id # req[c]
        /\ \A d \in Callers : d # c /\ pc[d] \in Inserting => req[d] # req[c]

\* The notifier was told of a row before its commit.
AnnouncedBeforeCommit == \A c \in Callers : pc[c] = "commit" => req[c] \in notified

\* A tool that needs no oversight runs under no request.
LowRiskHasNoRequest ==
    \A c \in Callers :
        /\ pc[c] \in {"idle", "expire", "findApproved", "findPending"} => req[c] = 0
        /\ pc[c] \in {"handler", "runner", "record"} /\ inv[c] \notin HighRisk => req[c] = 0

\* Only high-risk tools pass through the gate.
GateIsForHighRisk ==
    \A c \in Callers :
        pc[c] \in {"expire", "findApproved", "findPending"} \cup Inserting => inv[c] \in HighRisk

-----------------------------------------------------------------------------
(* The parts of the invariant, by the variables they speak of *)

TypeTable ==
    /\ requests \subseteq Requests
    /\ overdue \subseteq RequestIds
    /\ lastRequest \in 0 .. MaxRequests
    /\ notified \subseteq RequestIds

TypeCalls ==
    /\ pc \in [Callers -> CallPhases]
    /\ inv \in [Callers -> Invocations \cup {None}]
    /\ req \in [Callers -> RequestIds \cup {0}]

TypeRest ==
    /\ approvals \subseteq Dangerous
    /\ lingering \in [RequestIds -> Nat]
    /\ effects \in [RequestIds -> Nat]
    /\ calls \in 0 .. MaxCalls
    /\ deciding \in [Deciders -> Decisions \cup {NoDecision}]
    /\ auditLog \subseteq Decisions
    /\ lost \subseteq Decisions

CallsInv ==
    InsertsAreFresh /\ AnnouncedBeforeCommit /\ LowRiskHasNoRequest /\ GateIsForHighRisk

TableInv == NoSilentRequest /\ KeysAreUnique

IInv ==
    /\ TypeTable /\ TypeCalls /\ TypeRest
    /\ OnlyApprovedRuns
    /\ AuditAccountsForDecisions
    /\ TableInv
    /\ CallsInv

-----------------------------------------------------------------------------
(* Facts about steps, each used by several actions *)

\* Rows a human or the clock has decided stay.
FrozenNow == \A row \in requests : row.status # "PENDING" => row \in requests'

\* No row comes with an id that was not there.
NoNewId == \A row \in requests' : \E old \in requests : old.id = row.id

\* An approval once given for an invocation is never withdrawn.
LEMMA ApprovalsLast ==
    ASSUME FrozenNow, NEW r, NEW i, ApprovedFor(r, i)
    PROVE  ApprovedFor(r, i)'
BY DEF FrozenNow, ApprovedFor

\* The runs stay approved when no call enters a run and no run ends.
LEMMA RunsKept ==
    ASSUME OnlyApprovedRuns, FrozenNow, UNCHANGED <<lingering, effects>>,
           \A c \in Callers : pc'[c] \in {"handler", "runner", "record"} =>
               /\ pc[c] \in {"handler", "runner", "record"}
               /\ inv'[c] = inv[c] /\ req'[c] = req[c]
    PROVE  OnlyApprovedRuns'
BY ApprovalsLast DEF OnlyApprovedRuns

\* The audit equation is kept by a step that neither decides nor logs.
LEMMA AuditKept ==
    ASSUME AuditAccountsForDecisions, UNCHANGED decisionVars,
           \A row : row \in requests' /\ row.status \in Verdicts
                       <=> row \in requests /\ row.status \in Verdicts
    PROVE  AuditAccountsForDecisions'
<1>1. DecidedRows' = DecidedRows
  BY DEF DecidedRows
<1> QED  BY <1>1 DEF AuditAccountsForDecisions, decisionVars, InFlight

\* A call that returns drops everything it held.
LEMMA Returned ==
    ASSUME TypeCalls, CallsInv, NEW c \in Callers, Return(c), NoNewId,
           lastRequest' = lastRequest, notified' = notified
    PROVE  TypeCalls' /\ CallsInv'
<1>1. TypeCalls'
  BY DEF TypeCalls, Return, CallPhases
<1>2. \A d \in Callers : IF d = c THEN pc'[d] = "idle" /\ req'[d] = 0
                                  ELSE pc'[d] = pc[d] /\ req'[d] = req[d] /\ inv'[d] = inv[d]
  BY DEF TypeCalls, Return
<1>3. InsertsAreFresh'
  BY <1>2 DEF CallsInv, InsertsAreFresh, NoNewId, Inserting
<1>4. AnnouncedBeforeCommit' /\ LowRiskHasNoRequest' /\ GateIsForHighRisk'
  BY <1>2 DEF CallsInv, AnnouncedBeforeCommit, LowRiskHasNoRequest, GateIsForHighRisk, Inserting
<1> QED  BY <1>1, <1>3, <1>4 DEF CallsInv

\* A status update touches pending rows only, and keeps ids and invocations.
LEMMA StatusUpdate ==
    ASSUME TypeTable, KeysAreUnique, NEW chosen \in SUBSET requests,
           NEW status \in Statuses, SetStatus(chosen, status)
    PROVE  /\ requests' \subseteq Requests
           /\ FrozenNow /\ NoNewId
           /\ \A row, other \in requests' : row.id = other.id => row = other
           /\ \A row \in requests' : row \in requests \/ row.status = status
<1> DEFINE set(row) == [row EXCEPT !.status = status]
<1>1. \A row \in Requests : /\ set(row) \in Requests
                            /\ set(row).id = row.id /\ set(row).status = status
  BY DEF Requests
<1>2. requests' = (requests \ chosen) \cup {set(row) : row \in chosen}
  BY DEF SetStatus
<1>3. \A row \in chosen : row.status = "PENDING"
  BY DEF SetStatus, TriggerAllows
<1>4. requests \subseteq Requests
  BY DEF TypeTable
<1> HIDE DEF set
<1>5. requests' \subseteq Requests
  BY <1>1, <1>2, <1>4
<1>6. FrozenNow
  BY <1>2, <1>3 DEF FrozenNow
<1>7. NoNewId
  BY <1>1, <1>2, <1>4 DEF NoNewId
<1>8. \A row, other \in requests' : row.id = other.id => row = other
  BY <1>1, <1>2, <1>4 DEF KeysAreUnique
<1>9. \A row \in requests' : row \in requests \/ row.status = status
  BY <1>1, <1>2, <1>4
<1> QED  BY <1>5, <1>6, <1>7, <1>8, <1>9

\* Keys survive a step that brings no new id.
LEMMA TableKept ==
    ASSUME TableInv, NoNewId, lastRequest' = lastRequest, notified' = notified,
           \A row, other \in requests' : row.id = other.id => row = other
    PROVE  TableInv'
BY DEF TableInv, NoNewId, NoSilentRequest, KeysAreUnique

\* The trigger refuses every outcome: when a run is over, its request is either
\* none or approved, and an approved row is not to be updated.
LEMMA OutcomeRefused ==
    ASSUME TypeTable, TypeCalls, TableInv, CallsInv, OnlyApprovedRuns,
           NEW c \in Callers, RecordOutcome(c)
    PROVE  requests' = requests
<1>1. pc[c] = "record"
  BY DEF RecordOutcome
<1>2. \A row \in requests : row.id = req[c] => ~TriggerAllows(row)
  <2>1. CASE inv[c] \in HighRisk
    <3>1. PICK good \in requests : good.id = req[c] /\ good.status = "APPROVED"
      BY <1>1, <2>1 DEF OnlyApprovedRuns, ApprovedFor
    <3> QED  BY <3>1 DEF TableInv, KeysAreUnique, TriggerAllows
  <2>2. CASE inv[c] \notin HighRisk
    <3>1. req[c] = 0
      BY <1>1, <2>2 DEF CallsInv, LowRiskHasNoRequest
    <3>2. \A row \in requests : row.id # 0
      BY DEF TypeTable, Requests
    <3> QED  BY <3>1, <3>2
  <2> QED  BY <2>1, <2>2
<1> QED  BY <1>2 DEF RecordOutcome

-----------------------------------------------------------------------------
(* The inductive invariant *)

LEMMA InitIInv == Init => IInv
<1> SUFFICES ASSUME Init PROVE IInv
  OBVIOUS
<1> USE DEF Init
<1>1. TypeTable /\ TypeCalls /\ TypeRest
  BY DEF TypeTable, TypeCalls, TypeRest, CallPhases
<1>2. OnlyApprovedRuns /\ CallsInv
  BY DEF OnlyApprovedRuns, CallsInv, InsertsAreFresh, AnnouncedBeforeCommit,
         LowRiskHasNoRequest, GateIsForHighRisk, Inserting
<1>3. AuditAccountsForDecisions
  BY DEF AuditAccountsForDecisions, DecidedRows, InFlight
<1>4. TableInv
  BY DEF TableInv, NoSilentRequest, KeysAreUnique
<1> QED  BY <1>1, <1>2, <1>3, <1>4 DEF IInv

\* A step that leaves the table alone leaves this much alone.
LEMMA TableUntouched ==
    ASSUME TypeTable, TableInv, UNCHANGED tableVars
    PROVE  TypeTable' /\ TableInv' /\ FrozenNow /\ NoNewId
BY DEF TypeTable, TableInv, NoSilentRequest, KeysAreUnique, FrozenNow, NoNewId, tableVars

\* The same for the calls, when no call moves.
LEMMA CallsUntouched ==
    ASSUME TypeCalls, CallsInv, UNCHANGED <<pc, inv, req>>, NoNewId,
           lastRequest' = lastRequest, notified' = notified
    PROVE  TypeCalls' /\ CallsInv'
<1>1. TypeCalls'
  BY DEF TypeCalls
<1>2. InsertsAreFresh'
  BY DEF CallsInv, InsertsAreFresh, NoNewId, Inserting
<1>3. AnnouncedBeforeCommit' /\ LowRiskHasNoRequest' /\ GateIsForHighRisk'
  BY DEF CallsInv, AnnouncedBeforeCommit, LowRiskHasNoRequest, GateIsForHighRisk
<1> QED  BY <1>1, <1>2, <1>3 DEF CallsInv

\* A run that works under a request works under an approved one.
LEMMA RunIsApproved ==
    ASSUME TypeCalls, CallsInv, OnlyApprovedRuns, NEW c \in Callers,
           pc[c] \in {"handler", "runner"}, req[c] # 0
    PROVE  inv[c] \in HighRisk /\ ApprovedFor(req[c], inv[c])
BY DEF TypeCalls, CallsInv, LowRiskHasNoRequest, OnlyApprovedRuns

\* An execution under an approved request, or none, leaves the runs approved.
LEMMA RunsAfterExecution ==
    ASSUME TypeRest, OnlyApprovedRuns, FrozenNow,
           NEW r \in RequestIds \cup {0}, r # 0 => \E i \in HighRisk : ApprovedFor(r, i),
           Executed(r), \A q \in RequestIds : lingering'[q] > 0 => lingering[q] > 0,
           \A c \in Callers : pc'[c] \in {"handler", "runner", "record"} =>
               /\ pc[c] \in {"handler", "runner", "record"}
               /\ inv'[c] = inv[c] /\ req'[c] = req[c]
    PROVE  OnlyApprovedRuns' /\ effects' \in [RequestIds -> Nat]
<1>1. effects' \in [RequestIds -> Nat]
  BY DEF TypeRest, Executed
<1>2. \A q \in RequestIds : effects'[q] > 0 => effects[q] > 0 \/ q = r
  BY DEF TypeRest, Executed
<1>3. \A q \in RequestIds : lingering'[q] > 0 \/ effects'[q] > 0
                              => \E i \in HighRisk : ApprovedFor(q, i)
  BY <1>2 DEF OnlyApprovedRuns
<1>4. \A q, i : ApprovedFor(q, i) => ApprovedFor(q, i)'
  BY ApprovalsLast
<1> QED  BY <1>1, <1>3, <1>4 DEF OnlyApprovedRuns

LEMMA NextIInv == IInv /\ [Next]_vars => IInv'
<1> SUFFICES ASSUME IInv, [Next]_vars PROVE IInv'
  OBVIOUS
<1>0. /\ TypeTable /\ TypeCalls /\ TypeRest
      /\ OnlyApprovedRuns /\ AuditAccountsForDecisions /\ TableInv /\ CallsInv
  BY DEF IInv
<1> USE <1>0
<1>1. CASE TimePasses
  <2>1. TypeTable' /\ TableInv' /\ FrozenNow /\ NoNewId
    <3>1. requests' = requests /\ lastRequest' = lastRequest /\ notified' = notified
      BY <1>1 DEF TimePasses
    <3>2. overdue' \subseteq RequestIds
      BY <1>1 DEF TimePasses, TypeTable, Requests
    <3> QED  BY <3>1, <3>2 DEF TypeTable, TableInv, NoSilentRequest, KeysAreUnique, FrozenNow, NoNewId
  <2>2. TypeCalls' /\ CallsInv'
    BY <1>1, <2>1, CallsUntouched DEF TimePasses, callVars
  <2>3. TypeRest'
    BY <1>1 DEF TimePasses, TypeRest, callVars, decisionVars
  <2>4. OnlyApprovedRuns'
    BY <1>1, <2>1, RunsKept DEF TimePasses, callVars
  <2>5. AuditAccountsForDecisions'
    BY <1>1, AuditKept DEF TimePasses
  <2> QED  BY <2>1, <2>2, <2>3, <2>4, <2>5 DEF IInv
<1>2. ASSUME NEW i \in Dangerous, Approve(i) \/ Revoke(i)
      PROVE  IInv'
  <2>1. UNCHANGED <<tableVars, callVars, decisionVars>>
    BY <1>2 DEF Approve, Revoke
  <2>2. TypeTable' /\ TableInv' /\ FrozenNow /\ NoNewId
    BY <2>1, TableUntouched
  <2>3. TypeCalls' /\ CallsInv'
    BY <2>1, <2>2, CallsUntouched DEF callVars, tableVars
  <2>4. TypeRest'
    <3>1. approvals' \subseteq Dangerous
      BY <1>2 DEF Approve, Revoke, TypeRest
    <3> QED  BY <2>1, <3>1 DEF TypeRest, callVars, decisionVars
  <2>5. OnlyApprovedRuns'
    BY <2>1, <2>2, RunsKept DEF callVars
  <2>6. AuditAccountsForDecisions'
    BY <2>1, AuditKept DEF tableVars
  <2> QED  BY <2>2, <2>3, <2>4, <2>5, <2>6 DEF IInv
<1>3. ASSUME NEW d \in Deciders, NEW r \in RequestIds, NEW verdict \in Verdicts,
             Decide(d, r, verdict)
      PROVE  IInv'
  <2> DEFINE chosen == {row \in requests : row.id = r /\ Pending(row)}
             made == [id |-> r, verdict |-> verdict]
  <2>1. SetStatus(chosen, verdict) /\ deciding[d] = NoDecision
    BY <1>3 DEF Decide
  <2>2. UNCHANGED <<overdue, lastRequest, notified, approvals, callVars, auditLog, lost>>
    BY <1>3 DEF Decide
  <2>3. deciding' = [deciding EXCEPT ![d] = made]
    BY <1>3 DEF Decide
  <2>4. verdict \in Statuses /\ chosen \in SUBSET requests /\ KeysAreUnique
    BY DEF Statuses, TableInv
  <2>5. /\ requests' \subseteq Requests
        /\ FrozenNow /\ NoNewId
        /\ \A row, other \in requests' : row.id = other.id => row = other
        /\ \A row \in requests' : row \in requests \/ row.status = verdict
    <3> HIDE DEF chosen
    <3> QED  BY <2>1, <2>4, StatusUpdate
  <2>6. TypeTable' /\ TableInv'
    BY <2>2, <2>5, TableKept DEF TypeTable
  <2>7. TypeCalls' /\ CallsInv'
    BY <2>2, <2>5, CallsUntouched DEF callVars
  <2>8. TypeRest'
    <3>1. made \in Decisions
      BY DEF Decisions
    <3> HIDE DEF made
    <3> QED  BY <2>2, <2>3, <3>1 DEF TypeRest, callVars
  <2>9. OnlyApprovedRuns'
    BY <2>2, <2>5, RunsKept DEF callVars
  <2>10. AuditAccountsForDecisions'
    <3> DEFINE entry(x) == [id |-> x.id, verdict |-> x.status]
    <3>1. PICK row \in requests : row.id = r /\ Pending(row)
      BY <1>3 DEF Decide
    <3>2. chosen = {row}
      BY <3>1 DEF TableInv, KeysAreUnique
    <3>3. requests' = (requests \ {row}) \cup {[row EXCEPT !.status = verdict]}
      BY <2>1, <3>2 DEF SetStatus
    <3>4. /\ [row EXCEPT !.status = verdict].id = r
          /\ [row EXCEPT !.status = verdict].status = verdict
      BY <3>1 DEF TypeTable, Requests
    <3>5. row.status \notin Verdicts
      BY <3>1 DEF Pending, Verdicts
    <3>6. DecidedRows' = DecidedRows \cup {[row EXCEPT !.status = verdict]}
      BY <3>3, <3>4, <3>5 DEF DecidedRows
    <3>7. made # NoDecision
      BY DEF NoDecision
    <3>8. InFlight' = InFlight \cup {made}
      <4> HIDE DEF made
      <4> QED  BY <2>1, <2>3, <3>7 DEF InFlight, TypeRest
    <3>9. {entry(x) : x \in DecidedRows'} = {entry(x) : x \in DecidedRows} \cup {made}
      BY <3>4, <3>6
    <3>10. {entry(x) : x \in DecidedRows} = auditLog \cup InFlight \cup lost
      BY DEF AuditAccountsForDecisions
    <3>11. {entry(x) : x \in DecidedRows'} = auditLog' \cup InFlight' \cup lost'
      <4> HIDE DEF made, entry
      <4> QED  BY <2>2, <3>8, <3>9, <3>10
    <3> QED  BY <3>11 DEF AuditAccountsForDecisions
  <2> QED  BY <2>6, <2>7, <2>8, <2>9, <2>10 DEF IInv
<1>4. ASSUME NEW d \in Deciders, LogDecision(d) \/ DecisionFails(d)
      PROVE  IInv'
  <2>1. UNCHANGED <<tableVars, approvals, callVars>>
    BY <1>4 DEF LogDecision, DecisionFails
  <2>2. TypeTable' /\ TableInv' /\ FrozenNow /\ NoNewId
    BY <2>1, TableUntouched
  <2>3. TypeCalls' /\ CallsInv'
    BY <2>1, <2>2, CallsUntouched DEF callVars, tableVars
  <2>4. /\ deciding[d] \in Decisions /\ deciding[d] # NoDecision
        /\ deciding' = [deciding EXCEPT ![d] = NoDecision]
        /\ \/ auditLog' = auditLog \cup {deciding[d]} /\ lost' = lost
           \/ auditLog' = auditLog /\ lost' = lost \cup {deciding[d]}
    BY <1>4 DEF LogDecision, DecisionFails, TypeRest
  <2>5. TypeRest'
    BY <2>1, <2>4 DEF TypeRest, callVars
  <2>6. OnlyApprovedRuns'
    BY <2>1, <2>2, RunsKept DEF callVars
  <2>7. AuditAccountsForDecisions'
    <3>1. DecidedRows' = DecidedRows
      BY <2>1 DEF DecidedRows, tableVars
    <3>2. InFlight' \cup {deciding[d]} = InFlight \cup {deciding[d]}
      BY <2>4 DEF InFlight, TypeRest
    <3>3. deciding[d] \in InFlight
      BY <2>4 DEF InFlight
    <3>4. (auditLog \cup InFlight \cup lost)' = auditLog \cup InFlight \cup lost
      BY <2>4, <3>2, <3>3
    <3> QED  BY <3>1, <3>4 DEF AuditAccountsForDecisions
  <2> QED  BY <2>2, <2>3, <2>5, <2>6, <2>7 DEF IInv
<1>5. CASE UNCHANGED vars
  <2>1. UNCHANGED <<tableVars, approvals, callVars, decisionVars>>
    BY <1>5 DEF vars
  <2>2. TypeTable' /\ TableInv' /\ FrozenNow /\ NoNewId
    BY <2>1, TableUntouched
  <2>3. TypeCalls' /\ CallsInv'
    BY <2>1, <2>2, CallsUntouched DEF callVars, tableVars
  <2>4. TypeRest'
    BY <2>1 DEF TypeRest, callVars, decisionVars
  <2>5. OnlyApprovedRuns'
    BY <2>1, <2>2, RunsKept DEF callVars
  <2>6. AuditAccountsForDecisions'
    BY <2>1, AuditKept DEF tableVars
  <2> QED  BY <2>2, <2>3, <2>4, <2>5, <2>6 DEF IInv
<1>6. ASSUME NEW c \in Callers, NEW i \in Invocations,
             NEW hasGate \in BOOLEAN, NEW hasRunner \in BOOLEAN, Call(c, i, hasGate, hasRunner)
      PROVE  IInv'
  <2>1. UNCHANGED <<tableVars, approvals, req, lingering, effects, decisionVars>>
    BY <1>6 DEF Call
  <2>2. TypeTable' /\ TableInv' /\ FrozenNow /\ NoNewId
    BY <2>1, TableUntouched
  <2>3. PICK to \in {"expire", "handler", "runner"} :
            /\ Goto(c, "idle", to)
            /\ IF i \in HighRisk THEN to = "expire" ELSE to # "expire"
    BY <1>6 DEF Call, RunPhase
  <2>4. req' = [req EXCEPT ![c] = 0] /\ req[c] = 0 /\ to \in CallPhases
    BY <2>1, <2>3 DEF TypeCalls, CallsInv, LowRiskHasNoRequest, Goto, CallPhases
  <2>5. /\ TypeCalls'
        /\ pc'[c] = to /\ inv'[c] = i /\ req'[c] = 0
        /\ \A d \in Callers \ {c} : pc'[d] = pc[d] /\ inv'[d] = inv[d] /\ req'[d] = req[d]
    BY <1>6, <2>3, <2>4 DEF Call, Goto, TypeCalls
  <2>6. CallsInv'
    BY <2>1, <2>3, <2>5 DEF tableVars, CallsInv, InsertsAreFresh, AnnouncedBeforeCommit,
       LowRiskHasNoRequest, GateIsForHighRisk, Inserting
  <2>7. TypeRest'
    BY <1>6, <2>1 DEF TypeRest, Call, decisionVars
  <2>8. OnlyApprovedRuns'
    <3>1. \A r, j : ApprovedFor(r, j) => ApprovedFor(r, j)'
      BY <2>2, ApprovalsLast
    <3> QED  BY <2>1, <2>3, <2>5, <3>1 DEF OnlyApprovedRuns
  <2>9. AuditAccountsForDecisions'
    BY <2>1, AuditKept DEF tableVars
  <2> QED  BY <2>2, <2>5, <2>6, <2>7, <2>8, <2>9 DEF IInv
<1>7. ASSUME NEW c \in Callers, ExpireStale(c)
      PROVE  IInv'
  <2> DEFINE chosen == {row \in requests : Pending(row) /\ row.id \in overdue}
  <2>1. /\ Goto(c, "expire", "findApproved") /\ SetStatus(chosen, "EXPIRED")
        /\ UNCHANGED <<overdue, lastRequest, notified, approvals, inv, req, lingering,
                       effects, calls, decisionVars>>
    BY <1>7 DEF ExpireStale
  <2>2. "EXPIRED" \in Statuses /\ chosen \in SUBSET requests /\ KeysAreUnique
    BY DEF Statuses, TableInv
  <2>3. /\ requests' \subseteq Requests
        /\ FrozenNow /\ NoNewId
        /\ \A row, other \in requests' : row.id = other.id => row = other
        /\ \A row \in requests' : row \in requests \/ row.status = "EXPIRED"
    <3> HIDE DEF chosen
    <3> QED  BY <2>1, <2>2, StatusUpdate
  <2> HIDE DEF chosen
  <2>4. TypeTable' /\ TableInv'
    BY <2>1, <2>3, TableKept DEF TypeTable
  <2>5. inv' = [inv EXCEPT ![c] = inv[c]] /\ req' = [req EXCEPT ![c] = req[c]]
    BY <2>1 DEF TypeCalls
  <2>6. inv[c] \in Invocations \cup {None} /\ req[c] \in RequestIds \cup {0}
        /\ "findApproved" \in CallPhases
    BY DEF TypeCalls, CallPhases
  <2>7. /\ TypeCalls'
        /\ pc[c] = "expire" /\ pc'[c] = "findApproved"
        /\ inv'[c] = inv[c] /\ req'[c] = req[c]
        /\ \A d \in Callers \ {c} : pc'[d] = pc[d] /\ inv'[d] = inv[d] /\ req'[d] = req[d]
    BY <2>1, <2>5, <2>6 DEF Goto, TypeCalls
  <2>8. CallsInv'
    BY <2>1, <2>3, <2>7 DEF CallsInv, InsertsAreFresh, AnnouncedBeforeCommit,
       LowRiskHasNoRequest, GateIsForHighRisk, Inserting, NoNewId
  <2>9. TypeRest'
    BY <2>1 DEF TypeRest, decisionVars
  <2>10. OnlyApprovedRuns'
    BY <2>1, <2>3, <2>7, RunsKept
  <2>11. AuditAccountsForDecisions'
    <3>1. \A row \in requests : row.status \in Verdicts => row \in requests'
      BY <2>3 DEF FrozenNow, Verdicts
    <3> QED  BY <2>1, <2>3, <3>1, AuditKept DEF Verdicts
  <2> QED  BY <2>4, <2>7, <2>8, <2>9, <2>10, <2>11 DEF IInv
<1>8. ASSUME NEW c \in Callers, FindApproved(c)
      PROVE  IInv'
  <2>1. UNCHANGED <<tableVars, approvals, lingering, effects, calls, decisionVars>>
    BY <1>8 DEF FindApproved
  <2>2. TypeTable' /\ TableInv' /\ FrozenNow /\ NoNewId /\ lastRequest' = lastRequest
        /\ notified' = notified
    BY <2>1, TableUntouched DEF tableVars
  <2>3. TypeRest' /\ AuditAccountsForDecisions'
    BY <2>1, AuditKept DEF TypeRest, decisionVars, tableVars
  <2>4. TypeCalls' /\ CallsInv' /\ OnlyApprovedRuns'
    <3>1. CASE Return(c)
      <4>1. TypeCalls' /\ CallsInv'
        BY <2>2, <3>1, Returned
      <4>2. \A d \in Callers : pc'[d] \in {"handler", "runner", "record"} =>
               pc'[d] = pc[d] /\ inv'[d] = inv[d] /\ req'[d] = req[d]
        BY <3>1 DEF Return, TypeCalls
      <4> QED  BY <2>1, <2>2, <4>1, <4>2, RunsKept
    <3>2. ASSUME NEW row \in requests, NEW to \in {"handler", "runner"},
                 Usable(row, inv[c]), Goto(c, "findApproved", to),
                 req' = [req EXCEPT ![c] = row.id], inv' = inv
          PROVE  TypeCalls' /\ CallsInv' /\ OnlyApprovedRuns'
      <4>1. inv' = [inv EXCEPT ![c] = inv[c]] /\ inv[c] \in Invocations \cup {None}
            /\ row.id \in RequestIds \cup {0} /\ to \in CallPhases
        BY <3>2 DEF TypeCalls, TypeTable, Requests, CallPhases
      <4>2. /\ TypeCalls'
            /\ pc[c] = "findApproved" /\ pc'[c] = to /\ inv'[c] = inv[c] /\ req'[c] = row.id
            /\ \A d \in Callers \ {c} : pc'[d] = pc[d] /\ inv'[d] = inv[d] /\ req'[d] = req[d]
        BY <3>2, <4>1 DEF Goto, TypeCalls
      <4>3. inv[c] \in HighRisk
        BY <4>2 DEF CallsInv, GateIsForHighRisk
      <4>4. CallsInv'
        BY <2>1, <4>2, <4>3 DEF tableVars, CallsInv, InsertsAreFresh, AnnouncedBeforeCommit,
           LowRiskHasNoRequest, GateIsForHighRisk, Inserting
      <4>5. ApprovedFor(row.id, inv[c])
        BY <3>2 DEF ApprovedFor, Usable
      <4>6. \A r, j : ApprovedFor(r, j) => ApprovedFor(r, j)'
        BY <2>2, ApprovalsLast
      <4> QED  BY <2>1, <4>2, <4>4, <4>5, <4>6 DEF OnlyApprovedRuns
    <3>3. CASE Goto(c, "findApproved", "findPending") /\ UNCHANGED <<inv, req>>
      <4>1. inv' = [inv EXCEPT ![c] = inv[c]] /\ inv[c] \in Invocations \cup {None}
            /\ req' = [req EXCEPT ![c] = req[c]] /\ req[c] \in RequestIds \cup {0}
            /\ "findPending" \in CallPhases
        BY <3>3 DEF TypeCalls, CallPhases
      <4>2. /\ TypeCalls'
            /\ pc[c] = "findApproved" /\ pc'[c] = "findPending"
            /\ inv'[c] = inv[c] /\ req'[c] = req[c]
            /\ \A d \in Callers \ {c} : pc'[d] = pc[d] /\ inv'[d] = inv[d] /\ req'[d] = req[d]
        BY <3>3, <4>1 DEF Goto, TypeCalls
      <4>3. CallsInv'
        BY <2>1, <4>2 DEF tableVars, CallsInv, InsertsAreFresh, AnnouncedBeforeCommit,
           LowRiskHasNoRequest, GateIsForHighRisk, Inserting
      <4> QED  BY <2>1, <2>2, <4>2, <4>3, RunsKept
    <3> QED  BY <1>8, <3>1, <3>2, <3>3 DEF FindApproved, RunPhase
  <2> QED  BY <2>2, <2>3, <2>4 DEF IInv
<1>9. ASSUME NEW c \in Callers, FindPending(c)
      PROVE  IInv'
  <2>1. UNCHANGED <<requests, overdue, notified, approvals, lingering, effects, calls,
                    decisionVars>>
    BY <1>9 DEF FindPending
  <2>2. FrozenNow /\ NoNewId
    BY <2>1 DEF FrozenNow, NoNewId
  <2>3. TypeRest' /\ AuditAccountsForDecisions'
    BY <2>1, AuditKept DEF TypeRest, decisionVars
  <2>4. CASE pc[c] = "findPending" /\ Return(c) /\ UNCHANGED lastRequest
    <3>1. TypeTable' /\ TableInv'
      BY <2>1, <2>4, TableUntouched DEF tableVars
    <3>2. TypeCalls' /\ CallsInv'
      BY <2>1, <2>2, <2>4, Returned
    <3>3. \A d \in Callers : pc'[d] \in {"handler", "runner", "record"} =>
             pc'[d] = pc[d] /\ inv'[d] = inv[d] /\ req'[d] = req[d]
      BY <2>4 DEF Return, TypeCalls
    <3>4. OnlyApprovedRuns'
      BY <2>1, <2>2, <3>3, RunsKept
    <3> QED  BY <2>3, <3>1, <3>2, <3>4 DEF IInv
  <2>5. CASE /\ lastRequest < MaxRequests
             /\ Goto(c, "findPending", "notify")
             /\ lastRequest' = lastRequest + 1
             /\ req' = [req EXCEPT ![c] = lastRequest + 1]
             /\ UNCHANGED inv
    <3>1. TypeTable' /\ TableInv'
      BY <2>1, <2>5 DEF TypeTable, Requests, TableInv, NoSilentRequest, KeysAreUnique
    <3>2. /\ TypeCalls'
          /\ pc[c] = "findPending" /\ pc'[c] = "notify"
          /\ inv'[c] = inv[c] /\ req'[c] = lastRequest + 1
          /\ \A d \in Callers \ {c} : pc'[d] = pc[d] /\ inv'[d] = inv[d] /\ req'[d] = req[d]
      BY <2>5 DEF Goto, TypeCalls, TypeTable, CallPhases
    <3>3. InsertsAreFresh'
      <4>1. \A row \in requests : row.id \in Nat /\ row.id <= lastRequest
        BY DEF TypeTable, Requests, TableInv, KeysAreUnique
      <4>2. \A d \in Callers \ {c} : pc[d] \in Inserting => req[d] \in 1 .. lastRequest
        BY DEF CallsInv, InsertsAreFresh
      <4> QED  BY <2>1, <2>5, <3>2, <4>1, <4>2
               DEF CallsInv, InsertsAreFresh, Inserting, TypeTable
    <3>4. AnnouncedBeforeCommit' /\ LowRiskHasNoRequest' /\ GateIsForHighRisk'
      BY <2>1, <3>2 DEF CallsInv, AnnouncedBeforeCommit, LowRiskHasNoRequest,
         GateIsForHighRisk, Inserting
    <3>5. OnlyApprovedRuns'
      BY <2>1, <2>2, <3>2, RunsKept
    <3> QED  BY <2>3, <3>1, <3>2, <3>3, <3>4, <3>5 DEF IInv, CallsInv
  <2> QED  BY <1>9, <2>4, <2>5 DEF FindPending
<1>10. ASSUME NEW c \in Callers, Notify(c)
       PROVE  IInv'
  <2>1. UNCHANGED <<requests, overdue, lastRequest, approvals, inv, req, lingering,
                    effects, calls, decisionVars>>
    BY <1>10 DEF Notify
  <2>2. /\ TypeCalls'
        /\ pc[c] = "notify" /\ pc'[c] = "commit"
        /\ \A d \in Callers \ {c} : pc'[d] = pc[d]
    BY <1>10 DEF Notify, Goto, TypeCalls, CallPhases
  <2>3. notified' = notified \cup {req[c]} /\ req[c] \in 1 .. lastRequest
    BY <1>10, <2>2 DEF Notify, CallsInv, InsertsAreFresh, Inserting
  <2>4. TypeTable' /\ TableInv'
    <3>1. req[c] \in RequestIds
      BY <2>3 DEF TypeTable
    <3>2. TypeTable'
      BY <2>1, <2>3, <3>1 DEF TypeTable
    <3> QED  BY <2>1, <2>3, <3>2 DEF TableInv, NoSilentRequest, KeysAreUnique
  <2>5. CallsInv'
    BY <2>1, <2>2, <2>3 DEF CallsInv, InsertsAreFresh, AnnouncedBeforeCommit,
       LowRiskHasNoRequest, GateIsForHighRisk, Inserting
  <2>6. TypeRest' /\ AuditAccountsForDecisions'
    BY <2>1, AuditKept DEF TypeRest, decisionVars
  <2>7. OnlyApprovedRuns'
    BY <2>1, <2>2, RunsKept DEF FrozenNow
  <2> QED  BY <2>2, <2>4, <2>5, <2>6, <2>7 DEF IInv
<1>11. ASSUME NEW c \in Callers, CommitRequest(c)
       PROVE  IInv'
  <2> DEFINE new == [id |-> req[c], inv |-> inv[c], status |-> "PENDING", recorded |-> FALSE]
  <2>1. /\ UNCHANGED <<overdue, lastRequest, notified, approvals, lingering, effects, calls,
                       decisionVars>>
        /\ requests' = requests \cup {new} /\ pc[c] = "commit" /\ Return(c)
    BY <1>11 DEF CommitRequest
  <2>2. /\ req[c] \in 1 .. lastRequest /\ req[c] \in notified /\ inv[c] \in Invocations
        /\ \A row \in requests : row.id # req[c]
        /\ \A d \in Callers : d # c /\ pc[d] \in Inserting => req[d] # req[c]
    BY <2>1 DEF CallsInv, InsertsAreFresh, AnnouncedBeforeCommit, GateIsForHighRisk, Inserting
  <2>3. new.id = req[c] /\ new.status = "PENDING"
    OBVIOUS
  <2>4. new \in Requests
    BY <2>2 DEF Requests, Statuses, TypeTable
  <2> HIDE DEF new
  <2>5. TypeTable' /\ TableInv'
    BY <2>1, <2>2, <2>3, <2>4 DEF TypeTable, TableInv, NoSilentRequest, KeysAreUnique
  <2>6. /\ TypeCalls'
        /\ pc'[c] = "idle" /\ req'[c] = 0
        /\ \A d \in Callers \ {c} : pc'[d] = pc[d] /\ inv'[d] = inv[d] /\ req'[d] = req[d]
    BY <2>1 DEF Return, TypeCalls, CallPhases
  <2>7. CallsInv'
    BY <2>1, <2>2, <2>3, <2>6 DEF CallsInv, InsertsAreFresh, AnnouncedBeforeCommit,
       LowRiskHasNoRequest, GateIsForHighRisk, Inserting
  <2>8. TypeRest'
    BY <2>1 DEF TypeRest, decisionVars
  <2>9. OnlyApprovedRuns'
    BY <2>1, <2>6, RunsKept DEF FrozenNow
  <2>10. AuditAccountsForDecisions'
    BY <2>1, <2>3, AuditKept DEF Verdicts
  <2> QED  BY <2>5, <2>6, <2>7, <2>8, <2>9, <2>10 DEF IInv
<1>12. ASSUME NEW c \in Callers, ToolReturns(c) \/ ToolThrows(c) \/ Timeout(c)
       PROVE  IInv'
  <2>1. UNCHANGED <<tableVars, approvals, calls, decisionVars>> /\ pc[c] \in {"handler", "runner"}
    BY <1>12 DEF ToolReturns, ToolThrows, Timeout
  <2>2. TypeTable' /\ TableInv' /\ FrozenNow /\ NoNewId /\ AuditAccountsForDecisions'
        /\ lastRequest' = lastRequest /\ notified' = notified
    BY <2>1, TableUntouched, AuditKept DEF tableVars
  <2>3. req[c] \in RequestIds \cup {0}
        /\ (req[c] # 0 => \E i \in HighRisk : ApprovedFor(req[c], i))
    BY <2>1, RunIsApproved DEF TypeCalls
  <2>4. /\ TypeCalls' /\ CallsInv'
        /\ \A d \in Callers : pc'[d] \in {"handler", "runner", "record"} =>
              /\ pc[d] \in {"handler", "runner", "record"}
              /\ inv'[d] = inv[d] /\ req'[d] = req[d]
    <3>1. CASE Return(c)
      <4>1. TypeCalls' /\ CallsInv'
        BY <2>2, <3>1, Returned
      <4> QED  BY <3>1, <4>1 DEF Return, TypeCalls
    <3>2. CASE Goto(c, pc[c], "record") /\ UNCHANGED <<inv, req>>
      <4>1. TypeCalls'
        BY <3>2 DEF Goto, TypeCalls, CallPhases
      <4>2. pc'[c] = "record" /\ \A d \in Callers \ {c} : pc'[d] = pc[d]
        BY <3>2 DEF Goto, TypeCalls
      <4>3. CallsInv'
        BY <2>1, <2>2, <3>2, <4>2 DEF tableVars, CallsInv, InsertsAreFresh,
           AnnouncedBeforeCommit, LowRiskHasNoRequest, GateIsForHighRisk, Inserting
      <4> QED  BY <2>1, <3>2, <4>1, <4>2, <4>3
    <3> QED  BY <1>12, <3>1, <3>2 DEF ToolReturns, ToolThrows, Timeout
  <2>5. CASE UNCHANGED lingering /\ Executed(req[c])
    <3>1. OnlyApprovedRuns' /\ effects' \in [RequestIds -> Nat]
      BY <2>2, <2>3, <2>4, <2>5, RunsAfterExecution
    <3>2. TypeRest'
      BY <2>1, <2>5, <3>1 DEF TypeRest, decisionVars
    <3> QED  BY <2>2, <2>4, <3>1, <3>2 DEF IInv
  <2>6. CASE UNCHANGED <<lingering, effects>>
    <3>1. TypeRest'
      BY <2>1, <2>6 DEF TypeRest, decisionVars
    <3>2. OnlyApprovedRuns'
      BY <2>2, <2>4, <2>6, RunsKept
    <3> QED  BY <2>2, <2>4, <3>1, <3>2 DEF IInv
  <2>7. CASE /\ UNCHANGED effects
             /\ lingering' = [r \in RequestIds |-> lingering[r] + (IF r = req[c] THEN 1 ELSE 0)]
    <3>1. TypeRest'
      BY <2>1, <2>7 DEF TypeRest, decisionVars
    <3>2. \A q \in RequestIds : lingering'[q] > 0 => lingering[q] > 0 \/ q = req[c]
      BY <2>7 DEF TypeRest
    <3>3. \A q, i : ApprovedFor(q, i) => ApprovedFor(q, i)'
      BY <2>2, ApprovalsLast
    <3>4. \A q \in RequestIds : lingering'[q] > 0 \/ effects'[q] > 0
              => \E i \in HighRisk : ApprovedFor(q, i)'
      BY <2>3, <2>7, <3>2, <3>3 DEF OnlyApprovedRuns
    <3>5. OnlyApprovedRuns'
      BY <2>4, <3>3, <3>4 DEF OnlyApprovedRuns
    <3> QED  BY <2>2, <2>4, <3>1, <3>5 DEF IInv
  <2> QED  BY <1>12, <2>5, <2>6, <2>7 DEF ToolReturns, ToolThrows, Timeout
<1>13. CASE LateExecution
  <2>1. UNCHANGED <<tableVars, approvals, pc, inv, req, calls, decisionVars>>
    BY <1>13 DEF LateExecution
  <2>2. TypeTable' /\ TableInv' /\ FrozenNow /\ NoNewId
    BY <2>1, TableUntouched
  <2>3. TypeCalls' /\ CallsInv' /\ AuditAccountsForDecisions'
    BY <2>1, <2>2, CallsUntouched, AuditKept DEF tableVars
  <2>4. PICK r \in RequestIds : /\ lingering[r] > 0
                                /\ lingering' = [lingering EXCEPT ![r] = @ - 1]
                                /\ Executed(r)
    BY <1>13 DEF LateExecution
  <2>5. /\ \A q \in RequestIds : lingering'[q] > 0 => lingering[q] > 0
        /\ lingering' \in [RequestIds -> Nat]
    BY <2>4 DEF TypeRest
  <2>6. \E i \in HighRisk : ApprovedFor(r, i)
    BY <2>4 DEF OnlyApprovedRuns
  <2>7. OnlyApprovedRuns' /\ effects' \in [RequestIds -> Nat]
    BY <2>1, <2>2, <2>4, <2>5, <2>6, RunsAfterExecution
  <2>8. TypeRest'
    BY <2>1, <2>5, <2>7 DEF TypeRest, decisionVars
  <2> QED  BY <2>2, <2>3, <2>7, <2>8 DEF IInv
<1>14. ASSUME NEW c \in Callers, RecordOutcome(c) \/ CallFails(c)
       PROVE  IInv'
  <2>1. UNCHANGED <<overdue, lastRequest, notified, approvals, lingering, effects, calls,
                    decisionVars>> /\ Return(c)
    BY <1>14 DEF RecordOutcome, CallFails, tableVars
  <2>2. requests' = requests
    BY <1>14, OutcomeRefused DEF CallFails, tableVars
  <2>3. TypeTable' /\ TableInv' /\ FrozenNow /\ NoNewId
    BY <2>1, <2>2, TableUntouched DEF tableVars
  <2>4. TypeCalls' /\ CallsInv'
    BY <2>1, <2>3, Returned
  <2>5. \A d \in Callers : pc'[d] \in {"handler", "runner", "record"} =>
           pc'[d] = pc[d] /\ inv'[d] = inv[d] /\ req'[d] = req[d]
    BY <2>1 DEF Return, TypeCalls
  <2>6. OnlyApprovedRuns'
    BY <2>1, <2>3, <2>5, RunsKept
  <2>7. TypeRest' /\ AuditAccountsForDecisions'
    BY <2>1, <2>2, AuditKept DEF TypeRest, decisionVars
  <2> QED  BY <2>3, <2>4, <2>6, <2>7 DEF IInv
<1> QED
  BY <1>1, <1>2, <1>3, <1>4, <1>5, <1>6, <1>7, <1>8, <1>9, <1>10, <1>11, <1>12, <1>13, <1>14
  DEF Next, executeTool, GateStep, Human

-----------------------------------------------------------------------------
(* The theorems *)

\* The invariant holds of every reachable state.
THEOREM Invariance == Spec => []IInv
<1>1. Init => IInv
  BY InitIInv
<1>2. IInv /\ [Next]_vars => IInv'
  BY NextIInv
<1> QED  BY <1>1, <1>2, PTL DEF Spec

\* Every variable keeps its type.
THEOREM TypeCorrect == Spec => []TypeOK
<1>1. IInv => TypeOK
  BY DEF IInv, TypeOK, TypeTable, TypeCalls, TypeRest
<1> QED  BY <1>1, Invariance, PTL

\* No high-risk tool runs, and no late effect happens, without an approval of
\* exactly that invocation, however many calls and humans interleave.
THEOREM RunsAreApproved == Spec => []OnlyApprovedRuns
<1>1. IInv => OnlyApprovedRuns
  BY DEF IInv
<1> QED  BY <1>1, Invariance, PTL

\* The security log, the appends in flight and those lost account for exactly
\* the decisions the table holds.
THEOREM AuditIsComplete == Spec => []AuditAccountsForDecisions
<1>1. IInv => AuditAccountsForDecisions
  BY DEF IInv
<1> QED  BY <1>1, Invariance, PTL

\* Every request in the table was announced.
THEOREM RequestsAreAnnounced == Spec => []NoSilentRequest
<1>1. IInv => NoSilentRequest
  BY DEF IInv, TableInv
<1> QED  BY <1>1, Invariance, PTL

LEMMA StepsFreeze == IInv /\ [Next]_vars => FrozenNow
<1> SUFFICES ASSUME IInv, [Next]_vars PROVE FrozenNow
  OBVIOUS
<1> USE DEF IInv
<1>1. CASE requests' = requests
  BY <1>1 DEF FrozenNow
<1>2. ASSUME NEW chosen \in SUBSET requests, NEW status, SetStatus(chosen, status)
      PROVE  FrozenNow
  BY <1>2 DEF SetStatus, TriggerAllows, FrozenNow
<1>3. ASSUME NEW c \in Callers, CommitRequest(c)
      PROVE  FrozenNow
  BY <1>3 DEF CommitRequest, FrozenNow
<1>4. ASSUME NEW c \in Callers, RecordOutcome(c)
      PROVE  FrozenNow
  BY <1>1, <1>4, OutcomeRefused
<1>5. ASSUME NEW c \in Callers, executeTool(c)
      PROVE  FrozenNow
  <2>1. CASE ExpireStale(c)
    BY <1>2, <2>1 DEF ExpireStale
  <2> QED
    BY <1>1, <1>3, <1>4, <1>5, <2>1 DEF executeTool, GateStep, tableVars, Call, FindApproved,
       FindPending, Notify, ToolReturns, ToolThrows, Timeout, CallFails
<1>6. CASE Human
  <2>1. ASSUME NEW d \in Deciders, NEW r \in RequestIds, NEW verdict \in Verdicts,
               Decide(d, r, verdict)
        PROVE  FrozenNow
    BY <1>2, <2>1 DEF Decide
  <2> QED
    BY <1>1, <1>6, <2>1 DEF Human, LogDecision, DecisionFails, Approve, Revoke, tableVars
<1> QED
  BY <1>1, <1>5, <1>6 DEF Next, LateExecution, TimePasses, vars, tableVars

\* A decided or expired request is frozen: no call, no human and no clock ever
\* changes it, although the gate and the decision update rows they read earlier.
THEOREM DecisionsAreFinal == Spec => DecidedRowsAreFrozen
<1>1. IInv /\ [Next]_vars => [FrozenNow]_vars
  BY StepsFreeze
<1>2. [FrozenNow]_vars =>
         [\A row \in requests : row.status # "PENDING" => row \in requests']_vars
  BY DEF FrozenNow
<1> QED  BY <1>1, <1>2, Invariance, PTL DEF Spec, DecidedRowsAreFrozen

\* Recording an outcome never changes the table: whatever the interleaving, the
\* run's request is approved by then and the trigger raises, so no approval is
\* ever consumed.  This is the general form of what the run against
\* ApprovalIsSingleUse shows on one instance.
THEOREM OutcomesAreRefused ==
    Spec => [][\A c \in Callers : RecordOutcome(c) => UNCHANGED requests]_vars
<1>1. IInv /\ [Next]_vars => [\A c \in Callers : RecordOutcome(c) => UNCHANGED requests]_vars
  BY OutcomeRefused DEF IInv
<1> QED  BY <1>1, Invariance, PTL DEF Spec

-----------------------------------------------------------------------------
(* Oversight implements Approvals *)

\* What a step may do to the table and to the effects.
RowsDecided ==
    \E chosen \in SUBSET {row \in requests : Pending(row)}, status \in Statuses \ {"PENDING"} :
        /\ SetStatus(chosen, status)
        /\ status = "APPROVED" => \E row \in requests : chosen = {row}

DoneUnderApproval ==
    \E r \in RequestIds : Executed(r) /\ \E i \in HighRisk : ApprovedFor(r, i)

LEMMA StepKinds ==
    ASSUME IInv, [Next]_vars
    PROVE  \/ UNCHANGED <<requests, effects>>
           \/ UNCHANGED requests /\ DoneUnderApproval
           \/ UNCHANGED effects /\ \E c \in Callers : CommitRequest(c)
           \/ UNCHANGED effects /\ RowsDecided
<1> USE DEF IInv
<1>1. ASSUME NEW c \in Callers, ToolReturns(c) \/ ToolThrows(c)
      PROVE  UNCHANGED requests /\ (UNCHANGED effects \/ DoneUnderApproval)
  <2>1. UNCHANGED requests /\ pc[c] \in {"handler", "runner"}
    BY <1>1 DEF ToolReturns, ToolThrows, tableVars
  <2>2. UNCHANGED effects \/ Executed(req[c])
    BY <1>1 DEF ToolReturns, ToolThrows
  <2>3. CASE Executed(req[c]) /\ req[c] = 0
    <3>1. effects' = [q \in RequestIds |-> effects[q]]
      BY <2>3 DEF Executed, TypeRest
    <3> QED  BY <2>1, <3>1 DEF TypeRest
  <2>4. CASE Executed(req[c]) /\ req[c] # 0
    BY <2>1, <2>4, RunIsApproved DEF DoneUnderApproval, TypeCalls
  <2> QED  BY <2>1, <2>2, <2>3, <2>4
<1>2. ASSUME LateExecution
      PROVE  UNCHANGED requests /\ DoneUnderApproval
  <2>1. PICK r \in RequestIds : lingering[r] > 0 /\ Executed(r)
    BY <1>2 DEF LateExecution
  <2>2. \E i \in HighRisk : ApprovedFor(r, i)
    BY <2>1 DEF OnlyApprovedRuns
  <2> QED  BY <1>2, <2>1, <2>2 DEF LateExecution, tableVars, DoneUnderApproval
<1>3. ASSUME NEW d \in Deciders, NEW r \in RequestIds, NEW verdict \in Verdicts,
             Decide(d, r, verdict)
      PROVE  UNCHANGED effects /\ RowsDecided
  <2> DEFINE chosen == {row \in requests : row.id = r /\ Pending(row)}
  <2>1. PICK row \in requests : row.id = r /\ Pending(row)
    BY <1>3 DEF Decide
  <2>2. chosen = {row}
    BY <2>1 DEF TableInv, KeysAreUnique
  <2>3. chosen \in SUBSET {other \in requests : Pending(other)}
    OBVIOUS
  <2>4. SetStatus(chosen, verdict) /\ UNCHANGED effects
    BY <1>3 DEF Decide, callVars
  <2>5. verdict \in Statuses \ {"PENDING"}
    BY DEF Statuses, Verdicts
  <2> HIDE DEF chosen
  <2> QED  BY <2>2, <2>3, <2>4, <2>5 DEF RowsDecided
<1>4. ASSUME NEW c \in Callers, ExpireStale(c)
      PROVE  UNCHANGED effects /\ RowsDecided
  <2> DEFINE chosen == {row \in requests : Pending(row) /\ row.id \in overdue}
  <2>1. chosen \in SUBSET {other \in requests : Pending(other)}
    OBVIOUS
  <2>2. SetStatus(chosen, "EXPIRED") /\ UNCHANGED effects
    BY <1>4 DEF ExpireStale
  <2>3. "EXPIRED" \in Statuses \ {"PENDING"} /\ "EXPIRED" # "APPROVED"
    BY DEF Statuses
  <2> HIDE DEF chosen
  <2> QED  BY <2>1, <2>2, <2>3 DEF RowsDecided
<1>5. ASSUME NEW c \in Callers, RecordOutcome(c)
      PROVE  UNCHANGED <<requests, effects>>
  BY <1>5, OutcomeRefused DEF RecordOutcome
<1>6. ASSUME NEW c \in Callers, executeTool(c), ~CommitRequest(c)
      PROVE  \/ UNCHANGED <<requests, effects>>
             \/ UNCHANGED requests /\ DoneUnderApproval
             \/ UNCHANGED effects /\ RowsDecided
  BY <1>1, <1>4, <1>5, <1>6 DEF executeTool, GateStep, tableVars, Call, FindApproved,
     FindPending, Notify, Timeout, CallFails
<1>7. CASE Human
  BY <1>3, <1>7 DEF Human, LogDecision, DecisionFails, Approve, Revoke, tableVars, callVars
<1>8. ASSUME NEW c \in Callers, CommitRequest(c) PROVE UNCHANGED effects
  BY <1>8 DEF CommitRequest
<1> QED
  BY <1>2, <1>6, <1>7, <1>8 DEF Next, TimePasses, vars, tableVars, callVars

RequestOf(row) == [id |-> row.id, inv |-> row.inv]

RequestsIn(R, statuses) == {RequestOf(row) : row \in {r \in R : r.status \in statuses}}

LEMMA AskedIn ==
    /\ \A S : Asked(S) = RequestsIn(requests, S)
    /\ \A S : Asked(S)' = RequestsIn(requests', S)
BY DEF Asked, RequestsIn, RequestOf

Updated(R, chosen, status) ==
    (R \ chosen) \cup {[row EXCEPT !.status = status] : row \in chosen}

\* Q are the requests that leave those that wait for those of this status.
Moves(R, after, status, Q) ==
    /\ Q \in SUBSET RequestsIn(R, {"PENDING"})
    /\ RequestsIn(after, {"PENDING"}) = RequestsIn(R, {"PENDING"}) \ Q
    /\ \A S \in SUBSET (Statuses \ {"PENDING"}) :
          RequestsIn(after, S) = RequestsIn(R, S) \cup (IF status \in S THEN Q ELSE {})

\* An update of pending rows to one status takes their requests from those that
\* wait to those of that status, and no other.
LEMMA RequestsMove ==
    ASSUME NEW R \in SUBSET Requests, \A row, other \in R : row.id = other.id => row = other,
           NEW chosen \in SUBSET {row \in R : Pending(row)}, NEW status \in Statuses \ {"PENDING"},
           NEW Q, Q = {RequestOf(row) : row \in chosen}
    PROVE  Moves(R, Updated(R, chosen, status), status, Q)
<1> DEFINE after == Updated(R, chosen, status)
<1> DEFINE set(row) == [row EXCEPT !.status = status]
<1>1. \A row \in Requests : /\ set(row).status = status
                            /\ RequestOf(set(row)) = RequestOf(row)
  BY DEF Requests, RequestOf
<1>2. after = (R \ chosen) \cup {set(row) : row \in chosen}
  BY DEF Updated
<1>3. \A row \in chosen : row \in R /\ row \in Requests /\ row.status = "PENDING"
  BY DEF Pending
<1>4. \A row, other \in R : RequestOf(row) = RequestOf(other) => row = other
  BY DEF RequestOf
<1> HIDE DEF set, after
<1>5. Q \in SUBSET RequestsIn(R, {"PENDING"})
  BY <1>3 DEF RequestsIn
<1>6. RequestsIn(after, {"PENDING"}) = RequestsIn(R, {"PENDING"}) \ Q
  <2>1. \A row : row \in after /\ row.status = "PENDING"
                   <=> row \in R \ chosen /\ row.status = "PENDING"
    BY <1>1, <1>2, <1>3
  <2>2. \A q : q \in RequestsIn(after, {"PENDING"})
                 <=> \E row \in R \ chosen : row.status = "PENDING" /\ q = RequestOf(row)
    BY <2>1 DEF RequestsIn
  <2>3. \A row \in R \ chosen : RequestOf(row) \notin Q
    BY <1>3, <1>4
  <2>4. \A q : q \in RequestsIn(R, {"PENDING"})
                 <=> \E row \in R : row.status = "PENDING" /\ q = RequestOf(row)
    BY DEF RequestsIn
  <2>5. \A q \in Q : \E row \in chosen : q = RequestOf(row)
    OBVIOUS
  <2>6. \A q \in Q : q \notin RequestsIn(after, {"PENDING"})
    BY <2>2, <2>3
  <2>7. \A row \in chosen : RequestOf(row) \in Q
    OBVIOUS
  <2>8. \A q : q \in RequestsIn(after, {"PENDING"})
                 <=> q \in RequestsIn(R, {"PENDING"}) /\ q \notin Q
    BY <2>2, <2>4, <2>6, <2>7
  <2> QED  BY <2>8
<1>7. ASSUME NEW S \in SUBSET (Statuses \ {"PENDING"})
      PROVE  RequestsIn(after, S) = RequestsIn(R, S) \cup (IF status \in S THEN Q ELSE {})
  <2>1. \A q : q \in RequestsIn(after, S)
                 <=> \E row \in after : row.status \in S /\ q = RequestOf(row)
    BY DEF RequestsIn
  <2>2. \A q : q \in RequestsIn(R, S)
                 <=> \E row \in R : row.status \in S /\ q = RequestOf(row)
    BY DEF RequestsIn
  <2>3. \A row \in R : row.status \in S => row \in after
    BY <1>2, <1>3
  <2>4. \A q : (\E row \in after : row.status \in S /\ q = RequestOf(row))
                 <=> \/ \E row \in R : row.status \in S /\ q = RequestOf(row)
                     \/ status \in S /\ \E row \in chosen : q = RequestOf(row)
    BY <1>1, <1>2, <1>3, <2>3
  <2>5. \A q : q \in Q <=> \E row \in chosen : q = RequestOf(row)
    OBVIOUS
  <2> QED  BY <2>1, <2>2, <2>4, <2>5
<1> QED  BY <1>5, <1>6, <1>7 DEF Moves, after

LEMMA DecidingMaps ==
    ASSUME IInv, UNCHANGED effects, RowsDecided
    PROVE  Oversees!Approval \/ Oversees!Close
<1>1. PICK chosen \in SUBSET {row \in requests : Pending(row)}, status \in Statuses \ {"PENDING"} :
         /\ SetStatus(chosen, status)
         /\ status = "APPROVED" => \E row \in requests : chosen = {row}
  BY DEF RowsDecided
<1> DEFINE Q == {RequestOf(row) : row \in chosen}
<1>2. /\ Q \in SUBSET Asked({"PENDING"})
      /\ Asked({"PENDING"})' = Asked({"PENDING"}) \ Q
      /\ \A S \in SUBSET (Statuses \ {"PENDING"}) :
            Asked(S)' = Asked(S) \cup (IF status \in S THEN Q ELSE {})
  <2>1. requests' = Updated(requests, chosen, status)
    BY <1>1 DEF SetStatus, Updated
  <2>2. /\ requests \in SUBSET Requests
        /\ \A row, other \in requests : row.id = other.id => row = other
    BY DEF IInv, TypeTable, TableInv, KeysAreUnique
  <2>3. Moves(requests, requests', status, Q)
    <3>1. Q = {RequestOf(row) : row \in chosen}
      OBVIOUS
    <3> HIDE DEF Q
    <3> QED  BY <2>1, <2>2, <3>1, RequestsMove
  <2> HIDE DEF Q
  <2> QED  BY <2>3, AskedIn DEF Moves
<1>3. {"APPROVED"} \in SUBSET (Statuses \ {"PENDING"})
      /\ {"REJECTED", "EXPIRED"} \in SUBSET (Statuses \ {"PENDING"})
  BY DEF Statuses, Verdicts
<1>4. CASE status = "APPROVED"
  <2>1. PICK q : Q = {q}
    <3>1. PICK row \in requests : chosen = {row}
      BY <1>1, <1>4
    <3>2. Q = {RequestOf(row)}
      BY <3>1
    <3> QED  BY <3>2
  <2>2. /\ Asked({"APPROVED"})' = Asked({"APPROVED"}) \cup Q
        /\ Asked({"REJECTED", "EXPIRED"})' = Asked({"REJECTED", "EXPIRED"})
    BY <1>2, <1>3, <1>4
  <2> HIDE DEF Q
  <2> QED  BY <1>2, <2>1, <2>2 DEF Oversees!Approval
<1>5. CASE status # "APPROVED"
  <2>1. status \in {"REJECTED", "EXPIRED"}
    BY <1>5 DEF Statuses, Verdicts
  <2>2. /\ Asked({"APPROVED"})' = Asked({"APPROVED"})
        /\ Asked({"REJECTED", "EXPIRED"})' = Asked({"REJECTED", "EXPIRED"}) \cup Q
    BY <1>2, <1>3, <2>1
  <2> HIDE DEF Q
  <2> QED  BY <1>2, <2>2 DEF Oversees!Close
<1> QED  BY <1>4, <1>5

LEMMA CommittingMaps ==
    ASSUME IInv, NEW c \in Callers, CommitRequest(c)
    PROVE  Oversees!Ask
<1> DEFINE new == [id |-> req[c], inv |-> inv[c], status |-> "PENDING", recorded |-> FALSE]
           asked == [id |-> req[c], inv |-> inv[c]]
<1>1. requests' = requests \cup {new} /\ UNCHANGED effects
  BY DEF CommitRequest
<1>2. new.status = "PENDING" /\ RequestOf(new) = asked
  BY DEF RequestOf
<1>3. /\ req[c] \in RequestIds /\ inv[c] \in HighRisk
      /\ \A row \in requests : row.id # req[c]
  <2>1. pc[c] = "commit"
    BY DEF CommitRequest
  <2>2. req[c] \in 1 .. lastRequest /\ lastRequest \in 0 .. MaxRequests
    BY <2>1 DEF IInv, CallsInv, InsertsAreFresh, Inserting, TypeTable
  <2>3. req[c] \in RequestIds
    BY <2>2
  <2>4. inv[c] \in HighRisk /\ \A row \in requests : row.id # req[c]
    BY <2>1 DEF IInv, CallsInv, InsertsAreFresh, GateIsForHighRisk, Inserting
  <2> QED  BY <2>3, <2>4
<1> HIDE DEF new
<1>4. /\ RequestsIn(requests', {"PENDING"}) = RequestsIn(requests, {"PENDING"}) \cup {asked}
      /\ \A S : "PENDING" \notin S => RequestsIn(requests', S) = RequestsIn(requests, S)
  BY <1>1, <1>2 DEF RequestsIn
<1>5. \A q \in Oversees!Known : q.id # req[c]
  BY <1>3 DEF Oversees!Known, Asked
<1>6. Asked({"PENDING"})' = Asked({"PENDING"}) \cup {asked}
      /\ Asked({"APPROVED"})' = Asked({"APPROVED"})
      /\ Asked({"REJECTED", "EXPIRED"})' = Asked({"REJECTED", "EXPIRED"})
  BY <1>4, AskedIn
<1> QED  BY <1>1, <1>3, <1>5, <1>6 DEF Oversees!Ask

LEMMA DoingMaps ==
    ASSUME IInv, UNCHANGED requests, DoneUnderApproval
    PROVE  Oversees!Do
<1>1. PICK r \in RequestIds, i \in HighRisk : Executed(r) /\ ApprovedFor(r, i)
  BY DEF DoneUnderApproval
<1>2. effects' = [effects EXCEPT ![r] = @ + 1]
  <2>1. effects \in [RequestIds -> Nat]
    BY DEF IInv, TypeRest
  <2>2. \A q \in RequestIds : effects[q] + (IF q = r THEN 1 ELSE 0)
                               = IF q = r THEN effects[r] + 1 ELSE effects[q]
    BY <2>1
  <2>3. effects' = [q \in RequestIds |-> IF q = r THEN effects[r] + 1 ELSE effects[q]]
    BY <1>1, <2>2 DEF Executed
  <2> QED  BY <2>1, <2>3
<1>3. PICK row \in requests : row.id = r /\ row.inv = i /\ row.status = "APPROVED"
  BY <1>1 DEF ApprovedFor
<1>4. RequestOf(row) \in Asked({"APPROVED"}) /\ RequestOf(row).id = r
  BY <1>3 DEF Asked, RequestOf
<1>5. UNCHANGED Oversees!requestVars
  BY DEF Oversees!requestVars, Asked
<1> QED  BY <1>2, <1>4, <1>5 DEF Oversees!Do

\* The gate, the sandbox and the trigger implement oversight as it is promised:
\* every step is one of Approvals or none, for any calls, humans and bounds.
THEOREM OversightKeepsItsPromise == Spec => ImplementsApprovals
<1>1. Init => Oversees!ApprovalsInit
  BY DEF Init, Oversees!ApprovalsInit, Asked
<1>2. IInv /\ [Next]_vars => [Oversees!ApprovalsNext]_<<Oversees!requestVars, effects>>
  <2> SUFFICES ASSUME IInv, [Next]_vars, ~UNCHANGED <<requests, effects>>
               PROVE  Oversees!ApprovalsNext
    BY DEF Oversees!requestVars, Asked
  <2> QED  BY StepKinds, DecidingMaps, CommittingMaps, DoingMaps DEF Oversees!ApprovalsNext
<1> QED  BY <1>1, <1>2, Invariance, PTL DEF Spec, ImplementsApprovals, Oversees!ApprovalsSpec

-----------------------------------------------------------------------------
(* Oversight beside the accounts *)

NamesTyped ==
    /\ accounts \subseteq Users
    /\ requestedBy \in [RequestIds -> Users \cup {NoUser}]
    /\ decidedBy \in [RequestIds -> Users \cup {NoUser}]
    /\ refused \subseteq Users

NamesExist ==
    \A r \in RequestIds : {requestedBy[r], decidedBy[r]} \subseteq accounts \cup {NoUser}

\* Who is inserting a row has an account until the COMMIT: DELETE waits for it.
InsertersExist == \A c \in Callers : pc[c] \in Inserting => UserOf[c] \in accounts

DecidersExist == \A row \in DecidedRows : decidedBy[row.id] \in accounts

UsersInv == NamesTyped /\ NamesExist /\ InsertersExist /\ DecidersExist /\ RefusalIsForGood

\* Every step beside the accounts is a step of Oversight, or none.
LEMMA UsersStep == [UsersNext]_allVars => [Next]_vars
<1>1. \A c \in Callers : Request(c) \/ CommitNamed(c) \/ OtherStep(c) => executeTool(c)
  BY DEF Request, CommitNamed, OtherStep, executeTool, GateStep
<1>2. \A d \in Deciders, r \in RequestIds, verdict \in Verdicts : DecideAs(d, r, verdict) => Human
  BY DEF DecideAs, Human
<1>3. OtherHuman => Human
  BY DEF OtherHuman, Human
<1>4. Background => LateExecution \/ TimePasses
  BY DEF Background
<1>5. \A u \in Users : EraseUser(u) => UNCHANGED vars
  BY DEF EraseUser
<1> QED  BY <1>1, <1>2, <1>3, <1>4, <1>5 DEF UsersNext, Next, allVars

\* A step that writes no name and decides nothing.
LEMMA NamelessKeepsUsersInv ==
    ASSUME TypeTable, UsersInv, FrozenNow, UNCHANGED people, DecidedRows' \subseteq DecidedRows,
           \A c \in Callers : pc'[c] \in Inserting =>
               pc[c] \in Inserting \/ UserOf[c] \in accounts
    PROVE  UsersInv'
<1>1. NamesTyped' /\ NamesExist'
  BY DEF UsersInv, NamesTyped, NamesExist, people
<1>2. InsertersExist' /\ DecidersExist'
  BY DEF UsersInv, InsertersExist, DecidersExist, people
<1>3. RefusalIsForGood'
  BY DEF UsersInv, RefusalIsForGood, RowsNaming, TriggerAllows, FrozenNow, people
<1> QED  BY <1>1, <1>2, <1>3 DEF UsersInv

LEMMA OtherStepDecidesNothing ==
    ASSUME IInv, NEW c \in Callers, OtherStep(c)
    PROVE  /\ DecidedRows' \subseteq DecidedRows
           /\ \A d \in Callers : pc'[d] \in Inserting => pc[d] \in Inserting
<1> USE DEF IInv
<1>1. CASE ExpireStale(c)
  <2> DEFINE chosen == {row \in requests : Pending(row) /\ row.id \in overdue}
  <2>1. chosen \in SUBSET requests /\ SetStatus(chosen, "EXPIRED") /\ "EXPIRED" \in Statuses
    BY <1>1 DEF ExpireStale, Statuses
  <2>2. \A row \in requests' : row \in requests \/ row.status = "EXPIRED"
    <3> HIDE DEF chosen
    <3> QED  BY <2>1, StatusUpdate DEF TableInv
  <2> QED  BY <1>1, <2>2 DEF DecidedRows, Verdicts, ExpireStale, Goto, TypeCalls, Inserting
<1>2. CASE RecordOutcome(c)
  <2>1. requests' = requests
    BY <1>2, OutcomeRefused
  <2> QED  BY <1>2, <2>1 DEF DecidedRows, RecordOutcome, Return, TypeCalls, Inserting
<1>3. CASE ToolReturns(c) \/ ToolThrows(c) \/ Timeout(c) \/ CallFails(c)
  BY <1>3 DEF ToolReturns, ToolThrows, Timeout, CallFails, DecidedRows, tableVars, Return, Goto,
     TypeCalls, Inserting
<1>4. CASE FindApproved(c) \/ Notify(c)
  <2>1. UNCHANGED requests
    BY <1>4 DEF FindApproved, Notify, tableVars
  <2>2. \A d \in Callers : pc'[d] \in Inserting => pc[d] \in Inserting
    BY <1>4 DEF FindApproved, Notify, Return, Goto, RunPhase, TypeCalls, Inserting
  <2> QED  BY <2>1, <2>2 DEF DecidedRows
<1>5. ASSUME NEW i \in Invocations, NEW hasGate, NEW hasRunner, Call(c, i, hasGate, hasRunner)
      PROVE  /\ DecidedRows' \subseteq DecidedRows
             /\ \A d \in Callers : pc'[d] \in Inserting => pc[d] \in Inserting
  BY <1>5 DEF Call, DecidedRows, tableVars, Goto, RunPhase, TypeCalls, Inserting
<1>6. pc[c] = "findPending" \/ pc[c] = "commit" => CallFails(c)
  BY DEF OtherStep
<1>7. FindPending(c) => pc[c] = "findPending"
  BY DEF FindPending, Goto
<1>8. CommitRequest(c) => pc[c] = "commit"
  BY DEF CommitRequest
<1> QED  BY <1>1, <1>2, <1>3, <1>4, <1>5, <1>6, <1>7, <1>8 DEF OtherStep, executeTool, GateStep

LEMMA CommitNamedKeepsUsersInv ==
    ASSUME IInv, UsersInv, NEW c \in Callers, CommitNamed(c)
    PROVE  UsersInv'
<1> DEFINE new == [id |-> req[c], inv |-> inv[c], status |-> "PENDING", recorded |-> FALSE]
<1>1. /\ pc[c] = "commit" /\ Return(c) /\ requests' = requests \cup {new}
      /\ requestedBy' = [requestedBy EXCEPT ![req[c]] = UserOf[c]]
      /\ UNCHANGED <<accounts, decidedBy, refused>>
  BY DEF CommitNamed, CommitRequest
<1>2. req[c] \in 1 .. lastRequest /\ \A row \in requests : row.id # req[c]
  BY <1>1 DEF IInv, CallsInv, InsertsAreFresh, Inserting
<1>3. req[c] \in RequestIds
  BY <1>2 DEF IInv, TypeTable
<1>4. UserOf[c] \in accounts
  BY <1>1 DEF UsersInv, InsertersExist, Inserting
<1>5. NamesTyped' /\ NamesExist'
  BY <1>1, <1>3, <1>4 DEF UsersInv, NamesTyped, NamesExist
<1>6. InsertersExist'
  BY <1>1 DEF UsersInv, InsertersExist, Return, IInv, TypeCalls, Inserting
<1>7. DecidersExist'
  BY <1>1 DEF UsersInv, DecidersExist, DecidedRows, Verdicts
<1>8. \A row \in requests : requestedBy'[row.id] = requestedBy[row.id]
  BY <1>1, <1>2, <1>3 DEF UsersInv, NamesTyped, IInv, TypeTable, Requests
<1>9. RefusalIsForGood'
  BY <1>1, <1>8 DEF UsersInv, RefusalIsForGood, RowsNaming, TriggerAllows
<1> QED  BY <1>5, <1>6, <1>7, <1>9 DEF UsersInv

LEMMA DecideAsKeepsUsersInv ==
    ASSUME IInv, UsersInv, NEW d \in Deciders, NEW r \in RequestIds, NEW verdict \in Verdicts,
           DecideAs(d, r, verdict)
    PROVE  UsersInv'
<1> DEFINE chosen == {row \in requests : row.id = r /\ Pending(row)}
<1>1. /\ SetStatus(chosen, verdict) /\ pc' = pc /\ UserOf[d] \in accounts
      /\ decidedBy' = [decidedBy EXCEPT ![r] = UserOf[d]]
      /\ UNCHANGED <<accounts, requestedBy, refused>>
  BY DEF DecideAs, Decide, callVars
<1>2. PICK old \in requests : old.id = r /\ Pending(old)
  BY DEF DecideAs, Decide
<1>3. chosen = {old}
  BY <1>2 DEF IInv, TableInv, KeysAreUnique
<1>4. requests' = (requests \ {old}) \cup {[old EXCEPT !.status = verdict]}
      /\ [old EXCEPT !.status = verdict].id = r
  BY <1>1, <1>2, <1>3 DEF SetStatus, IInv, TypeTable, Requests
<1>5. \A row \in requests \ {old} : row.id # r /\ decidedBy'[row.id] = decidedBy[row.id]
  BY <1>1, <1>2 DEF IInv, TableInv, KeysAreUnique, UsersInv, NamesTyped, TypeTable, Requests
<1>6. decidedBy'[r] \in accounts
  BY <1>1 DEF UsersInv, NamesTyped
<1>7. NamesTyped' /\ NamesExist'
  BY <1>1 DEF UsersInv, NamesTyped, NamesExist
<1>8. InsertersExist'
  BY <1>1 DEF UsersInv, InsertersExist
<1>9. DecidersExist'
  <2> SUFFICES ASSUME NEW row \in DecidedRows' PROVE decidedBy'[row.id] \in accounts
    BY <1>1 DEF DecidersExist
  <2>1. row \in requests'
    BY DEF DecidedRows
  <2>2. CASE row \in requests \ {old}
    <3>1. row \in DecidedRows
      BY <2>2 DEF DecidedRows
    <3> QED  BY <1>5, <2>2, <3>1 DEF UsersInv, DecidersExist
  <2>3. CASE row \notin requests \ {old}
    BY <1>4, <1>6, <2>1, <2>3
  <2> QED  BY <2>2, <2>3
<1>10. RefusalIsForGood'
  <2>1. \A u \in refused : \E row \in requests \ {old} :
           u \in {requestedBy[row.id], decidedBy[row.id]} /\ ~TriggerAllows(row)
    BY <1>2 DEF UsersInv, RefusalIsForGood, RowsNaming, TriggerAllows, Pending
  <2> QED  BY <1>1, <1>4, <1>5, <2>1 DEF UsersInv, RefusalIsForGood, RowsNaming, TriggerAllows
<1> QED  BY <1>7, <1>8, <1>9, <1>10 DEF UsersInv

LEMMA EraseKeepsUsersInv ==
    ASSUME IInv, UsersInv, NEW u \in Users, EraseUser(u)
    PROVE  UsersInv'
<1>1. requests' = requests /\ pc' = pc
  BY DEF EraseUser, vars, tableVars, callVars
<1>2. CASE \A row \in RowsNaming(u) : TriggerAllows(row)
  <2>1. /\ accounts' = accounts \ {u} /\ refused' = refused
        /\ requestedBy' = Without(u, requestedBy) /\ decidedBy' = Without(u, decidedBy)
    BY <1>2 DEF EraseUser, DeleteAccount
  <2>2. \A r \in RequestIds : /\ requestedBy'[r] = IF requestedBy[r] = u THEN NoUser ELSE requestedBy[r]
                              /\ decidedBy'[r] = IF decidedBy[r] = u THEN NoUser ELSE decidedBy[r]
    BY <2>1 DEF Without
  <2>3. NamesTyped' /\ NamesExist'
    BY <2>1, <2>2 DEF UsersInv, NamesTyped, NamesExist, Without
  <2>4. InsertersExist'
    BY <1>1, <2>1 DEF UsersInv, InsertersExist, EraseUser, Unreferenced, Inserting
  <2>5. \A row \in requests : row.id \in RequestIds
    BY DEF IInv, TypeTable, Requests
  <2>6. DecidersExist'
    <3>1. \A row \in DecidedRows : decidedBy[row.id] # u
      BY <1>2 DEF DecidedRows, RowsNaming, TriggerAllows, Verdicts
    <3> QED  BY <1>1, <2>1, <2>2, <2>5, <3>1 DEF UsersInv, DecidersExist, DecidedRows
  <2>7. RefusalIsForGood'
    <3> SUFFICES ASSUME NEW v \in refused
                 PROVE  v \in accounts' /\ \E row \in RowsNaming(v)' : ~TriggerAllows(row)
      BY <2>1 DEF RefusalIsForGood, TriggerAllows
    <3>1. PICK row \in RowsNaming(v) : v \in accounts /\ ~TriggerAllows(row)
      BY DEF UsersInv, RefusalIsForGood
    <3>2. v # u
      BY <1>2, <3>1
    <3>3. row \in RowsNaming(v)'
      BY <1>1, <2>2, <2>5, <3>1, <3>2 DEF RowsNaming
    <3> QED  BY <2>1, <3>1, <3>2, <3>3
  <2> QED  BY <2>3, <2>4, <2>6, <2>7 DEF UsersInv
<1>3. CASE \E row \in RowsNaming(u) : ~TriggerAllows(row)
  <2>1. refused' = refused \cup {u} /\ UNCHANGED <<accounts, requestedBy, decidedBy>>
        /\ u \in accounts
    BY <1>3 DEF EraseUser
  <2>2. RefusalIsForGood'
    BY <1>1, <1>3, <2>1 DEF UsersInv, RefusalIsForGood, RowsNaming, TriggerAllows
  <2>3. NamesTyped' /\ NamesExist' /\ InsertersExist' /\ DecidersExist'
    BY <1>1, <2>1 DEF UsersInv, NamesTyped, NamesExist, InsertersExist, DecidersExist, DecidedRows
  <2> QED  BY <2>2, <2>3 DEF UsersInv
<1> QED  BY <1>2, <1>3

LEMMA NextUsersInv == IInv /\ UsersInv /\ [UsersNext]_allVars => UsersInv'
<1> SUFFICES ASSUME IInv, UsersInv, [UsersNext]_allVars PROVE UsersInv'
  OBVIOUS
<1>1. FrozenNow /\ TypeTable
  BY UsersStep, StepsFreeze DEF IInv
<1>2. ASSUME NEW c \in Callers, Request(c) PROVE UsersInv'
  <2>1. UNCHANGED people /\ UNCHANGED requests
    BY <1>2 DEF Request, FindPending
  <2>2. \A d \in Callers : pc'[d] \in Inserting => pc[d] \in Inserting \/ UserOf[d] \in accounts
    BY <1>2 DEF Request, FindPending, Goto, Return, IInv, TypeCalls, Inserting
  <2> QED  BY <1>1, <2>1, <2>2, NamelessKeepsUsersInv DEF DecidedRows
<1>3. ASSUME NEW c \in Callers, OtherStep(c) PROVE UsersInv'
  BY <1>1, <1>3, OtherStepDecidesNothing, NamelessKeepsUsersInv DEF OtherStep
<1>4. CASE OtherHuman \/ Background \/ UNCHANGED allVars
  <2>1. UNCHANGED people /\ UNCHANGED <<requests, pc>>
    BY <1>4 DEF OtherHuman, Background, allVars, LogDecision, DecisionFails, Approve, Revoke,
       LateExecution, TimePasses, vars, tableVars, callVars
  <2> QED  BY <1>1, <2>1, NamelessKeepsUsersInv DEF DecidedRows
<1> QED
  BY <1>2, <1>3, <1>4, CommitNamedKeepsUsersInv, DecideAsKeepsUsersInv, EraseKeepsUsersInv
  DEF UsersNext

LEMMA UsersInvariance == UsersSpec => [](IInv /\ UsersInv)
<1>1. UsersInit => IInv /\ UsersInv
  <2> SUFFICES ASSUME UsersInit PROVE UsersInv
    BY InitIInv DEF UsersInit
  <2>1. NamesTyped /\ NamesExist
    BY DEF UsersInit, NamesTyped, NamesExist
  <2>2. InsertersExist /\ DecidersExist /\ RefusalIsForGood
    BY DEF UsersInit, Init, InsertersExist, DecidersExist, RefusalIsForGood, DecidedRows, Inserting
  <2> QED  BY <2>1, <2>2 DEF UsersInv
<1>2. IInv /\ UsersInv /\ [UsersNext]_allVars => (IInv /\ UsersInv)'
  BY UsersStep, NextIInv, NextUsersInv
<1> QED  BY <1>1, <1>2, PTL DEF UsersSpec

\* Oversight beside the accounts is Oversight: erasures and foreign keys add
\* nothing to what its own variables do, so all its theorems hold there.
THEOREM AccountsLeaveOversightAlone == UsersSpec => Spec
<1>1. UsersInit => Init
  BY DEF UsersInit
<1> QED  BY <1>1, UsersStep, PTL DEF UsersSpec, Spec

\* Every variable keeps its type.
THEOREM UsersTypeCorrect == UsersSpec => []UsersTypeOK
<1>1. TypeOK /\ UsersInv => UsersTypeOK
  BY DEF UsersInv, NamesTyped, UsersTypeOK
<1> QED  BY <1>1, UsersInvariance, AccountsLeaveOversightAlone, TypeCorrect, PTL

\* However erasures, calls and decisions interleave, no row names an account that
\* is gone and every decision names the human who took it.
THEOREM DecisionsStayNamed == UsersSpec => []DecisionsNameTheirHuman
<1>1. IInv /\ UsersInv => DecisionsNameTheirHuman
  <2>1. IInv => \A row \in requests : row.id \in RequestIds
    BY DEF IInv, TypeTable, Requests
  <2> QED  BY <2>1 DEF UsersInv, NamesExist, DecidersExist, DecisionsNameTheirHuman
<1> QED  BY <1>1, UsersInvariance, PTL

\* An erasure the trigger refused once can never succeed: the account stays, with
\* a row that names it and will not change.
THEOREM RefusalsAreForGood == UsersSpec => []RefusalIsForGood
<1>1. UsersInv => RefusalIsForGood
  BY DEF UsersInv
<1> QED  BY <1>1, UsersInvariance, PTL

=============================================================================
