----------------------------- MODULE Approvals -----------------------------
(***************************************************************************)
(* What human oversight promises: a request for one invocation waits for   *)
(* one outcome and gets it once, by approval or by being closed (refused,  *)
(* or never answered); an approval is never withdrawn; and what is done    *)
(* under a request is done under an approved one.                          *)
(***************************************************************************)
EXTENDS Integers

CONSTANTS
    Ids,         \* requests, by number
    Subjects     \* what may be asked for

VARIABLES waiting, approved, closed, \* requests [id, inv], by what became of them
          done                       \* done[i]: what was done under request i

requestVars == <<waiting, approved, closed>>

Known == waiting \cup approved \cup closed

ApprovalsInit ==
    /\ waiting = {}
    /\ approved = {}
    /\ closed = {}
    /\ done = [i \in Ids |-> 0]

Ask ==
    /\ \E i \in Ids, s \in Subjects :
         /\ \A q \in Known : q.id # i
         /\ waiting' = waiting \cup {[id |-> i, inv |-> s]}
    /\ UNCHANGED <<approved, closed, done>>

Approval ==
    /\ \E q \in waiting : waiting' = waiting \ {q} /\ approved' = approved \cup {q}
    /\ UNCHANGED <<closed, done>>

\* Several requests may run out together.
Close ==
    /\ \E Q \in SUBSET waiting : waiting' = waiting \ Q /\ closed' = closed \cup Q
    /\ UNCHANGED <<approved, done>>

Do ==
    /\ \E q \in approved : done' = [done EXCEPT ![q.id] = @ + 1]
    /\ UNCHANGED requestVars

ApprovalsNext == Ask \/ Approval \/ Close \/ Do

ApprovalsSpec == ApprovalsInit /\ [][ApprovalsNext]_<<requestVars, done>>
=============================================================================
