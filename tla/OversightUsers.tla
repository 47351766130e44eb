--------------------------- MODULE OversightUsers ---------------------------
(***************************************************************************)
(* Oversight beside the accounts its rows name: oversight_requests refers  *)
(* to users by requested_by and decided_by, ON DELETE SET NULL             *)
(* (src/src/db/sql/0005_compliance.sql), and GDPR erasure deletes the      *)
(* account (src/src/documents/erasure.ts).  Setting a name to NULL is an   *)
(* update like any other, so oversight_forward_only has its say.           *)
(*                                                                         *)
(* Every step of Oversight is one here, with what it writes of names.  Of  *)
(* an erasure only the DELETE is modelled, in whose transaction everything *)
(* else happens; what else it does is the subject of Documents.            *)
(***************************************************************************)
EXTENDS Oversight

CONSTANTS
    Users,
    NoUser,      \* SQL NULL in a user column
    UserOf       \* UserOf[p]: whose call or decision p is

ASSUME UsersAssumption == UserOf \in [Callers \cup Deciders -> Users] /\ NoUser \notin Users

VARIABLES
    accounts,    \* accounts that exist
    requestedBy, \* requestedBy[r], decidedBy[r]: the user columns of row r
    decidedBy,
    refused      \* history: users whose erasure was answered with an error

people == <<accounts, requestedBy, decidedBy, refused>>
allVars == <<vars, people>>

UsersInit ==
    /\ Init
    /\ accounts = Users
    /\ requestedBy = [r \in RequestIds |-> NoUser]
    /\ decidedBy = [r \in RequestIds |-> NoUser]
    /\ refused = {}

-----------------------------------------------------------------------------
(* Who asks and who decides *)

\* INSERT ... requested_by, if the gate needs a new row: the foreign key wants
\* the account.  Without it the statement fails (CallFails).
Request(c) ==
    /\ FindPending(c)
    /\ pc'[c] = "notify" => UserOf[c] \in accounts
    /\ UNCHANGED people

CommitNamed(c) ==
    /\ CommitRequest(c)
    /\ requestedBy' = [requestedBy EXCEPT ![req[c]] = UserOf[c]]
    /\ UNCHANGED <<accounts, decidedBy, refused>>

\* The other steps of a call write no name.
OtherStep(c) ==
    /\ \/ pc[c] \notin {"findPending", "commit"} /\ executeTool(c)
       \/ CallFails(c)
    /\ UNCHANGED people

\* The routes hand decide the caller's own id; the foreign key wants the account.
DecideAs(d, r, verdict) ==
    /\ Decide(d, r, verdict)
    /\ UserOf[d] \in accounts
    /\ decidedBy' = [decidedBy EXCEPT ![r] = UserOf[d]]
    /\ UNCHANGED <<accounts, requestedBy, refused>>

OtherHuman ==
    /\ \/ \E d \in Deciders : LogDecision(d) \/ DecisionFails(d)
       \/ \E i \in Dangerous : Approve(i) \/ Revoke(i)
    /\ UNCHANGED people

Background == (LateExecution \/ TimePasses) /\ UNCHANGED people

-----------------------------------------------------------------------------
(* Erasure *)

RowsNaming(u) == {row \in requests : u \in {requestedBy[row.id], decidedBy[row.id]}}

\* DELETE waits for a transaction that has inserted a row naming u.
Unreferenced(u) == \A c \in Callers : pc[c] \in {"notify", "commit"} => UserOf[c] # u

Without(u, column) == [r \in RequestIds |-> IF column[r] = u THEN NoUser ELSE column[r]]

DeleteAccount(u) ==
    /\ accounts' = accounts \ {u}
    /\ requestedBy' = Without(u, requestedBy)
    /\ decidedBy' = Without(u, decidedBy)

\* Mutant: rows that cannot be changed are left as they are.
EraseAround(u) ==
    /\ u \in accounts
    /\ Unreferenced(u)
    /\ accounts' = accounts \ {u}
    /\ refused' = IF \A row \in RowsNaming(u) : TriggerAllows(row)
                    THEN refused ELSE refused \cup {u}
    /\ UNCHANGED <<vars, requestedBy, decidedBy>>

\* The account goes, and with it its name in every row; or the trigger raises on
\* one of them, everything is rolled back, and the owner gets an error.
EraseUser(u) ==
    /\ u \in accounts
    /\ Unreferenced(u)
    /\ IF \A row \in RowsNaming(u) : TriggerAllows(row)
         THEN DeleteAccount(u) /\ UNCHANGED refused
         ELSE refused' = refused \cup {u} /\ UNCHANGED <<accounts, requestedBy, decidedBy>>
    /\ UNCHANGED vars

UsersNext ==
    \/ \E c \in Callers : Request(c) \/ CommitNamed(c) \/ OtherStep(c)
    \/ \E d \in Deciders, r \in RequestIds, verdict \in Verdicts : DecideAs(d, r, verdict)
    \/ OtherHuman
    \/ Background
    \/ \E u \in Users : EraseUser(u)

UsersSpec == UsersInit /\ [][UsersNext]_allVars

\* As in Oversight the database answers, and be it with an error: an INSERT for
\* an account that is gone fails.
Answered(c) ==
    \/ Request(c) \/ CommitNamed(c)
    \/ /\ pc[c] \notin {"findPending", "commit"} /\ GateStep(c)
       /\ UNCHANGED people
    \/ /\ pc[c] = "findPending" /\ UserOf[c] \notin accounts /\ CallFails(c)
       /\ UNCHANGED people

UsersFairness ==
    /\ \A c \in Callers :
         /\ WF_allVars(Answered(c))
         /\ WF_allVars(Timeout(c) /\ UNCHANGED people)
         /\ WF_allVars(RecordOutcome(c) /\ UNCHANGED people)
    /\ \A d \in Deciders : WF_allVars(LogDecision(d) /\ UNCHANGED people)

-----------------------------------------------------------------------------
(* Properties *)

\* Every variable keeps its type.
UsersTypeOK ==
    /\ TypeOK
    /\ accounts \subseteq Users
    /\ requestedBy \in [RequestIds -> Users \cup {NoUser}]
    /\ decidedBy \in [RequestIds -> Users \cup {NoUser}]
    /\ refused \subseteq Users

\* Whatever is erased and whenever, no row names an account that is gone, and
\* every decision still names the human who took it, who still has an account:
\* the trigger that freezes the row keeps the foreign key from clearing it
\* (0005_compliance.sql:46 and 67-70).
DecisionsNameTheirHuman ==
    /\ \A row \in requests :
          {requestedBy[row.id], decidedBy[row.id]} \subseteq accounts \cup {NoUser}
    /\ \A row \in DecidedRows : decidedBy[row.id] \in accounts

\* An erasure that was refused once is refused for ever: the row that names its
\* user is decided or expired, will stay so, and will keep the name.
RefusalIsForGood ==
    \A u \in refused : u \in accounts /\ \E row \in RowsNaming(u) : ~TriggerAllows(row)

\* What PRIVACY_AND_GDPR.md:56-60 and erasure.ts:14-18 say of an erasure: it
\* deletes the account.  It does not hold of a user whom a row names that is
\* decided or expired.
ErasureDeletesTheAccount ==
    [][\A u \in Users : EraseUser(u) => u \notin accounts']_allVars
=============================================================================
