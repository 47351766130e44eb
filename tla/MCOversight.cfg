SPECIFICATION MCSpec
CONSTANTS
    ann = ann
    bob = bob
    c1 = c1
    wire = wire
    Users = {ann, bob}
    NoUser = NoUser
    UserOf <- Owners
    Callers = {c1, c2}
    Deciders = {d1}
    Invocations = {wire, build, clock}
    HighRisk = {wire, build}
    Dangerous = {build}
    Isolated = {build}
    None = None
    MaxCalls = 3
    MaxRequests = 3
INVARIANTS
    OnlyApprovedRuns
    AuditAccountsForDecisions
    NoSilentRequest
    DecisionsNameTheirHuman
    RefusalIsForGood
PROPERTIES
    DecidedRowsAreFrozen
    ImplementsApprovals
    CallsEnd
CHECK_DEADLOCK FALSE
