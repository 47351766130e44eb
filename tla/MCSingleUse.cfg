SPECIFICATION MCSpec
CONSTANTS
    ann = ann
    bob = bob
    c1 = c1
    wire = wire
    Users = {ann, bob}
    NoUser = NoUser
    UserOf <- Owners
    Callers = {c1}
    Deciders = {d1}
    Invocations = {wire}
    HighRisk = {wire}
    Dangerous = {}
    Isolated = {}
    None = None
    MaxCalls = 2
    MaxRequests = 2
PROPERTY ApprovalIsSingleUse
CHECK_DEADLOCK FALSE
