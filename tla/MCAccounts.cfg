SPECIFICATION Spec
CONSTANTS
    Calls = {c1, c2}
    MaxFailures = 2
    Window = 2
    LockBase = 1
    LockMax = 3
    MaxFailureCalls = 5
    MaxClock = 6
    MaxSecrets = 2
    MaxCalls = 5
    MaxTime = 4
    Users = {olga, adam, nina}
    Founder = olga
    Admin = adam
    GivenRoles = {"member", "owner"}
    MaxRequests = 3
SYMMETRY Interchangeable
INVARIANTS
    OnlyOverlapsWeakenLockout
    CodesAreSpentOnce
    EnabledSecretWasVerified
    SessionsOutliveOnlyOverlaps
PROPERTY OwnersFallToOwners
CHECK_DEADLOCK FALSE
