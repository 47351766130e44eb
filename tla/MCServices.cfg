SPECIFICATION Spec
CONSTANTS
    Jobs = {j1, j2}
    Downloads = {d1, d2}
    Hooks = {h1, h2}
    Events = {e1}
    maxRetries = 3
    Chats = {s1, s2}
    Passes = {p1, p2}
    threshold = 1
    windowMs = 1
    LastTime = 2
    MaxPasses = 2
    MaxEdits = 2
    MaxBoots = 2
    Migrators = {m1, m2}
INVARIANTS
    TypeOK
    ExportsRepeatOnlyOverlaps
    DeliveryLogAccounts
    AnomaliesRepeatOnlyOverlaps
    SealedDataStaysReadable
    ReportsAreComplete
    RewritesOnlyDuringMigrations
PROPERTY JobsEnd
CHECK_DEADLOCK FALSE
