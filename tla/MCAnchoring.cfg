SPECIFICATION Spec
CONSTANTS
    Writers = {w1, w2}
    Contents = {login, lockout}
    Nobody = Nobody
    MaxAppends = 2
    Anchorers = {a1, a2}
    HasSink = TRUE
    MaxAnchorRuns = 3
    MaxDamage = 1
SYMMETRY Interchangeable
INVARIANTS
    NoFalseAlarm
    AnchoredLogIsGenuine
    CheckpointsAreNumbered
    ShippedIsStored
    CountIncludesCovered
CHECK_DEADLOCK FALSE
