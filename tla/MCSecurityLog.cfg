SPECIFICATION FairLogSpec
CONSTANTS
    Writers = {w1, w2, w3}
    Contents = {login, lockout}
    Nobody = Nobody
    MaxAppends = 4
INVARIANTS
    ChainVerifies
PROPERTIES
    CommitsInIdOrder
    AppendsEnd
    ImplementsEventList
CHECK_DEADLOCK FALSE
