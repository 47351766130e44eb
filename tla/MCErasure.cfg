SPECIFICATION Spec
CONSTANTS
    Requests = {q1, q2}
    ann = ann
    owen = owen
    Users = {ann, owen}
    Rank <- Ranks
    Sizes = {2}
    Classes = {1, 3}
    Quota = 4
    NoUser = NoUser
    MaxRequests = 3
    MaxUnclear = 1
INVARIANT ErasureIsComplete
CHECK_DEADLOCK FALSE
