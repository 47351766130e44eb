------------------------------- MODULE MCKeys -------------------------------
(* Instance of Keys for TLC: three chunks and a message, read in pages of   *)
(* BATCH rows or row by row.  Three chunks fit into two pages; row by row    *)
(* they make enough pages for rotations to wait for each other in a circle   *)
(* around rows that are written meanwhile.                                   *)
EXTENDS Keys, TLC

VARIABLE pageSize  \* one page size for a whole behaviour

RowByRow == INSTANCE Keys WITH BATCH <- 1

MCInit == Init /\ pageSize \in {1, BATCH}

MCNext ==
    /\ \/ pageSize = BATCH /\ Next
       \/ pageSize = 1 /\ RowByRow!Next
    /\ UNCHANGED pageSize

MCSpec == MCInit /\ [][MCNext]_<<vars, pageSize>>

MCChunkIds == 1 .. 3
MCMessageIds == {4}

\* Owners are interchangeable.
MCSymmetry == Permutations(Owners)
=============================================================================
