---------------------------- MODULE MCOversight ----------------------------
(* Model-checking instance of OversightUsers: two concurrent calls and one  *)
(* human; of two users one asks, and one both asks and decides.  A behaviour *)
(* has all tools but no erasure, or erasures but one tool, as neither has    *)
(* to do with the other.                                                    *)
EXTENDS OversightUsers

CONSTANTS ann, bob, c1, wire

VARIABLE scope

Owners == [p \in Callers \cup Deciders |-> IF p = c1 THEN ann ELSE bob]

MCInit == UsersInit /\ scope \in {"tools", "erasure"}

ToolsNext == scope = "tools" /\ UsersNext /\ UNCHANGED <<accounts, refused>>

ErasureNext ==
    /\ scope = "erasure" /\ UsersNext /\ UNCHANGED approvals
    /\ \A c \in Callers : inv'[c] \in {wire, None}

MCNext == (ToolsNext \/ ErasureNext) /\ UNCHANGED scope

MCSpec == MCInit /\ [][MCNext]_<<allVars, scope>> /\ UsersFairness
=============================================================================
