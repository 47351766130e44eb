---------------------------- MODULE MCDocuments ----------------------------
(* Model-checking instance of Documents: a member and an owner, two         *)
(* concurrent requests, and a quota that two files fill.                    *)
EXTENDS Documents, TLC

CONSTANTS ann, owen

Ranks == ann :> 1 @@ owen :> 3

Interchangeable == Permutations(Requests)
=============================================================================
