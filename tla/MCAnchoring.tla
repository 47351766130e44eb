---------------------------- MODULE MCAnchoring ----------------------------
(* Model-checking instance of Anchoring: two writers, two overlapping runs *)
(* of createAnchor.  Writers and runs are interchangeable.                 *)
EXTENDS Anchoring, TLC

Interchangeable == Permutations(Writers) \cup Permutations(Anchorers)
=============================================================================
