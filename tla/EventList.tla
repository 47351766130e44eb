----------------------------- MODULE EventList -----------------------------
(***************************************************************************)
(* What the security log promises its readers, and the key versions theirs: *)
(* a list that only ever grows, by one element at its end.  Nothing is ever *)
(* reordered, dropped or rewritten.                                        *)
(***************************************************************************)
EXTENDS Sequences

CONSTANT Contents
VARIABLE list

ListInit == list = << >>

Extend == \E c \in Contents : list' = Append(list, c)

ListSpec == ListInit /\ [][Extend]_list
=============================================================================
