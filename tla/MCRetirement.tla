---------------------------- MODULE MCRetirement ----------------------------
(* All uploads carry the same bytes: every race is about one manifest. *)
EXTENDS Retirement, TLC

CONSTANT m1

Same == [f \in Files |-> m1]
Symmetry == Permutations(Workers) \cup Permutations(Deleters) \cup Permutations(Files)
=============================================================================
