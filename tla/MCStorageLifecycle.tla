------------------------- MODULE MCStorageLifecycle -------------------------
(* All uploads carry the same bytes, as in MCRetirement. *)
EXTENDS StorageLifecycle, TLC

CONSTANT m1

Same == [f \in Files |-> m1]
Symmetry == Permutations(Workers) \cup Permutations(Deleters) \cup Permutations(Files)
=============================================================================
