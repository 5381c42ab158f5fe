-------------------------- MODULE MCDirectoryTree --------------------------
(* Directories with names of their own; all files share one. *)
EXTENDS DirectoryTree, TLC

Names == [x \in Dirs \cup Files |-> IF x \in Files THEN Root ELSE x]
Symmetry == Permutations(Clients) \cup Permutations(Dirs) \cup Permutations(Files)
=============================================================================
