---------------------------- MODULE MCFilesPage ----------------------------
(* Instance of FilesPage for TLC. *)
EXTENDS FilesPage, TLC

Symmetry == Permutations(Files) \cup Permutations(Folders)
=============================================================================
