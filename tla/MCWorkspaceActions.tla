------------------------- MODULE MCWorkspaceActions -------------------------
(* Instance of WorkspaceActions for TLC. *)
EXTENDS WorkspaceActions, TLC

Symmetry == Permutations(Calls)
=============================================================================
