---------------------------- MODULE MCVaultReads ----------------------------
(* Two files of one chunk, one of which repeats it: the shorter is read strictly, the other *)
(* streamed.                                                                                *)
EXTENDS VaultReads, TLC

CONSTANTS a, m1, m2

OneChunk == (m1 :> <<a>>) @@ (m2 :> <<a, a>>)
Symmetry == Permutations(Uploads)
=============================================================================
