---------------------------- MODULE MCVaultStore ----------------------------
(* Two files that share their only chunk, and one file that repeats it. *)
EXTENDS VaultStoreRefinement, TLC

CONSTANTS a, m1, m2

TwiceContent == m1 :> <<a, a>>
OneChunk == (m1 :> <<a>>) @@ (m2 :> <<a, a>>)
=============================================================================
