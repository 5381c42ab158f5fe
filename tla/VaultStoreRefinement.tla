------------------------ MODULE VaultStoreRefinement ------------------------
(* The chunk store with its collector as an implementation of ContentStore. *)
EXTENDS VaultStore

Readable == {m \in Manifests : Stored(m) /\ HasBytes(m)}

Promise == INSTANCE ContentStore WITH
    status   <- [m \in Manifests |-> manifest[m].state],
    readable <- Readable

\* Chunk by chunk uploads and sweeps look to the API service like whole objects that are put,
\* retired, retained and, only when retired, reclaimed.
KeepsPromise == Promise!Spec
=============================================================================
