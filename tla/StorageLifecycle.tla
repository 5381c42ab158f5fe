-------------------------- MODULE StorageLifecycle --------------------------
(***************************************************************************)
(* The whole loop: the API service's metadata and outbox (Retirement) over *)
(* a vault that keeps ContentStore's promise and whose collector reclaims  *)
(* retired manifests after their grace period.                             *)
(*                                                                         *)
(* Thirty minutes of grace are longer than any request or worker pass, so  *)
(* a grace period can run out only while the service is down or idle.      *)
(***************************************************************************)
EXTENDS Retirement

VARIABLES
    bytes,   \* the manifests whose content the vault can still read
    aged,    \* the retired manifests whose grace period is over
    down     \* the API service is not running

system == <<vars, bytes, aged, down>>

Vault == INSTANCE ContentStore WITH status <- vault, readable <- bytes

SystemInit == Init /\ bytes = {} /\ aged = {} /\ down = FALSE

\* retired_at belongs to the latest retirement: reactivation and a new one start afresh.
StillRetired(S) == {m \in S : vault'[m] = "retired"}

Service ==
    /\ ~down
    /\ \/ Rest /\ UNCHANGED bytes
       \/ \E f \in Files : VaultUpload(f) /\ bytes' = bytes \cup {ManifestOf[f]}
    /\ aged' = StillRetired(aged)
    /\ down' = (crashes' # crashes)

\* No request, transaction or worker is under way.
Quiet ==
    /\ \A f \in Files : req[f] \in {"new", "done"}
    /\ \A d \in Deleters : tx[d].pc = "idle"
    /\ \A w \in Workers : wk[w].pc = "idle"

\* main has no shutdown: the process is just ended, here at a moment when it does nothing
\* (Crash is the end at any moment).
Stop ==
    /\ ~down /\ Quiet /\ down' = TRUE
    /\ UNCHANGED <<vars, bytes, aged>>

Restart ==
    /\ down /\ down' = FALSE
    /\ UNCHANGED <<vars, bytes, aged>>

\* Nor is a request of the outbox left to do.
Idle == Quiet /\ \A m \in Manifests : outbox[m].status # "pending"

GraceEnds(m) ==
    /\ vault[m] = "retired" /\ (down \/ Idle)
    /\ aged' = aged \cup {m}
    /\ UNCHANGED <<vars, bytes, down>>

\* Faulty variant: the collector looks at neither the state nor the grace period.
CollectAny(m) ==
    /\ m \in bytes
    /\ bytes' = bytes \ {m}
    /\ UNCHANGED <<vars, aged, down>>

\* A sweep of CollectGarbage after the grace period.
Collect(m) ==
    /\ vault[m] = "retired" /\ m \in aged /\ m \in bytes
    /\ bytes' = bytes \ {m}
    /\ UNCHANGED <<vars, aged, down>>

SystemNext ==
    \/ Service \/ Stop \/ Restart
    \/ \E m \in Manifests : GraceEnds(m) \/ Collect(m)

SystemSpec == SystemInit /\ [][SystemNext]_system

-----------------------------------------------------------------------------
(* Properties *)

\* A file the application calls committed can be read back, however deletes, identical
\* uploads, workers and the collector interleave.
CommittedReadable == \A m \in Manifests : Referenced(m) => m \in bytes

\* The service and the collector use the vault only in the ways it promises.
VaultContract == Vault!Spec
=============================================================================
