---------------------------- MODULE ContentStore ----------------------------
(***************************************************************************)
(* What Vault Core promises to the API service: objects are put whole, an  *)
(* active object stays readable, and only retired objects are reclaimed.   *)
(* How the bytes are cut, shared and collected is not visible here.        *)
(***************************************************************************)
EXTENDS Naturals

CONSTANT Manifests

VARIABLES
    status,    \* the lifecycle state of each manifest
    readable   \* the stored manifests whose bytes are all there

vars == <<status, readable>>

StoredSet == {m \in Manifests : status[m] # "absent"}
RetiredSet == {m \in Manifests : status[m] = "retired"}

Init ==
    /\ status = [m \in Manifests |-> "absent"]
    /\ readable = {}

\* An upload commits a new object, or an identical one again.
Put(m) ==
    /\ status' = [status EXCEPT ![m] = "active"]
    /\ readable' = readable \cup {m}

Retire(m) ==
    /\ status[m] = "active"
    /\ status' = [status EXCEPT ![m] = "retired"]
    /\ UNCHANGED readable

\* Retaining does not bring bytes back.
Retain(m) ==
    /\ status[m] = "retired"
    /\ status' = [status EXCEPT ![m] = "active"]
    /\ UNCHANGED readable

\* Chunks of other objects can complete an object that had lost its bytes.
Regain(S) ==
    /\ S \subseteq StoredSet
    /\ readable' = readable \cup S
    /\ UNCHANGED status

\* The collector takes bytes of retired objects only.
Reclaim(S) ==
    /\ S \subseteq RetiredSet
    /\ readable' = readable \ S
    /\ UNCHANGED status

Next ==
    \/ \E m \in Manifests : Put(m) \/ Retire(m) \/ Retain(m)
    \/ \E S \in SUBSET Manifests : Regain(S) \/ Reclaim(S)

Spec == Init /\ [][Next]_vars
=============================================================================
