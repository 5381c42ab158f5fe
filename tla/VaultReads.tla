----------------------------- MODULE VaultReads -----------------------------
(***************************************************************************)
(* Readers of the content store: OpenObject and the read proxy beside      *)
(* uploads and sweeps.  A reader takes no lock; it reads the manifest,     *)
(* checks that every chunk file exists, and then opens the files one by    *)
(* one, either before the first byte is sent (strict) or while sending.    *)
(*                                                                         *)
(* Bytes on disk may change under the store; the length of a file does     *)
(* not.  The API service hands the response through as it arrives.         *)
(***************************************************************************)
EXTENDS VaultStore

CONSTANTS
    Readers,  \* requests for objects
    Small,    \* manifests within strictVerifyMaxBytes, with strictVerify on
    MaxRot    \* bound: how many chunk files go bad

ASSUME ReaderAssumption == Small \subseteq Manifests /\ MaxRot \in Nat

VARIABLES
    rd,      \* the goroutine of each request
    rotten,  \* chunk files whose bytes are not those of their hash
    rots     \* bound counter

readVars == <<vars, rd, rotten, rots>>

NoRead == [pc |-> "new", m |-> IdleUpload.m, next |-> 1, sent |-> <<>>, kept |-> FALSE]

ReadInit == Init /\ rd = [r \in Readers |-> NoRead] /\ rotten = {} /\ rots = 0

ReadGoto(r, pc) == rd' = [rd EXCEPT ![r].pc = pc]
ReadChunk(r) == Content[rd[r].m][rd[r].next]
AtEnd(r) == rd[r].next > Len(Content[rd[r].m])

\* An active manifest, or a retired one in its grace period, owes its readers the bytes.
Owed == {m \in Manifests : \/ IsActive(m)
                           \/ Retired(m) /\ ~Before(manifest[m].retiredAt, now)}

\* GetManifest, of a retired manifest too.
OpenManifest(r, m) ==
    /\ rd[r].pc = "new"
    /\ rd' = [rd EXCEPT ![r] = [NoRead EXCEPT !.pc = IF Stored(m) THEN "stat" ELSE "refused",
                                              !.m = m, !.kept = m \in Owed /\ HasBytes(m)]]
    /\ UNCHANGED <<vars, rotten, rots>>

\* The pre-flight check of one chunk file, and the choice of the mode after the last.
Preflight(r) ==
    /\ rd[r].pc = "stat"
    /\ IF AtEnd(r) THEN rd' = [rd EXCEPT ![r].next = 1,
                                         ![r].pc = IF rd[r].m \in Small THEN "strict" ELSE "stream"]
       ELSE IF file[ReadChunk(r)].stored THEN rd' = [rd EXCEPT ![r].next = @ + 1]
       ELSE ReadGoto(r, "refused")
    /\ UNCHANGED <<vars, rotten, rots>>

\* Faulty variant: a chunk is copied without comparing its hash.
CopyUnchecked(r) ==
    /\ rd[r].pc \in {"strict", "stream"} /\ ~AtEnd(r)
    /\ file[ReadChunk(r)].stored
    /\ rd' = [rd EXCEPT ![r].next = @ + 1, ![r].sent = Append(@, ReadChunk(r) \in rotten)]
    /\ UNCHANGED <<vars, rotten, rots>>

\* One round of openObjectStrict or openObjectStream: open, copy, then compare the hash.  In
\* strict mode nothing has been sent when a chunk turns out bad or gone.
Copy(r) ==
    LET bad == ReadChunk(r) \in rotten IN
    /\ rd[r].pc \in {"strict", "stream"} /\ ~AtEnd(r)
    /\ IF ~file[ReadChunk(r)].stored
         THEN ReadGoto(r, IF rd[r].pc = "strict" THEN "refused" ELSE "cut")
       ELSE IF bad /\ rd[r].pc = "strict" THEN ReadGoto(r, "refused")
       ELSE rd' = [rd EXCEPT ![r].next = @ + 1, ![r].sent = Append(@, bad),
                             ![r].pc = IF bad THEN "cut" ELSE @]
    /\ UNCHANGED <<vars, rotten, rots>>

\* The hash of the whole object agrees when those of its chunks do.
FinishRead(r) ==
    /\ rd[r].pc \in {"strict", "stream"} /\ AtEnd(r)
    /\ ReadGoto(r, "sent")
    /\ UNCHANGED <<vars, rotten, rots>>

ReaderStep(r) == (\E m \in Manifests : OpenManifest(r, m)) \/ Preflight(r) \/ Copy(r) \/ FinishRead(r)

\* The bytes of a stored chunk file change: just before a read gets to them, as it makes no
\* difference earlier.
Rot(c) ==
    /\ rots < MaxRot /\ file[c].stored /\ c \notin rotten
    /\ \E r \in Readers : rd[r].pc \in {"strict", "stream"} /\ ~AtEnd(r) /\ ReadChunk(r) = c
    /\ rots' = rots + 1
    /\ rotten' = rotten \cup {c}
    /\ UNCHANGED <<vars, rd>>

\* A step of the store: a removed file takes its bad bytes along, and a read keeps its claim
\* for as long as its manifest owes it the bytes.
StoreStep ==
    /\ Next
    /\ rotten' = {c \in rotten : file'[c].stored}
    /\ rd' = [r \in Readers |-> [rd[r] EXCEPT !.kept = @ /\ rd[r].m \in Owed']]
    /\ UNCHANGED rots

ReadNext ==
    \/ StoreStep
    \/ \E r \in Readers : ReaderStep(r)
    \/ \E c \in Chunks : Rot(c)

ReadSpec == ReadInit /\ [][ReadNext]_readVars

-----------------------------------------------------------------------------
(* Properties *)

\* A read of a whole object that is not retired longer than the grace period while it runs is
\* answered in full, although it holds no lock against the collector.
OwedReadsServed ==
    \A r \in Readers : rd[r].kept /\ rots = 0 => rd[r].pc \notin {"refused", "cut"}

\* Every byte of a strict answer has been verified, and a strict answer is never cut short.
StrictReadsVerified ==
    \A r \in Readers : rd[r].m \in Small =>
        /\ rd[r].pc # "cut"
        /\ rd[r].pc = "sent" => \A i \in DOMAIN rd[r].sent : ~rd[r].sent[i]

\* A streamed answer ends with its first bad chunk: nothing follows it.
StreamStopsAtBadChunk ==
    \A r \in Readers : \A i \in DOMAIN rd[r].sent :
        rd[r].sent[i] => i = Len(rd[r].sent) /\ rd[r].pc = "cut"

\* A chunk file gone bad is noticed in both modes: by a refusal before the first byte, or by an
\* end of the answer at the bad chunk.
BadBytesStop == StrictReadsVerified /\ StreamStopsAtBadChunk
=============================================================================
