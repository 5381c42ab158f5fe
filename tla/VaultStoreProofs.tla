-------------------------- MODULE VaultStoreProofs --------------------------
(***************************************************************************)
(* Vault Core's content store and its readers, for every set of chunks,    *)
(* manifests, uploads and readers and every content: what holds whatever   *)
(* the number of Stores in the process, the ends of uploads and sweeps     *)
(* included; and, when the handlers and the collector share one Store,     *)
(* that a sweep never takes the content of a committed object, that the    *)
(* store implements ContentStore, that what is removed has aged and what   *)
(* is due is found, what a reader without a lock may rely on, and that     *)
(* nobody waits for ever.                                                  *)
(***************************************************************************)
EXTENDS VaultStoreRefinement, VaultReads, FiniteSetTheorems, TLAPS

-----------------------------------------------------------------------------
(* Content and reference counts *)

\* How often a chunk occurs in a file is a natural number: what a commit adds to its count.
LEMMA MultiplicityNat ==
    ASSUME NEW m \in Manifests, NEW c
    PROVE  Multiplicity(m, c) \in Nat
<1> DEFINE S == {i \in DOMAIN Content[m] : Content[m][i] = c}
<1>1. Content[m] \in Seq(Chunks)
  BY ContentAssumption
<1>2. DOMAIN Content[m] = 1..Len(Content[m]) /\ Len(Content[m]) \in Nat
  BY <1>1
<1>3. IsFiniteSet(1..Len(Content[m]))
  BY <1>2, FS_Interval
<1>4. IsFiniteSet(S)
  BY <1>2, <1>3, FS_Subset
<1>5. QED
  BY <1>4, FS_CardinalityType DEF Multiplicity

\* The chunks of a manifest are chunk hashes.
LEMMA ContentChunks ==
    ASSUME NEW m \in Manifests
    PROVE  /\ Len(Content[m]) \in Nat
           /\ DOMAIN Content[m] = 1..Len(Content[m])
           /\ \A i \in 1..Len(Content[m]) : Content[m][i] \in Chunks
           /\ ChunksOf(m) \subseteq Chunks
<1>1. Content[m] \in Seq(Chunks)
  BY ContentAssumption
<1>2. QED
  BY <1>1 DEF ChunksOf

-----------------------------------------------------------------------------
(* Type correctness *)

\* An upload never reads past the end of its content: what it touches next is a chunk.
InFile == \A u \in Uploads : up[u].pc \in {"reuse", "persist", "record"} => ~AllTouched(u)

TypeInv == TypeOK /\ InFile

LEMMA NextChunkType ==
    ASSUME TypeOK, NEW u \in Uploads, ~AllTouched(u)
    PROVE  NextChunk(u) \in ChunksOf(up[u].m) /\ NextChunk(u) \in Chunks
<1>1. up[u].m \in Manifests /\ up[u].next \in Nat \ {0}
  BY DEF TypeOK, UploadState
<1>2. up[u].next \in 1..Len(Content[up[u].m])
  BY <1>1, ContentChunks DEF AllTouched
<1>3. QED
  BY <1>1, <1>2, ContentChunks DEF NextChunk, ChunksOf

LEMMA NoSweepType == NoSweep \in SweepState
BY DEF NoSweep, SweepState

\* The lock operations keep the lock well formed.
LEMMA LockType ==
    ASSUME TypeOK, NEW s \in Stores, NEW u \in Uploads
    PROVE  /\ RLock(s, u) \in [Stores -> LifecycleMu]
           /\ RUnlock(s, u) \in [Stores -> LifecycleMu]
<1>1. mu \in [Stores -> LifecycleMu]
  BY DEF TypeOK
<1>2. mu[s] \in LifecycleMu
  BY <1>1
<1>3. /\ [mu[s] EXCEPT !.readers = mu[s].readers \cup {u}] \in LifecycleMu
      /\ [mu[s] EXCEPT !.readers = mu[s].readers \ {u}] \in LifecycleMu
  BY <1>2 DEF LifecycleMu
<1>4. QED
  BY <1>1, <1>3 DEF RLock, RUnlock

LEMMA WriterType ==
    ASSUME TypeOK, NEW s \in Stores, NEW b \in BOOLEAN
    PROVE  [mu EXCEPT ![s].writer = b] \in [Stores -> LifecycleMu]
<1>1. mu \in [Stores -> LifecycleMu]
  BY DEF TypeOK
<1>2. mu[s] \in LifecycleMu
  BY <1>1
<1>3. [mu[s] EXCEPT !.writer = b] \in LifecycleMu
  BY <1>2 DEF LifecycleMu
<1>4. QED
  BY <1>1, <1>3

\* Moving an upload to another step, and ending it, keep its state well formed.
LEMMA UploadType ==
    ASSUME TypeOK, NEW u \in Uploads
    PROVE  /\ \A pc \in UploadPc : [up EXCEPT ![u].pc = pc] \in [Uploads -> UploadState]
           /\ [up EXCEPT ![u].pc = "split", ![u].next = up[u].next + 1] \in [Uploads -> UploadState]
           /\ Ended("done") \in UploadState /\ Ended("failed") \in UploadState
<1>1. up \in [Uploads -> UploadState]
  BY DEF TypeOK
<1>2. up[u] \in UploadState
  BY <1>1
<1>3. /\ \A pc \in UploadPc : [up[u] EXCEPT !.pc = pc] \in UploadState
      /\ [up[u] EXCEPT !.pc = "split", !.next = up[u].next + 1] \in UploadState
  <2>1. \A pc \in UploadPc : [up[u] EXCEPT !.pc = pc] \in UploadState
    BY <1>2 DEF UploadState
  <2>2. "split" \in UploadPc /\ up[u].next + 1 \in Nat \ {0}
    BY <1>2 DEF UploadState, UploadPc
  <2>3. [up[u] EXCEPT !.pc = "split", !.next = up[u].next + 1] \in UploadState
    BY <1>2, <2>2 DEF UploadState
  <2>4. QED
    BY <2>1, <2>3
<1>4. Ended("done") \in UploadState /\ Ended("failed") \in UploadState
  <2>1. (CHOOSE m \in Manifests : TRUE) \in Manifests
    BY ContentAssumption
  <2>2. {"new", "done", "failed"} \subseteq UploadPc
    BY DEF UploadPc
  <2>3. IdleUpload \in UploadState
    BY <2>1, <2>2 DEF IdleUpload, UploadState
  <2>4. QED
    BY <2>2, <2>3 DEF Ended, UploadState
<1>5. QED
  BY <1>1, <1>3, <1>4

LEMMA TypeInit == Init => TypeInv
<1> SUFFICES ASSUME Init PROVE TypeInv
  OBVIOUS
<1>1. IdleUpload \in UploadState
  BY ContentAssumption DEF IdleUpload, UploadState, UploadPc
<1>2. TypeOK
  BY <1>1, NoSweepType DEF Init, TypeOK, NoManifest, NoChunk, NoFile, NoSession, ManifestRecord,
     ChunkRecord, FileRecord, SessionRecord, LifecycleMu
<1>3. InFile
  BY DEF Init, InFile, IdleUpload
<1>4. QED
  BY <1>2, <1>3 DEF TypeInv

LEMMA TypeStep == TypeInv /\ [Next]_vars => TypeInv'
<1> SUFFICES ASSUME TypeOK, InFile, [Next]_vars PROVE TypeInv'
  BY DEF TypeInv
<1>1. ASSUME NEW u \in Uploads, NEW m \in Manifests, BeginUpload(u, m) PROVE TypeInv'
  <2>1. session' \in [Uploads -> SessionRecord]
    BY <1>1, TimeAssumption DEF BeginUpload, PutSession, TypeOK, SessionRecord
  <2>2. up' \in [Uploads -> UploadState]
    BY <1>1, TimeAssumption DEF BeginUpload, NewUpload, TypeOK, UploadState, UploadPc
  <2>3. InFile'
    BY <1>1 DEF BeginUpload, NewUpload, InFile, AllTouched, TypeOK
  <2>4. QED
    BY <1>1, <2>1, <2>2, <2>3 DEF TypeInv, TypeOK, BeginUpload, disk, memory
<1>2. ASSUME NEW u \in Uploads, TouchLookup(u) PROVE TypeInv'
  <2>1. mu' \in [Stores -> LifecycleMu]
    BY <1>2, LockType, StoreAssumption DEF TouchLookup
  <2>2. up' \in [Uploads -> UploadState]
    BY <1>2, UploadType DEF TouchLookup, Goto, UploadPc
  <2>3. InFile'
    BY <1>2 DEF TouchLookup, Goto, InFile, AllTouched, TypeOK
  <2>4. QED
    BY <1>2, <2>1, <2>2, <2>3 DEF TypeInv, TypeOK, TouchLookup, disk, memory
<1>3. ASSUME NEW u \in Uploads, TouchReuse(u) PROVE TypeInv'
  <2>1. file' \in [Chunks -> FileRecord]
    BY <1>3 DEF TouchReuse, WriteIfMissing, TypeOK, FileRecord
  <2>2. active' \in [Stores -> [Uploads -> SUBSET Chunks]]
    BY <1>3, NextChunkType, StoreAssumption DEF TouchReuse, EndTouch, InFile, TypeOK
  <2>3. mu' \in [Stores -> LifecycleMu]
    BY <1>3, LockType, StoreAssumption DEF TouchReuse, EndTouch
  <2>4. up' \in [Uploads -> UploadState]
    BY <1>3, UploadType DEF TouchReuse, EndTouch
  <2>5. InFile'
    BY <1>3 DEF TouchReuse, EndTouch, InFile, AllTouched, TypeOK
  <2>6. QED
    BY <1>3, <2>1, <2>2, <2>3, <2>4, <2>5 DEF TypeInv, TypeOK, TouchReuse, disk, memory
<1>4. ASSUME NEW u \in Uploads, TouchPersist(u) PROVE TypeInv'
  <2>1. file' \in [Chunks -> FileRecord]
    BY <1>4 DEF TouchPersist, WriteIfMissing, TypeOK, FileRecord
  <2>2. up' \in [Uploads -> UploadState]
    BY <1>4, UploadType DEF TouchPersist, Goto, UploadPc
  <2>3. InFile'
    BY <1>4 DEF TouchPersist, Goto, InFile, AllTouched, TypeOK
  <2>4. QED
    BY <1>4, <2>1, <2>2, <2>3 DEF TypeInv, TypeOK, TouchPersist, disk, memory
<1>5. ASSUME NEW u \in Uploads, TouchRecord(u) PROVE TypeInv'
  <2>1. chunk' \in [Chunks -> ChunkRecord]
    BY <1>5 DEF TouchRecord, TypeOK, ChunkRecord
  <2>2. active' \in [Stores -> [Uploads -> SUBSET Chunks]]
    BY <1>5, NextChunkType, StoreAssumption DEF TouchRecord, EndTouch, InFile, TypeOK
  <2>3. mu' \in [Stores -> LifecycleMu]
    BY <1>5, LockType, StoreAssumption DEF TouchRecord, EndTouch
  <2>4. up' \in [Uploads -> UploadState]
    BY <1>5, UploadType DEF TouchRecord, EndTouch
  <2>5. InFile'
    BY <1>5 DEF TouchRecord, EndTouch, InFile, AllTouched, TypeOK
  <2>6. QED
    BY <1>5, <2>1, <2>2, <2>3, <2>4, <2>5 DEF TypeInv, TypeOK, TouchRecord, disk, memory
<1>6. ASSUME NEW u \in Uploads, Commit(u) PROVE TypeInv'
  <2>1. up[u].m \in Manifests
    BY DEF TypeOK, UploadState
  <2>2. \A c \in Chunks : [chunk[c] EXCEPT !.refs = chunk[c].refs + Multiplicity(up[u].m, c)] \in ChunkRecord
    BY <2>1, MultiplicityNat DEF TypeOK, ChunkRecord
  <2>3. chunk' \in [Chunks -> ChunkRecord]
    BY <1>6, <2>2 DEF Commit, CommitNew, CommitExisting, TypeOK
  <2>4. Active \in ManifestRecord
    BY DEF Active, ManifestRecord
  <2>5. manifest' \in [Manifests -> ManifestRecord]
    BY <1>6, <2>4 DEF Commit, CommitNew, CommitExisting, TypeOK
  <2>6. up' \in [Uploads -> UploadState]
    BY <1>6, UploadType DEF Commit, Goto, UploadPc
  <2>7. InFile'
    BY <1>6 DEF Commit, Goto, InFile, AllTouched, TypeOK
  <2>8. QED
    BY <1>6, <2>1, <2>2, <2>3, <2>4, <2>5, <2>6, <2>7 DEF TypeInv, TypeOK, Commit, disk, memory
<1>7. ASSUME NEW u \in Uploads, MarkCommitted(u) PROVE TypeInv'
  <2>1. session' \in [Uploads -> SessionRecord]
    BY <1>7 DEF MarkCommitted, PutSession, TypeOK, SessionRecord, UploadState
  <2>2. up' \in [Uploads -> UploadState]
    BY <1>7, UploadType DEF MarkCommitted, Goto, UploadPc
  <2>3. InFile'
    BY <1>7 DEF MarkCommitted, Goto, InFile, AllTouched, TypeOK
  <2>4. QED
    BY <1>7, <2>1, <2>2, <2>3 DEF TypeInv, TypeOK, MarkCommitted, disk, memory
<1>8. ASSUME NEW u \in Uploads, MarkFailed(u) PROVE TypeInv'
  <2>1. up[u].expires \in Nat
    BY DEF TypeOK, UploadState
  <2>2. session' \in [Uploads -> SessionRecord]
    BY <1>8, <2>1 DEF MarkFailed, PutSession, TypeOK, SessionRecord
  <2>3. up' \in [Uploads -> UploadState]
    BY <1>8, UploadType DEF MarkFailed, Goto, UploadPc
  <2>4. InFile'
    BY <1>8 DEF MarkFailed, Goto, InFile, AllTouched, TypeOK
  <2>5. QED
    BY <1>8, <2>1, <2>2, <2>3, <2>4 DEF TypeInv, TypeOK, MarkFailed, disk, memory
<1>9. ASSUME NEW u \in Uploads, Unregister(u) PROVE TypeInv'
  <2>1. active' \in [Stores -> [Uploads -> SUBSET Chunks]]
    BY <1>9, StoreAssumption DEF Unregister, TypeOK
  <2>2. up' \in [Uploads -> UploadState]
    BY <1>9, UploadType DEF Unregister, TypeOK
  <2>3. InFile'
    BY <1>9 DEF Unregister, Ended, IdleUpload, InFile, AllTouched, TypeOK
  <2>4. QED
    BY <1>9, <2>1, <2>2, <2>3 DEF TypeInv, TypeOK, Unregister, disk, memory
<1>10. ASSUME NEW u \in Uploads, FailUpload(u) PROVE TypeInv'
  <2>1. mu' \in [Stores -> LifecycleMu]
    BY <1>10, LockType, StoreAssumption DEF FailUpload
  <2>2. up' \in [Uploads -> UploadState]
    BY <1>10, UploadType DEF FailUpload, Goto, UploadPc
  <2>3. InFile'
    BY <1>10 DEF FailUpload, Goto, InFile, AllTouched, TypeOK
  <2>4. QED
    BY <1>10, <2>1, <2>2, <2>3 DEF TypeInv, TypeOK, FailUpload, disk, memory
<1>11. ASSUME NEW m \in Manifests, RetireManifest(m) PROVE TypeInv'
  <2>1. manifest' \in [Manifests -> ManifestRecord]
    BY <1>11 DEF RetireManifest, TypeOK, ManifestRecord
  <2>2. InFile'
    BY <1>11 DEF RetireManifest, memory, InFile, AllTouched
  <2>3. QED
    BY <1>11, <2>1, <2>2 DEF TypeInv, TypeOK, RetireManifest, disk, memory
<1>12. ASSUME NEW m \in Manifests, RetainManifest(m) PROVE TypeInv'
  <2>1. manifest' \in [Manifests -> ManifestRecord]
    BY <1>12 DEF RetainManifest, TypeOK, ManifestRecord, Active
  <2>2. InFile'
    BY <1>12 DEF RetainManifest, memory, InFile, AllTouched
  <2>3. QED
    BY <1>12, <2>1, <2>2 DEF TypeInv, TypeOK, RetainManifest, disk, memory
<1>13. ASSUME CleanupExpiredUploadSessions PROVE TypeInv'
  <2>1. session' \in [Uploads -> SessionRecord]
    BY <1>13 DEF CleanupExpiredUploadSessions, TypeOK, SessionRecord, NoSession
  <2>2. InFile'
    BY <1>13 DEF CleanupExpiredUploadSessions, memory, InFile, AllTouched
  <2>3. QED
    BY <1>13, <2>1, <2>2 DEF TypeInv, TypeOK, CleanupExpiredUploadSessions, disk, memory
<1>14. ASSUME GcStart PROVE TypeInv'
  <2>1. gc' \in SweepState
    BY <1>14 DEF GcStart, TypeOK, SweepState, NoSweep
  <2>2. InFile'
    BY <1>14 DEF GcStart, InFile, AllTouched
  <2>3. QED
    BY <1>14, <2>1, <2>2 DEF TypeInv, TypeOK, GcStart, disk, memory
<1>15. ASSUME GcLock PROVE TypeInv'
  <2>1. mu' \in [Stores -> LifecycleMu]
    BY <1>15, WriterType, StoreAssumption DEF GcLock
  <2>2. UNION {active[GcStore][u] : u \in Uploads} \subseteq Chunks
    BY StoreAssumption DEF TypeOK
  <2>3. gc' \in SweepState
    BY <1>15, <2>2 DEF GcLock, TypeOK, SweepState
  <2>4. InFile'
    BY <1>15 DEF GcLock, InFile, AllTouched
  <2>5. QED
    BY <1>15, <2>1, <2>2, <2>3, <2>4 DEF TypeInv, TypeOK, GcLock, disk, memory
<1>16. ASSUME GcScan PROVE TypeInv'
  <2>1. gc' \in SweepState
    BY <1>16 DEF GcScan, TypeOK, SweepState
  <2>2. InFile'
    BY <1>16 DEF GcScan, InFile, AllTouched
  <2>3. QED
    BY <1>16, <2>1, <2>2 DEF TypeInv, TypeOK, GcScan, disk, memory
<1>17. ASSUME GcWalk PROVE TypeInv'
  <2>1. gc' \in SweepState
    BY <1>17 DEF GcWalk, TypeOK, SweepState
  <2>2. InFile'
    BY <1>17 DEF GcWalk, InFile, AllTouched
  <2>3. QED
    BY <1>17, <2>1, <2>2 DEF TypeInv, TypeOK, GcWalk, disk, memory
<1>18. ASSUME GcEnd PROVE TypeInv'
  <2>1. mu' \in [Stores -> LifecycleMu]
    BY <1>18, WriterType, StoreAssumption DEF GcEnd
  <2>2. gc' \in SweepState
    BY <1>18, NoSweepType DEF GcEnd
  <2>3. InFile'
    BY <1>18 DEF GcEnd, InFile, AllTouched
  <2>4. QED
    BY <1>18, <2>1, <2>2, <2>3 DEF TypeInv, TypeOK, GcEnd, disk, memory
<1>19. ASSUME NEW c \in Chunks, GcRemoveFile(c) PROVE TypeInv'
  <2>1. file' \in [Chunks -> FileRecord]
    BY <1>19 DEF GcRemoveFile, Unlink, NoFile, TypeOK, FileRecord
  <2>2. gc' \in SweepState
    BY <1>19 DEF GcRemoveFile, TypeOK, SweepState
  <2>3. InFile'
    BY <1>19 DEF GcRemoveFile, InFile, AllTouched
  <2>4. QED
    BY <1>19, <2>1, <2>2, <2>3 DEF TypeInv, TypeOK, GcRemoveFile, disk, memory
<1>20. ASSUME NEW c \in Chunks, GcRemoveOrphan(c) PROVE TypeInv'
  <2>1. file' \in [Chunks -> FileRecord]
    BY <1>20 DEF GcRemoveOrphan, Unlink, NoFile, TypeOK, FileRecord
  <2>2. gc' \in SweepState
    BY <1>20 DEF GcRemoveOrphan, TypeOK, SweepState
  <2>3. InFile'
    BY <1>20 DEF GcRemoveOrphan, InFile, AllTouched
  <2>4. QED
    BY <1>20, <2>1, <2>2, <2>3 DEF TypeInv, TypeOK, GcRemoveOrphan, disk, memory
<1>21. ASSUME NEW c \in Chunks, GcDeleteMetadata(c) PROVE TypeInv'
  <2>1. chunk' \in [Chunks -> ChunkRecord]
    BY <1>21 DEF GcDeleteMetadata, NoChunk, TypeOK, ChunkRecord
  <2>2. gc' \in SweepState
    BY <1>21 DEF GcDeleteMetadata, TypeOK, SweepState
  <2>3. InFile'
    BY <1>21 DEF GcDeleteMetadata, InFile, AllTouched
  <2>4. QED
    BY <1>21, <2>1, <2>2, <2>3 DEF TypeInv, TypeOK, GcDeleteMetadata, disk, memory
<1>22. ASSUME NEW c \in Chunks, GcSkip(c) PROVE TypeInv'
  <2>1. gc' \in SweepState
    BY <1>22 DEF GcSkip, TypeOK, SweepState
  <2>2. InFile'
    BY <1>22 DEF GcSkip, InFile, AllTouched
  <2>3. QED
    BY <1>22, <2>1, <2>2 DEF TypeInv, TypeOK, GcSkip, disk, memory
<1>23. ASSUME NEW c \in Chunks, GcSkipOrphan(c) PROVE TypeInv'
  <2>1. gc' \in SweepState
    BY <1>23 DEF GcSkipOrphan, TypeOK, SweepState
  <2>2. InFile'
    BY <1>23 DEF GcSkipOrphan, InFile, AllTouched
  <2>3. QED
    BY <1>23, <2>1, <2>2 DEF TypeInv, TypeOK, GcSkipOrphan, disk, memory
<1>24. ASSUME Tick PROVE TypeInv'
  <2>1. InFile'
    BY <1>24 DEF Tick, memory, InFile, AllTouched
  <2>2. QED
    BY <1>24, <2>1 DEF TypeInv, TypeOK, Tick, disk, memory
<1>25. ASSUME Crash PROVE TypeInv'
  <2>1. mu' \in [Stores -> LifecycleMu]
    BY <1>25 DEF Crash, LifecycleMu
  <2>2. active' \in [Stores -> [Uploads -> SUBSET Chunks]]
    BY <1>25 DEF Crash
  <2>3. up' \in [Uploads -> UploadState]
    BY <1>25, UploadType DEF Crash, TypeOK
  <2>4. gc' \in SweepState
    BY <1>25, NoSweepType DEF Crash
  <2>5. InFile'
    BY <1>25 DEF Crash, Ended, IdleUpload, InFile, AllTouched
  <2>6. QED
    BY <1>25, <2>1, <2>2, <2>3, <2>4, <2>5 DEF TypeInv, TypeOK, Crash, disk, memory
<1>26. CASE UNCHANGED vars
  BY <1>26 DEF vars, disk, memory, TypeInv, TypeOK, InFile, AllTouched
<1>27. QED
  BY <1>1, <1>2, <1>3, <1>4, <1>5, <1>6, <1>7, <1>8, <1>9, <1>10, <1>11, <1>12, <1>13, <1>14, <1>15, <1>16, <1>17, <1>18, <1>19, <1>20, <1>21, <1>22, <1>23, <1>24, <1>25, <1>26 DEF Next, UploadStep, GcStep

\* The store's records, locks, registries and goroutines keep their types.
THEOREM TypeCorrect == Spec => []TypeOK
<1>1. Spec => []TypeInv
  BY TypeInit, TypeStep, PTL DEF Spec
<1>2. TypeInv => TypeOK
  BY DEF TypeInv
<1>3. QED
  BY <1>1, <1>2, PTL

-----------------------------------------------------------------------------
(* Reference counts *)

\* Manifest records are never removed.
LEMMA ManifestsStay ==
    ASSUME TypeOK, [Next]_vars, NEW m \in Manifests, Stored(m)
    PROVE  Stored(m)'
<1>1. ASSUME NEW u \in Uploads, Commit(u) PROVE Stored(m)'
  <2>1. manifest' = [manifest EXCEPT ![up[u].m] = Active]
    BY <1>1 DEF Commit, CommitNew, CommitExisting
  <2>2. manifest'[m] \in {manifest[m], Active}
    BY <2>1 DEF TypeOK
  <2>3. QED
    BY <2>2 DEF Stored, Active
<1>2. ASSUME NEW n \in Manifests, RetireManifest(n) \/ RetainManifest(n) PROVE Stored(m)'
  BY <1>2 DEF RetireManifest, RetainManifest, Stored, Active, TypeOK
<1>3. CASE UNCHANGED manifest
  BY <1>3 DEF Stored
<1>4. QED
  BY <1>1, <1>2, <1>3 DEF Next, UploadStep, GcStep, vars, disk, memory, BeginUpload, TouchLookup,
     TouchReuse, TouchPersist, TouchRecord, MarkCommitted, MarkFailed, Unregister, FailUpload,
     CleanupExpiredUploadSessions, GcStart, GcLock, GcScan, GcWalk, GcEnd, GcRemoveFile,
     GcDeleteMetadata, GcSkip, GcRemoveOrphan, GcSkipOrphan, Tick, Crash

\* Only a commit raises a count, and only those of the chunks of the manifest it stores.
LEMMA CountsRise ==
    ASSUME TypeOK, [Next]_vars, NEW c \in Chunks, chunk'[c].refs > 0
    PROVE  \/ chunk[c].refs > 0
           \/ \E m \in Manifests : Stored(m)' /\ c \in ChunksOf(m)
<1>1. ASSUME NEW u \in Uploads, Commit(u)
      PROVE  chunk[c].refs > 0 \/ \E m \in Manifests : Stored(m)' /\ c \in ChunksOf(m)
  <2>1. up[u].m \in Manifests
    BY DEF TypeOK, UploadState
  <2>2. CASE CommitExisting(u)
    BY <2>2 DEF CommitExisting
  <2>3. CASE CommitNew(u)
    <3>1. manifest'[up[u].m].state # "absent"
      BY <2>1, <2>3 DEF CommitNew, Active, TypeOK
    <3>2. c \notin ChunksOf(up[u].m) => chunk'[c] = chunk[c]
      BY <2>3 DEF CommitNew
    <3>3. QED
      BY <2>1, <3>1, <3>2 DEF Stored
  <2>4. QED
    BY <1>1, <2>2, <2>3 DEF Commit
<1>2. ASSUME NEW u \in Uploads, TouchRecord(u) PROVE chunk[c].refs > 0
  BY <1>2 DEF TouchRecord, TypeOK, ChunkRecord
<1>3. ASSUME NEW d \in Chunks, GcDeleteMetadata(d) PROVE chunk[c].refs > 0
  BY <1>3 DEF GcDeleteMetadata, NoChunk, TypeOK, ChunkRecord
<1>4. CASE UNCHANGED chunk
  BY <1>4
<1>5. QED
  BY <1>1, <1>2, <1>3, <1>4 DEF Next, UploadStep, GcStep, vars, disk, memory, BeginUpload,
     TouchLookup, TouchReuse, TouchPersist, MarkCommitted, MarkFailed, Unregister, FailUpload,
     RetireManifest, RetainManifest, CleanupExpiredUploadSessions, GcStart, GcLock, GcScan,
     GcWalk, GcEnd, GcRemoveFile, GcSkip, GcRemoveOrphan, GcSkipOrphan, Tick, Crash

\* However many Stores there are, a counted chunk belongs to a stored manifest, so the
\* collector's branch for inconsistent metadata is dead (scanGarbageCollection).
THEOREM CountsBacked == Spec => []RefCountBacked
<1>1. Init => RefCountBacked
  BY DEF Init, RefCountBacked, NoChunk
<1>2. TypeOK /\ RefCountBacked /\ [Next]_vars => RefCountBacked'
  <2> SUFFICES ASSUME TypeOK, RefCountBacked, [Next]_vars, NEW c \in Chunks, chunk'[c].refs > 0
               PROVE  \E m \in Manifests : Stored(m)' /\ c \in ChunksOf(m)
    BY DEF RefCountBacked, Stored, ChunksOf
  <2>1. CASE chunk[c].refs > 0
    BY <2>1, ManifestsStay DEF RefCountBacked
  <2>2. CASE ~(chunk[c].refs > 0)
    BY <2>2, CountsRise
  <2>3. QED
    BY <2>1, <2>2
<1>3. QED
  BY <1>1, <1>2, TypeCorrect, PTL DEF Spec

-----------------------------------------------------------------------------
(* What holds with a Store for the collector apart *)

\* Every byte of an active object is there.
Whole(m) == IsActive(m) /\ HasBytes(m)

BeforeScan == gc.pc \in {"idle", "lock", "scan"}

\* The sweep has not decided against any chunk of the object.
Unchosen(m) ==
    /\ ChunksOf(m) \cap (gc.victims \cup gc.unlinked \cup gc.orphans) = {}
    /\ gc.pc = "walk" => ChunksOf(m) \subseteq gc.spared

\* An upload all of whose chunks so far are there, the one it is at in part.
Sound(u) ==
    /\ up[u].pc \in {"split", "reuse", "persist", "record"}
    /\ \A i \in 1 .. Len(Content[up[u].m]) :
           i < up[u].next => LET c == Content[up[u].m][i] IN chunk[c].stored /\ file[c].stored
    /\ up[u].pc = "reuse" => chunk[NextChunk(u)].stored
    /\ up[u].pc = "record" => file[NextChunk(u)].stored

Starts(u) == \E m \in Manifests : BeginUpload(u, m)

\* The upload has failed, in the session record or with the process.
Fails(u) == up[u].pc \in {"fail_session", "failed"}

Commits(u) == up[u].pc = "commit_session" /\ Whole(up[u].m)

KeptBetweenSweeps ==
    [][/\ \A u \in Uploads :
              /\ Starts(u) => Sound(u)'
              /\ Sound(u) /\ BeforeScan => Sound(u)' \/ Fails(u)' \/ Commits(u)'
       /\ \A m \in Manifests :
              Whole(m) /\ Unchosen(m) => ~IsActive(m)' \/ (Whole(m)' /\ Unchosen(m)')]_vars

\* Nothing is chosen before the scan.
UnchosenBefore == BeforeScan => \A m \in Manifests : Unchosen(m)

\* A commit raises counters; it adds and removes no chunk record.
LEMMA CommitKeepsRecords ==
    ASSUME TypeOK, NEW u \in Uploads, Commit(u), NEW d \in Chunks
    PROVE  chunk'[d].stored = chunk[d].stored
<1>1. CASE CommitExisting(u)
  BY <1>1 DEF CommitExisting
<1>2. CASE CommitNew(u)
  <2>1. chunk[d] \in ChunkRecord
    BY DEF TypeOK
  <2>2. chunk'[d] \in {chunk[d], [chunk[d] EXCEPT !.refs = @ + Multiplicity(up[u].m, d)]}
    BY <1>2 DEF CommitNew
  <2>3. [chunk[d] EXCEPT !.refs = @ + Multiplicity(up[u].m, d)].stored = chunk[d].stored
    BY <2>1 DEF ChunkRecord
  <2>4. QED
    BY <2>2, <2>3
<1>3. QED
  BY <1>1, <1>2 DEF Commit

\* Only the sweep takes files, those it has chosen, and records, those of files it has taken.
LEMMA AnyLoss ==
    ASSUME TypeInv, [Next]_vars, NEW c \in Chunks
    PROVE  /\ file[c].stored /\ ~file'[c].stored =>
                  gc.pc = "sweep" /\ c \in gc.victims \cup gc.orphans
           /\ chunk[c].stored /\ ~chunk'[c].stored => gc.pc = "sweep" /\ c \in gc.unlinked
<1> USE DEF TypeInv
<1>1. CASE UNCHANGED <<chunk, file>>
  BY <1>1
<1>2. ASSUME NEW u \in Uploads, TouchReuse(u) \/ TouchPersist(u)
      PROVE  chunk' = chunk /\ (file[c].stored => file'[c].stored)
  BY <1>2 DEF TouchReuse, TouchPersist, WriteIfMissing, TypeOK, FileRecord
<1>3. ASSUME NEW u \in Uploads, TouchRecord(u)
      PROVE  file' = file /\ (chunk[c].stored => chunk'[c].stored)
  BY <1>3 DEF TouchRecord, TypeOK, ChunkRecord
<1>4. ASSUME NEW u \in Uploads, Commit(u)
      PROVE  file' = file /\ (chunk[c].stored => chunk'[c].stored)
  BY <1>4, CommitKeepsRecords DEF Commit
<1>5. ASSUME NEW d \in Chunks, GcRemoveFile(d) \/ GcRemoveOrphan(d)
      PROVE  /\ chunk' = chunk /\ gc.pc = "sweep" /\ d \in gc.victims \cup gc.orphans
             /\ c # d => file'[c] = file[c]
  BY <1>5 DEF GcRemoveFile, GcRemoveOrphan, Unlink, TypeOK
<1>6. ASSUME NEW d \in Chunks, GcDeleteMetadata(d)
      PROVE  /\ file' = file /\ gc.pc = "sweep" /\ d \in gc.unlinked
             /\ c # d => chunk'[c] = chunk[c]
  BY <1>6 DEF GcDeleteMetadata, TypeOK
<1> QED
  BY <1>1, <1>2, <1>3, <1>4, <1>5, <1>6 DEF Next, UploadStep, GcStep, vars, disk, memory,
     BeginUpload, TouchLookup, MarkCommitted, MarkFailed, Unregister, FailUpload, RetireManifest,
     RetainManifest, CleanupExpiredUploadSessions, GcStart, GcLock, GcScan, GcWalk, GcEnd, GcSkip,
     GcSkipOrphan, Tick, Crash

LEMMA NothingChosen ==
    /\ NoSweep.pc = "idle" /\ NoSweep.victims = {} /\ NoSweep.unlinked = {} /\ NoSweep.orphans = {}
BY DEF NoSweep

LEMMA UnchosenNext ==
    ASSUME NEW m \in Manifests,
           \A c \in ChunksOf(m) : /\ c \notin gc'.victims /\ c \notin gc'.unlinked
                                  /\ c \notin gc'.orphans
                                  /\ gc'.pc = "walk" => c \in gc'.spared
    PROVE  Unchosen(m)'
  BY DEF Unchosen, ChunksOf

LEMMA UnchosenStep ==
    ASSUME TypeInv, [Next]_vars, NEW m \in Manifests, Unchosen(m), IsActive(m)
    PROVE  Unchosen(m)'
<1> USE DEF TypeInv
<1>1. gc \in SweepState /\ ChunksOf(m) \subseteq Chunks
  BY ContentChunks DEF TypeOK
<1>2. \A c \in ChunksOf(m) : Referenced(c)
  BY DEF Referenced
<1>3. ASSUME gc' = gc PROVE Unchosen(m)'
  BY <1>3 DEF Unchosen, ChunksOf
<1>4. ASSUME gc' = NoSweep \/ gc' = [NoSweep EXCEPT !.pc = "lock", !.start = now]
      PROVE  Unchosen(m)'
  <2>1. /\ gc'.pc # "walk"
        /\ gc'.victims = {} /\ gc'.unlinked = {} /\ gc'.orphans = {}
    BY <1>4, NothingChosen, NoSweepType DEF SweepState
  <2> QED
    BY <2>1, UnchosenNext
<1>5. ASSUME GcLock PROVE Unchosen(m)'
  BY <1>1, <1>5, UnchosenNext DEF GcLock, Unchosen, SweepState
<1>6. ASSUME GcScan PROVE Unchosen(m)'
  <2>1. /\ gc'.victims = {c \in Chunks : Victim(c)}
        /\ gc'.spared = {c \in Chunks : \/ Referenced(c)
                                        \/ chunk[c].stored
                                        \/ c \in gc.pinned
                                        \/ ~RetiredBefore(c, gc.start)}
        /\ gc'.unlinked = gc.unlinked /\ gc'.orphans = gc.orphans
    BY <1>1, <1>6 DEF GcScan, SweepState
  <2>2. \A c \in ChunksOf(m) : c \notin gc'.victims /\ c \in gc'.spared
    BY <1>1, <1>2, <2>1 DEF Victim
  <2> QED
    BY <2>1, <2>2, UnchosenNext DEF Unchosen
<1>7. ASSUME GcWalk PROVE Unchosen(m)'
  <2>1. /\ gc'.pc = "sweep" /\ gc'.victims = gc.victims /\ gc'.unlinked = gc.unlinked
        /\ gc'.orphans \subseteq Chunks \ gc.spared
    BY <1>1, <1>7 DEF GcWalk, SweepState
  <2> QED
    BY <1>7, <2>1, UnchosenNext DEF GcWalk, Unchosen
<1>8. ASSUME NEW c \in Chunks,
             \/ GcRemoveFile(c) \/ GcDeleteMetadata(c) \/ GcSkip(c)
             \/ GcRemoveOrphan(c) \/ GcSkipOrphan(c)
      PROVE  Unchosen(m)'
  <2>1. /\ gc'.pc = "sweep" /\ gc'.victims \subseteq gc.victims /\ gc'.orphans \subseteq gc.orphans
        /\ gc'.unlinked \subseteq gc.unlinked \cup gc.victims
    <3>1. CASE GcRemoveFile(c)
      BY <1>1, <3>1 DEF SweepState, GcRemoveFile
    <3>2. CASE GcDeleteMetadata(c)
      BY <1>1, <3>2 DEF SweepState, GcDeleteMetadata
    <3>3. CASE GcSkip(c)
      BY <1>1, <3>3 DEF SweepState, GcSkip
    <3>4. CASE GcRemoveOrphan(c)
      BY <1>1, <3>4 DEF SweepState, GcRemoveOrphan
    <3>5. CASE GcSkipOrphan(c)
      BY <1>1, <3>5 DEF SweepState, GcSkipOrphan
    <3> QED
      BY <1>8, <3>1, <3>2, <3>3, <3>4, <3>5
  <2> QED
    BY <2>1, UnchosenNext DEF Unchosen
<1> QED
  BY <1>3, <1>4, <1>5, <1>6, <1>7, <1>8 DEF Next, UploadStep, GcStep, vars, disk, memory,
     BeginUpload, TouchLookup, TouchReuse, TouchPersist, TouchRecord, Commit, MarkCommitted,
     MarkFailed, Unregister, FailUpload, RetireManifest, RetainManifest,
     CleanupExpiredUploadSessions, GcStart, GcEnd, Tick, Crash

LEMMA WholeStep ==
    ASSUME TypeInv, [Next]_vars, NEW m \in Manifests, Whole(m), Unchosen(m), IsActive(m)'
    PROVE  Whole(m)' /\ Unchosen(m)'
<1>1. ASSUME NEW c \in ChunksOf(m) PROVE chunk'[c].stored /\ file'[c].stored
  <2>1. c \in Chunks /\ chunk[c].stored /\ file[c].stored
    BY ContentChunks DEF Whole, HasBytes
  <2>2. c \notin gc.victims \cup gc.orphans \cup gc.unlinked
    BY DEF Unchosen
  <2> QED
    BY <2>1, <2>2, AnyLoss
<1>2. HasBytes(m)'
  BY <1>1 DEF HasBytes, ChunksOf
<1> QED
  BY <1>2, UnchosenStep DEF Whole

\* An upload that moves on by a chunk that is there now stays sound.
LEMMA SoundMoves ==
    ASSUME TypeInv, NEW u \in Uploads, Sound(u), ~AllTouched(u),
           \A c \in Chunks : /\ chunk[c].stored => chunk'[c].stored
                             /\ file[c].stored => file'[c].stored,
           chunk'[NextChunk(u)].stored /\ file'[NextChunk(u)].stored,
           up'[u].pc = "split", up'[u].m = up[u].m, up'[u].next = up[u].next + 1
    PROVE  Sound(u)'
<1>1. up[u].m \in Manifests /\ up[u].next \in Nat
  BY DEF TypeInv, TypeOK, UploadState
<1>2. SUFFICES ASSUME NEW i \in 1 .. Len(Content[up[u].m]), i < up[u].next + 1
               PROVE  /\ chunk'[Content[up[u].m][i]].stored
                      /\ file'[Content[up[u].m][i]].stored
  BY DEF Sound
<1>3. CASE i < up[u].next
  BY <1>1, <1>3, ContentChunks DEF Sound
<1>4. CASE i = up[u].next
  BY <1>4 DEF NextChunk
<1>5. i \in Nat
  BY <1>1, ContentChunks
<1> QED
  BY <1>1, <1>2, <1>3, <1>4, <1>5

\* The same for one that stays at its chunk.
LEMMA SoundStays ==
    ASSUME TypeInv, NEW u \in Uploads, Sound(u),
           \A c \in Chunks : /\ chunk[c].stored => chunk'[c].stored
                             /\ file[c].stored => file'[c].stored,
           up'[u].pc \in {"split", "reuse", "persist", "record"},
           up'[u].m = up[u].m, up'[u].next = up[u].next,
           up'[u].pc = "reuse" => chunk'[NextChunk(u)].stored,
           up'[u].pc = "record" => file'[NextChunk(u)].stored
    PROVE  Sound(u)'
<1>1. up[u].m \in Manifests
  BY DEF TypeInv, TypeOK, UploadState
<1>2. ASSUME NEW i \in 1 .. Len(Content[up[u].m]), i < up[u].next
      PROVE  chunk'[Content[up[u].m][i]].stored /\ file'[Content[up[u].m][i]].stored
  BY <1>1, <1>2, ContentChunks DEF Sound
<1> QED
  BY <1>2 DEF Sound, NextChunk

LEMMA SoundStep ==
    ASSUME TypeInv, [Next]_vars, NEW u \in Uploads, Sound(u), BeforeScan
    PROVE  Sound(u)' \/ Fails(u)' \/ Commits(u)'
<1> USE DEF TypeInv
<1>1. \A c \in Chunks : /\ chunk[c].stored => chunk'[c].stored
                        /\ file[c].stored => file'[c].stored
  BY AnyLoss DEF BeforeScan
<1>2. up \in [Uploads -> UploadState] /\ up[u] \in UploadState
  BY DEF TypeOK
<1>n. up[u].pc \in {"reuse", "persist", "record"} => ~AllTouched(u) /\ NextChunk(u) \in Chunks
  BY NextChunkType DEF InFile
<1>3. CASE up'[u] = up[u]
  <2>1. /\ up[u].pc = "reuse" => chunk'[NextChunk(u)].stored
        /\ up[u].pc = "record" => file'[NextChunk(u)].stored
    BY <1>1, <1>n DEF Sound
  <2> QED
    BY <1>1, <1>3, <2>1, SoundStays DEF Sound
<1>4. CASE TouchLookup(u)
  <2>1. /\ up'[u].m = up[u].m /\ up'[u].next = up[u].next
        /\ up'[u].pc = IF chunk[NextChunk(u)].stored THEN "reuse" ELSE "persist"
    BY <1>2, <1>4 DEF TouchLookup, Goto, UploadState
  <2>2. chunk' = chunk
    BY <1>4 DEF TouchLookup, disk
  <2> QED
    BY <1>1, <2>1, <2>2, SoundStays
<1>5. CASE TouchReuse(u)
  <2>1. up'[u].pc = "split" /\ up'[u].m = up[u].m /\ up'[u].next = up[u].next + 1
    BY <1>2, <1>5 DEF TouchReuse, EndTouch, UploadState
  <2>2. chunk'[NextChunk(u)].stored /\ file'[NextChunk(u)].stored /\ ~AllTouched(u)
    BY <1>n, <1>5 DEF Sound, TouchReuse, WriteIfMissing, TypeOK, FileRecord
  <2> QED
    BY <1>1, <2>1, <2>2, SoundMoves
<1>6. CASE TouchPersist(u)
  <2>1. up'[u].pc = "record" /\ up'[u].m = up[u].m /\ up'[u].next = up[u].next
    BY <1>2, <1>6 DEF TouchPersist, Goto, UploadState
  <2>2. file'[NextChunk(u)].stored
    BY <1>n, <1>6 DEF TouchPersist, WriteIfMissing, TypeOK, FileRecord
  <2> QED
    BY <1>1, <2>1, <2>2, SoundStays
<1>7. CASE TouchRecord(u)
  <2>1. up'[u].pc = "split" /\ up'[u].m = up[u].m /\ up'[u].next = up[u].next + 1
    BY <1>2, <1>7 DEF TouchRecord, EndTouch, UploadState
  <2>2. chunk'[NextChunk(u)].stored /\ file'[NextChunk(u)].stored /\ ~AllTouched(u)
    BY <1>n, <1>7 DEF Sound, TouchRecord, TypeOK, ChunkRecord
  <2> QED
    BY <1>1, <2>1, <2>2, SoundMoves
<1>8. CASE Commit(u)
  <2> DEFINE m == up[u].m
  <2>1. m \in Manifests /\ up[u].next \in Nat
    BY <1>2 DEF UploadState
  <2>2. up'[u].pc = "commit_session" /\ up'[u].m = m
    BY <1>2, <1>8 DEF Commit, Goto, UploadState
  <2>3. ASSUME NEW c \in ChunksOf(m) PROVE chunk'[c].stored /\ file'[c].stored
    <3>1. PICK i \in 1 .. Len(Content[m]) : c = Content[m][i] /\ c \in Chunks
      BY <2>1, ContentChunks DEF ChunksOf
    <3>2. i < up[u].next
      BY <1>8, <2>1, ContentChunks DEF Commit, AllTouched
    <3> QED
      BY <1>1, <3>1, <3>2 DEF Sound
  <2>4. manifest'[m] = Active
    BY <1>8, <2>1 DEF Commit, CommitNew, CommitExisting, TypeOK
  <2>5. Whole(m)'
    BY <2>2, <2>3, <2>4 DEF Whole, IsActive, Active, HasBytes, ChunksOf
  <2> QED
    BY <2>2, <2>5 DEF Commits, Whole, IsActive, HasBytes, ChunksOf
<1>9. CASE FailUpload(u)
  BY <1>2, <1>9 DEF FailUpload, Goto, UploadState, Fails
<1>10. CASE Crash
  BY <1>10 DEF Crash, Ended, Fails, Sound, IdleUpload
<1>11. ASSUME NEW v \in Uploads, v # u, (\E m \in Manifests : BeginUpload(v, m)) \/ UploadStep(v) \/ FailUpload(v)
       PROVE  up'[u] = up[u]
  BY <1>2, <1>11 DEF BeginUpload, UploadStep, FailUpload, TouchLookup, TouchReuse, TouchPersist,
     TouchRecord, EndTouch, Commit, MarkCommitted, MarkFailed, Unregister, Goto
<1>12. ~Starts(u) /\ ~MarkCommitted(u) /\ ~MarkFailed(u) /\ ~Unregister(u)
  BY DEF Sound, Starts, BeginUpload, MarkCommitted, MarkFailed, Unregister
<1> QED
  BY <1>3, <1>4, <1>5, <1>6, <1>7, <1>8, <1>9, <1>10, <1>11, <1>12 DEF Next, UploadStep, Starts,
     GcStep, vars, memory, RetireManifest, RetainManifest, CleanupExpiredUploadSessions, GcStart,
     GcLock, GcScan, GcWalk, GcEnd, GcRemoveFile, GcDeleteMetadata, GcSkip, GcRemoveOrphan,
     GcSkipOrphan, Tick

LEMMA UnchosenBeforeStep == TypeInv /\ UnchosenBefore /\ [Next]_vars => UnchosenBefore'
<1> SUFFICES ASSUME TypeInv, UnchosenBefore, [Next]_vars, BeforeScan', NEW m \in Manifests
             PROVE  Unchosen(m)'
  BY DEF UnchosenBefore
<1>1. gc \in SweepState
  BY DEF TypeInv, TypeOK
<1>2. ASSUME gc' = gc PROVE Unchosen(m)'
  BY <1>2 DEF UnchosenBefore, BeforeScan, Unchosen, ChunksOf
<1>3. ASSUME gc' = NoSweep \/ gc' = [NoSweep EXCEPT !.pc = "lock", !.start = now]
      PROVE  Unchosen(m)'
  <2>1. /\ gc'.pc # "walk"
        /\ gc'.victims = {} /\ gc'.unlinked = {} /\ gc'.orphans = {}
    BY <1>3, NothingChosen, NoSweepType DEF SweepState
  <2> QED
    BY <2>1, UnchosenNext
<1>4. ASSUME GcLock PROVE Unchosen(m)'
  BY <1>1, <1>4, UnchosenNext DEF GcLock, UnchosenBefore, BeforeScan, Unchosen, SweepState
<1>5. ASSUME \/ GcScan \/ GcWalk
             \/ \E c \in Chunks : \/ GcRemoveFile(c) \/ GcDeleteMetadata(c) \/ GcSkip(c)
                                  \/ GcRemoveOrphan(c) \/ GcSkipOrphan(c)
      PROVE  FALSE
  BY <1>1, <1>5 DEF GcScan, GcWalk, GcRemoveFile, GcDeleteMetadata, GcSkip, GcRemoveOrphan,
     GcSkipOrphan, BeforeScan, SweepState
<1> QED
  BY <1>2, <1>3, <1>4, <1>5 DEF Next, UploadStep, GcStep, vars, disk, memory,
     BeginUpload, TouchLookup, TouchReuse, TouchPersist, TouchRecord, Commit, MarkCommitted,
     MarkFailed, Unregister, FailUpload, RetireManifest, RetainManifest,
     CleanupExpiredUploadSessions, GcStart, GcEnd, Tick, Crash

\* ProcessUpload and CollectGarbage, also with the two Stores that Vault Core really has: an
\* upload that meets no scan between its start and its commit leaves a whole object, and a whole
\* object that is no choice of the sweep under way, as none is before a scan, stays whole and
\* unchosen until it is retired, whatever runs, crashes or fails.
THEOREM ContentKeptBetweenSweeps == Spec => []UnchosenBefore /\ KeptBetweenSweeps
<1>1. Init => TypeInv /\ UnchosenBefore
  BY TypeInit DEF Init, UnchosenBefore, Unchosen, NoSweep
<1>2. Spec => [](TypeInv /\ UnchosenBefore)
  BY <1>1, TypeStep, UnchosenBeforeStep, PTL DEF Spec
<1>3. ASSUME TypeInv, NEW u \in Uploads, Starts(u) PROVE Sound(u)'
  BY <1>3 DEF Starts, BeginUpload, NewUpload, Sound, TypeInv, TypeOK
<1>4. TypeInv /\ [Next]_vars =>
        [/\ \A u \in Uploads :
                /\ Starts(u) => Sound(u)'
                /\ Sound(u) /\ BeforeScan => Sound(u)' \/ Fails(u)' \/ Commits(u)'
         /\ \A m \in Manifests :
                Whole(m) /\ Unchosen(m) => ~IsActive(m)' \/ (Whole(m)' /\ Unchosen(m)')]_vars
  BY <1>3, SoundStep, WholeStep
<1> QED
  BY <1>2, <1>4, PTL DEF Spec, KeptBetweenSweeps

-----------------------------------------------------------------------------
(* What progress rests on *)

\* At most so many steps are left to an upload in state s.
Rest(s) == Len(Content[s.m]) + 1 - s.next
WorkOf(s) ==
    CASE s.pc = "split" -> 3 * Rest(s) + 4
      [] s.pc \in {"reuse", "persist"} -> 3 * Rest(s) + 3
      [] s.pc = "record" -> 3 * Rest(s) + 2
      [] s.pc = "commit_session" -> 3
      [] s.pc = "fail_session" -> 2
      [] s.pc \in {"unregister_ok", "unregister_failed"} -> 1
      [] OTHER -> 0

Over(u) == up[u].pc \in {"new", "done", "failed"}
WorkIsOver == \A u \in Uploads : WorkOf(up[u]) \in Nat /\ (WorkOf(up[u]) = 0 <=> Over(u))

\* A sweep has taken one of its decisions, or carried one of them out.
Nearer ==
    \/ gc.pc = "scan" /\ gc'.pc = "walk"
    \/ gc.pc = "walk" /\ gc'.pc = "sweep"
    \/ /\ gc.pc = "sweep" /\ gc'.pc = "sweep"
       /\ gc'.victims \subseteq gc.victims /\ gc'.orphans \subseteq gc.orphans
       /\ \/ gc'.victims # gc.victims
          \/ gc'.orphans # gc.orphans
          \/ gc.unlinked = {} /\ gc'.unlinked # {}

WorkShrinks ==
    [][/\ \A u \in Uploads :
              /\ UploadStep(u) \/ FailUpload(u) => WorkOf(up'[u]) < WorkOf(up[u])
              /\ ~Starts(u) => WorkOf(up'[u]) <= WorkOf(up[u])
       /\ gc.pc \in {"scan", "walk", "sweep"} => gc' = gc \/ gc' = NoSweep \/ Nearer]_vars

\* An upload is at a chunk of its content or just behind the last one.
AtChunk(s) == s.pc = "split" => s.next <= Len(Content[s.m]) + 1
AtChunks == \A u \in Uploads : AtChunk(up[u])

LEMMA WorkValue ==
    ASSUME NEW s
    PROVE  /\ s.pc = "split" => WorkOf(s) = 3 * Rest(s) + 4
           /\ s.pc \in {"reuse", "persist"} => WorkOf(s) = 3 * Rest(s) + 3
           /\ s.pc = "record" => WorkOf(s) = 3 * Rest(s) + 2
           /\ s.pc = "commit_session" => WorkOf(s) = 3
           /\ s.pc = "fail_session" => WorkOf(s) = 2
           /\ s.pc \in {"unregister_ok", "unregister_failed"} => WorkOf(s) = 1
           /\ s.pc \in {"new", "done", "failed"} => WorkOf(s) = 0
BY DEF WorkOf

LEMMA RestOfUpload ==
    ASSUME TypeInv, AtChunks, NEW u \in Uploads
    PROVE  /\ up[u] \in UploadState /\ up \in [Uploads -> UploadState]
           /\ Rest(up[u]) \in Int
           /\ up[u].pc \in {"reuse", "persist", "record"} => Rest(up[u]) >= 1
           /\ up[u].pc = "split" => Rest(up[u]) >= 0
<1>1. up[u] \in UploadState /\ up \in [Uploads -> UploadState]
  BY DEF TypeInv, TypeOK
<1>2. Len(Content[up[u].m]) \in Nat /\ up[u].next \in Nat
  BY <1>1, ContentChunks DEF UploadState
<1>3. up[u].pc \in {"reuse", "persist", "record"} => up[u].next <= Len(Content[up[u].m])
  BY <1>2 DEF TypeInv, InFile, AllTouched
<1>4. up[u].pc = "split" => up[u].next <= Len(Content[up[u].m]) + 1
  BY DEF AtChunks, AtChunk
<1> QED
  BY <1>1, <1>2, <1>3, <1>4 DEF Rest

LEMMA WorkNat ==
    ASSUME TypeInv, AtChunks, NEW u \in Uploads
    PROVE  WorkOf(up[u]) \in Nat /\ (WorkOf(up[u]) = 0 <=> Over(u))
<1>1. up[u].pc \in UploadPc
  BY RestOfUpload DEF UploadState
<1> QED
  BY <1>1, RestOfUpload, WorkValue DEF Over, UploadPc

LEMMA EndedWork ==
    /\ WorkOf(Ended("done")) = 0 /\ AtChunk(Ended("done"))
    /\ WorkOf(Ended("failed")) = 0 /\ AtChunk(Ended("failed"))
BY WorkValue DEF Ended, IdleUpload, AtChunk

LEMMA OneLess ==
    ASSUME NEW len \in Nat, NEW next \in Nat, len + 1 - next >= 1
    PROVE  len + 1 - (next + 1) = (len + 1 - next) - 1 /\ next + 1 <= len + 1
OBVIOUS

\* The upload's own steps.
LEMMA WorkMoves ==
    ASSUME TypeInv, AtChunks, NEW u \in Uploads, UploadStep(u) \/ FailUpload(u)
    PROVE  /\ WorkOf(up'[u]) < WorkOf(up[u]) /\ AtChunk(up'[u])
           /\ \A v \in Uploads \ {u} : up'[v] = up[v]
<1> DEFINE s == up[u]
           t == up'[u]
<1>0. s \in UploadState /\ up \in [Uploads -> UploadState]
  BY RestOfUpload
<1>1. Len(Content[s.m]) \in Nat /\ s.next \in Nat
  BY <1>0, ContentChunks DEF UploadState
<1>4. \A v \in Uploads \ {u} : up'[v] = up[v]
  BY <1>0 DEF UploadStep, FailUpload, TouchLookup, TouchReuse, TouchPersist, TouchRecord, EndTouch,
     Commit, MarkCommitted, MarkFailed, Unregister, Goto
<1>5. ASSUME NEW pc, Goto(u, pc) PROVE t.pc = pc /\ Rest(t) = Rest(s)
  BY <1>0, <1>5 DEF Goto, UploadState, Rest
<1>6. ASSUME EndTouch(u), Rest(s) >= 1
      PROVE  t.pc = "split" /\ Rest(t) = Rest(s) - 1 /\ AtChunk(t)
  <2>1. t.pc = "split" /\ t.m = s.m /\ t.next = s.next + 1
    BY <1>0, <1>6 DEF EndTouch, UploadState
  <2>2. t.next <= Len(Content[s.m]) + 1 /\ Rest(t) = Rest(s) - 1
    BY <1>1, <1>6, <2>1, OneLess DEF Rest
  <2> QED
    BY <2>1, <2>2 DEF AtChunk
<1>7. CASE TouchLookup(u)
  <2>1. t.pc \in {"reuse", "persist"} /\ Rest(t) = Rest(s) /\ s.pc = "split"
    BY <1>5, <1>7 DEF TouchLookup
  <2>2. WorkOf(t) = 3 * Rest(s) + 3 /\ WorkOf(s) = 3 * Rest(s) + 4 /\ AtChunk(t)
    BY <2>1, WorkValue DEF AtChunk
  <2> QED
    BY <1>4, <2>2, RestOfUpload
<1>8. CASE TouchReuse(u) \/ TouchRecord(u)
  <2>1. t.pc = "split" /\ Rest(t) = Rest(s) - 1 /\ AtChunk(t) /\ s.pc \in {"reuse", "record"}
    BY <1>6, <1>8, RestOfUpload DEF TouchReuse, TouchRecord
  <2>2. WorkOf(t) = 3 * Rest(t) + 4 /\ WorkOf(s) \in {3 * Rest(s) + 2, 3 * Rest(s) + 3}
    BY <2>1, WorkValue
  <2> QED
    BY <1>4, <2>1, <2>2, RestOfUpload
<1>9. CASE TouchPersist(u)
  <2>1. t.pc = "record" /\ Rest(t) = Rest(s) /\ s.pc = "persist"
    BY <1>5, <1>9 DEF TouchPersist
  <2>2. WorkOf(t) = 3 * Rest(s) + 2 /\ WorkOf(s) = 3 * Rest(s) + 3 /\ AtChunk(t)
    BY <2>1, WorkValue DEF AtChunk
  <2> QED
    BY <1>4, <2>2, RestOfUpload
<1>10. CASE Commit(u)
  <2>1. t.pc = "commit_session" /\ s.pc = "split"
    BY <1>5, <1>10 DEF Commit
  <2>2. WorkOf(t) = 3 /\ WorkOf(s) = 3 * Rest(s) + 4 /\ AtChunk(t) /\ Rest(s) >= 0
    BY <2>1, WorkValue, RestOfUpload DEF AtChunk
  <2> QED
    BY <1>4, <2>2, RestOfUpload
<1>11. CASE MarkCommitted(u) \/ MarkFailed(u)
  <2>1. t.pc \in {"unregister_ok", "unregister_failed"} /\ s.pc \in {"commit_session", "fail_session"}
    BY <1>5, <1>11 DEF MarkCommitted, MarkFailed
  <2>2. WorkOf(t) = 1 /\ WorkOf(s) \in {2, 3} /\ AtChunk(t)
    BY <2>1, WorkValue DEF AtChunk
  <2> QED
    BY <1>4, <2>2
<1>12. CASE Unregister(u)
  <2>1. t \in {Ended("done"), Ended("failed")} /\ s.pc \in {"unregister_ok", "unregister_failed"}
    BY <1>0, <1>12 DEF Unregister
  <2>2. WorkOf(s) = 1
    BY <2>1, WorkValue
  <2> QED
    BY <1>4, <2>1, <2>2, EndedWork
<1>13. CASE FailUpload(u)
  <2>1. /\ t.pc = "fail_session"
        /\ s.pc \in {"split", "reuse", "persist", "record", "commit_session"}
    BY <1>5, <1>13 DEF FailUpload
  <2>2. WorkOf(t) = 2 /\ AtChunk(t) /\ WorkOf(s) > 2
    BY <2>1, WorkValue, RestOfUpload DEF AtChunk
  <2> QED
    BY <1>4, <2>2
<1> QED
  BY <1>7, <1>8, <1>9, <1>10, <1>11, <1>12, <1>13 DEF UploadStep

\* Every other step.
LEMMA WorkStays ==
    ASSUME TypeInv, AtChunks, [Next]_vars, NEW u \in Uploads
    PROVE  AtChunk(up'[u]) /\ (~Starts(u) => WorkOf(up'[u]) <= WorkOf(up[u]))
<1>0. up \in [Uploads -> UploadState] /\ WorkOf(up[u]) \in Nat /\ AtChunk(up[u])
  BY WorkNat DEF TypeInv, TypeOK, AtChunks
<1>1. ASSUME up'[u] = up[u] PROVE AtChunk(up'[u]) /\ WorkOf(up'[u]) <= WorkOf(up[u])
  BY <1>0, <1>1
<1>2. ASSUME NEW v \in Uploads, UploadStep(v) \/ FailUpload(v)
      PROVE  AtChunk(up'[u]) /\ WorkOf(up'[u]) <= WorkOf(up[u])
  <2>1. CASE v = u
    <3>1. up'[u] \in UploadState /\ AtChunk(up'[u]) /\ WorkOf(up'[u]) < WorkOf(up[u])
      BY <1>2, <2>1, WorkMoves, TypeStep DEF TypeInv, TypeOK
    <3>2. WorkOf(up'[u]) \in Int
      <4>1. Rest(up'[u]) \in Int /\ up'[u].pc \in UploadPc
        BY <3>1, ContentChunks DEF UploadState, Rest
      <4> QED
        BY <4>1, WorkValue DEF UploadPc
    <3> QED
      BY <1>0, <3>1, <3>2
  <2>2. CASE v # u
    <3>1. \A w \in Uploads \ {v} : up'[w] = up[w]
      BY <1>2, WorkMoves
    <3> QED
      BY <1>1, <2>2, <3>1
  <2> QED
    BY <2>1, <2>2
<1>3. ASSUME NEW v \in Uploads, NEW m \in Manifests, BeginUpload(v, m)
      PROVE  AtChunk(up'[u]) /\ (~Starts(u) => WorkOf(up'[u]) <= WorkOf(up[u]))
  <2>1. CASE v = u
    <3>1. up'[u].pc = "split" /\ up'[u].m = m /\ up'[u].next = 1
      BY <1>0, <1>3, <2>1 DEF BeginUpload, NewUpload
    <3>2. Starts(u)
      BY <1>3, <2>1 DEF Starts
    <3> QED
      BY <3>1, <3>2, ContentChunks DEF AtChunk
  <2>2. CASE v # u
    BY <1>0, <1>1, <1>3, <2>2 DEF BeginUpload
  <2> QED
    BY <2>1, <2>2
<1>4. CASE Crash
  BY <1>0, <1>1, <1>4, EndedWork DEF Crash
<1> QED
  BY <1>1, <1>2, <1>3, <1>4 DEF Next, vars, memory, RetireManifest, RetainManifest,
     CleanupExpiredUploadSessions, GcStep, GcStart, GcLock, GcScan, GcWalk, GcEnd, GcRemoveFile,
     GcDeleteMetadata, GcSkip, GcRemoveOrphan, GcSkipOrphan, Tick

\* The file that has just gone is that of a victim whose record is still to go.
UnlinkedChosen == gc.unlinked \subseteq gc.victims /\ (gc.pc # "sweep" => gc.unlinked = {})

LEMMA UnlinkedStep ==
    ASSUME TypeInv, UnlinkedChosen, [Next]_vars
    PROVE  UnlinkedChosen'
<1>1. gc \in SweepState
  BY DEF TypeInv, TypeOK
<1>2. CASE gc' = gc
  BY <1>2 DEF UnlinkedChosen
<1>3. CASE gc' = NoSweep \/ gc' = [NoSweep EXCEPT !.pc = "lock", !.start = now]
  <2>1. gc'.unlinked = {}
    BY <1>3, NothingChosen, NoSweepType DEF SweepState
  <2> QED
    BY <2>1 DEF UnlinkedChosen
<1>4. CASE GcLock
  BY <1>1, <1>4 DEF GcLock, UnlinkedChosen, SweepState
<1>5. CASE GcScan
  BY <1>1, <1>5 DEF GcScan, UnlinkedChosen, SweepState
<1>6. CASE GcWalk
  BY <1>1, <1>6 DEF GcWalk, UnlinkedChosen, SweepState
<1>7. ASSUME NEW c \in Chunks, GcRemoveFile(c) PROVE UnlinkedChosen'
  BY <1>1, <1>7 DEF GcRemoveFile, UnlinkedChosen, SweepState
<1>8. ASSUME NEW c \in Chunks, GcDeleteMetadata(c) PROVE UnlinkedChosen'
  BY <1>1, <1>8 DEF GcDeleteMetadata, UnlinkedChosen, SweepState
<1>9. ASSUME NEW c \in Chunks, GcSkip(c) PROVE UnlinkedChosen'
  BY <1>1, <1>9 DEF GcSkip, UnlinkedChosen, SweepState
<1>10. ASSUME NEW c \in Chunks, GcRemoveOrphan(c) PROVE UnlinkedChosen'
  BY <1>1, <1>10 DEF GcRemoveOrphan, UnlinkedChosen, SweepState
<1>11. ASSUME NEW c \in Chunks, GcSkipOrphan(c) PROVE UnlinkedChosen'
  BY <1>1, <1>11 DEF GcSkipOrphan, UnlinkedChosen, SweepState
<1> QED
  BY <1>2, <1>3, <1>4, <1>5, <1>6, <1>7, <1>8, <1>9, <1>10, <1>11 DEF Next, UploadStep, GcStep,
     vars, memory, BeginUpload, TouchLookup, TouchReuse, TouchPersist, TouchRecord, EndTouch,
     Commit, MarkCommitted, MarkFailed, Unregister, FailUpload, RetireManifest, RetainManifest,
     CleanupExpiredUploadSessions, GcStart, GcEnd, Tick, Crash

LEMMA SweepNearer ==
    ASSUME TypeInv, UnlinkedChosen, [Next]_vars, gc.pc \in {"scan", "walk", "sweep"}
    PROVE  gc' = gc \/ gc' = NoSweep \/ Nearer
<1>1. gc \in SweepState
  BY DEF TypeInv, TypeOK
<1>2. CASE GcScan
  BY <1>1, <1>2 DEF GcScan, Nearer, SweepState
<1>3. CASE GcWalk
  BY <1>1, <1>3 DEF GcWalk, Nearer, SweepState
<1>4. ASSUME NEW c \in Chunks, GcRemoveFile(c) PROVE Nearer
  <2>1. /\ gc'.pc = "sweep" /\ gc'.victims = gc.victims /\ gc'.orphans = gc.orphans
        /\ gc'.unlinked = {c}
    BY <1>1, <1>4 DEF GcRemoveFile, SweepState
  <2> QED
    BY <1>4, <2>1 DEF GcRemoveFile, Nearer
<1>5. ASSUME NEW c \in Chunks, GcDeleteMetadata(c) \/ GcSkip(c) PROVE Nearer
  <2>1. /\ gc.pc = "sweep" /\ gc'.pc = "sweep"
        /\ gc'.victims = gc.victims \ {c} /\ gc'.orphans = gc.orphans /\ c \in gc.victims
    <3>1. CASE GcDeleteMetadata(c)
      BY <1>1, <3>1 DEF GcDeleteMetadata, SweepState, UnlinkedChosen
    <3>2. CASE GcSkip(c)
      BY <1>1, <3>2 DEF GcSkip, SweepState
    <3> QED
      BY <1>5, <3>1, <3>2
  <2> QED
    BY <2>1 DEF Nearer
<1>6. ASSUME NEW c \in Chunks, GcRemoveOrphan(c) \/ GcSkipOrphan(c) PROVE Nearer
  <2>1. /\ gc.pc = "sweep" /\ c \in gc.orphans /\ gc'.pc = "sweep"
        /\ gc'.victims = gc.victims /\ gc'.orphans = gc.orphans \ {c}
    <3>1. CASE GcRemoveOrphan(c)
      BY <1>1, <3>1 DEF GcRemoveOrphan, SweepState
    <3>2. CASE GcSkipOrphan(c)
      BY <1>1, <3>2 DEF GcSkipOrphan, SweepState
    <3> QED
      BY <1>6, <3>1, <3>2
  <2> QED
    BY <2>1 DEF Nearer
<1> QED
  BY <1>2, <1>3, <1>4, <1>5, <1>6 DEF Next, UploadStep, GcStep, vars, memory, BeginUpload,
     TouchLookup, TouchReuse, TouchPersist, TouchRecord, EndTouch, Commit, MarkCommitted,
     MarkFailed, Unregister, FailUpload, RetireManifest, RetainManifest,
     CleanupExpiredUploadSessions, GcStart, GcLock, GcEnd, Tick, Crash

\* ProcessUpload and CollectGarbage, whatever the wiring of the Stores: an upload has a bounded
\* number of steps left, every one of its own takes at least one off, no other step but a new
\* upload adds any, and none are left exactly when it is over; every step of a sweep under way
\* decides something, carries out or gives up part of what is decided, or ends it.
THEOREM WorkComesToEnd == Spec => []WorkIsOver /\ WorkShrinks
<1> DEFINE Inv == TypeInv /\ AtChunks /\ UnlinkedChosen
<1>1. Init => Inv
  <2> SUFFICES ASSUME Init PROVE Inv
    OBVIOUS
  <2>1. AtChunks
    BY DEF Init, AtChunks, AtChunk, IdleUpload
  <2>2. UnlinkedChosen
    BY NothingChosen DEF Init, UnlinkedChosen
  <2> QED
    BY <2>1, <2>2, TypeInit
<1>2. Inv /\ [Next]_vars => Inv'
  <2> SUFFICES ASSUME Inv, [Next]_vars PROVE Inv'
    OBVIOUS
  <2>1. AtChunks'
    BY WorkStays DEF AtChunks
  <2> QED
    BY <2>1, TypeStep, UnlinkedStep
<1>3. Inv => WorkIsOver
  BY WorkNat DEF WorkIsOver
<1>4. Inv /\ [Next]_vars =>
        [/\ \A u \in Uploads :
                /\ UploadStep(u) \/ FailUpload(u) => WorkOf(up'[u]) < WorkOf(up[u])
                /\ ~Starts(u) => WorkOf(up'[u]) <= WorkOf(up[u])
         /\ gc.pc \in {"scan", "walk", "sweep"} => gc' = gc \/ gc' = NoSweep \/ Nearer]_vars
  BY WorkMoves, WorkStays, SweepNearer
<1> QED
  BY <1>1, <1>2, <1>3, <1>4, PTL DEF Spec, WorkShrinks

-----------------------------------------------------------------------------
(* The inductive invariant of a process whose handlers and collector share one Store *)

Touching(u) == up[u].pc \in {"reuse", "persist", "record"}
Sweeping    == gc.pc \in {"scan", "walk", "sweep"}

\* The write lock is held exactly by the sweep, the read lock exactly by the uploads inside
\* touchChunk, and never both.
LockInv ==
    /\ mu[GcStore].writer <=> Sweeping
    /\ \A u \in Uploads : u \in mu[GcStore].readers <=> Touching(u)
    /\ Sweeping => mu[GcStore].readers = {}

\* The chunks an upload has passed are in the registry.
Registered ==
    \A u \in Uploads : Touching(u) \/ up[u].pc = "split" =>
        \A i \in 1..Len(Content[up[u].m]) :
            i < up[u].next => Content[up[u].m][i] \in active[GcStore][u]

\* What an upload inside touchChunk has already found or written.
Midway ==
    \A u \in Uploads : /\ up[u].pc = "reuse" => chunk[NextChunk(u)].stored
                       /\ up[u].pc = "record" => file[NextChunk(u)].stored

\* No active manifest and no registered upload needs chunk c.
Unneeded(c) == ~Referenced(c) /\ \A u \in Uploads : c \notin active[GcStore][u]

\* What the sweep has decided to delete stays unneeded for as long as it holds the lock.
SweepInv ==
    /\ gc.pc = "scan" => \A u \in Uploads : active[GcStore][u] \subseteq gc.pinned
    /\ gc.pc = "walk" => \A c \in Chunks \ gc.spared : Unneeded(c)
    /\ gc.pc \in {"walk", "sweep"} => \A c \in gc.victims : Unneeded(c)
    /\ gc.pc = "sweep" => \A c \in gc.orphans : Unneeded(c)
    /\ gc.unlinked \subseteq gc.victims /\ (gc.pc # "sweep" => gc.unlinked = {})

SafeInv ==
    /\ TypeInv /\ LockInv /\ Registered /\ Midway /\ SweepInv
    /\ TouchedChunksKept /\ ActiveManifestIntact

LEMMA LockInvStep ==
    ASSUME HandlerStore = GcStore, SafeInv, [Next]_vars
    PROVE  LockInv'
<1> USE StoreAssumption DEF SafeInv, TypeInv
<1>1. CASE UNCHANGED <<mu, gc, up>>
  BY <1>1 DEF LockInv, Touching, Sweeping, TypeOK, LifecycleMu
<1>2. ASSUME NEW u \in Uploads, NEW m \in Manifests, BeginUpload(u, m) PROVE LockInv'
  BY <1>2 DEF LockInv, Touching, Sweeping, TypeOK, LifecycleMu, BeginUpload, NewUpload
<1>3. ASSUME NEW u \in Uploads, TouchLookup(u) PROVE LockInv'
  BY <1>3 DEF LockInv, Touching, Sweeping, TypeOK, LifecycleMu, TouchLookup, Goto, RLock, CanRLock
<1>4. ASSUME NEW u \in Uploads, TouchReuse(u) PROVE LockInv'
  BY <1>4 DEF LockInv, Touching, Sweeping, TypeOK, LifecycleMu, TouchReuse, WriteIfMissing, EndTouch, RUnlock
<1>5. ASSUME NEW u \in Uploads, TouchPersist(u) PROVE LockInv'
  BY <1>5 DEF LockInv, Touching, Sweeping, TypeOK, LifecycleMu, TouchPersist, WriteIfMissing, Goto
<1>6. ASSUME NEW u \in Uploads, TouchRecord(u) PROVE LockInv'
  BY <1>6 DEF LockInv, Touching, Sweeping, TypeOK, LifecycleMu, TouchRecord, EndTouch, RUnlock
<1>7. ASSUME NEW u \in Uploads, Commit(u) PROVE LockInv'
  BY <1>7 DEF LockInv, Touching, Sweeping, TypeOK, LifecycleMu, Commit, CommitNew, CommitExisting, Goto, CanRLock, Active
<1>8. ASSUME NEW u \in Uploads, MarkCommitted(u) PROVE LockInv'
  BY <1>8 DEF LockInv, Touching, Sweeping, TypeOK, LifecycleMu, MarkCommitted, Goto
<1>9. ASSUME NEW u \in Uploads, MarkFailed(u) PROVE LockInv'
  BY <1>9 DEF LockInv, Touching, Sweeping, TypeOK, LifecycleMu, MarkFailed, Goto
<1>10. ASSUME NEW u \in Uploads, Unregister(u) PROVE LockInv'
  BY <1>10 DEF LockInv, Touching, Sweeping, TypeOK, LifecycleMu, Unregister, Ended, IdleUpload, CanRLock
<1>11. ASSUME NEW u \in Uploads, FailUpload(u) PROVE LockInv'
  BY <1>11 DEF LockInv, Touching, Sweeping, TypeOK, LifecycleMu, FailUpload, Goto, RUnlock
<1>12. ASSUME GcStart PROVE LockInv'
  BY <1>12 DEF LockInv, Touching, Sweeping, TypeOK, LifecycleMu, GcStart, NoSweep
<1>13. ASSUME GcLock PROVE LockInv'
  BY <1>13 DEF LockInv, Touching, Sweeping, TypeOK, LifecycleMu, GcLock, CanLock
<1>14. ASSUME GcScan PROVE LockInv'
  BY <1>14 DEF LockInv, Touching, Sweeping, TypeOK, LifecycleMu, GcScan
<1>15. ASSUME GcWalk PROVE LockInv'
  BY <1>15 DEF LockInv, Touching, Sweeping, TypeOK, LifecycleMu, GcWalk
<1>16. ASSUME GcEnd PROVE LockInv'
  BY <1>16 DEF LockInv, Touching, Sweeping, TypeOK, LifecycleMu, GcEnd, NoSweep
<1>17. ASSUME NEW c \in Chunks, GcRemoveFile(c) PROVE LockInv'
  BY <1>17 DEF LockInv, Touching, Sweeping, TypeOK, LifecycleMu, GcRemoveFile, Unlink, NoFile
<1>18. ASSUME NEW c \in Chunks, GcDeleteMetadata(c) PROVE LockInv'
  BY <1>18 DEF LockInv, Touching, Sweeping, TypeOK, LifecycleMu, GcDeleteMetadata, NoChunk
<1>19. ASSUME NEW c \in Chunks, GcSkip(c) PROVE LockInv'
  BY <1>19 DEF LockInv, Touching, Sweeping, TypeOK, LifecycleMu, GcSkip
<1>20. ASSUME NEW c \in Chunks, GcRemoveOrphan(c) PROVE LockInv'
  BY <1>20 DEF LockInv, Touching, Sweeping, TypeOK, LifecycleMu, GcRemoveOrphan, Unlink, NoFile
<1>21. ASSUME NEW c \in Chunks, GcSkipOrphan(c) PROVE LockInv'
  BY <1>21 DEF LockInv, Touching, Sweeping, TypeOK, LifecycleMu, GcSkipOrphan
<1>22. ASSUME Crash PROVE LockInv'
  BY <1>22 DEF LockInv, Touching, Sweeping, TypeOK, LifecycleMu, Crash, Ended, IdleUpload, NoSweep
<1>23. QED
  BY <1>1, <1>2, <1>3, <1>4, <1>5, <1>6, <1>7, <1>8, <1>9, <1>10, <1>11, <1>12, <1>13, <1>14, <1>15, <1>16, <1>17, <1>18, <1>19, <1>20, <1>21, <1>22 DEF Next, UploadStep, GcStep, vars, disk, memory, RetireManifest, RetainManifest, CleanupExpiredUploadSessions, Tick

LEMMA RegisteredStep ==
    ASSUME HandlerStore = GcStore, SafeInv, [Next]_vars
    PROVE  Registered'
<1> USE StoreAssumption DEF SafeInv, TypeInv
<1>1. CASE UNCHANGED <<up, active>>
  BY <1>1 DEF Registered, Touching, TypeOK, UploadState
<1>2. ASSUME NEW u \in Uploads, NEW m \in Manifests, BeginUpload(u, m) PROVE Registered'
  BY <1>2 DEF Registered, Touching, TypeOK, UploadState, BeginUpload, NewUpload
<1>3. ASSUME NEW u \in Uploads, TouchLookup(u) PROVE Registered'
  BY <1>3 DEF Registered, Touching, TypeOK, UploadState, TouchLookup, Goto, RLock, CanRLock
<1>4. ASSUME NEW u \in Uploads, TouchReuse(u) PROVE Registered'
  <2>1. active'[GcStore] = [active[GcStore] EXCEPT ![u] = @ \cup {NextChunk(u)}]
    BY <1>4 DEF TypeOK, TouchReuse, EndTouch
  <2>2. up'[u].m = up[u].m /\ up'[u].next = up[u].next + 1 /\ Touching(u)
    BY <1>4 DEF TypeOK, UploadState, TouchReuse, EndTouch, Touching
  <2>3. \A v \in Uploads \ {u} : up'[v] = up[v]
    BY <1>4 DEF TypeOK, TouchReuse, EndTouch
  <2>4. SUFFICES ASSUME NEW v \in Uploads, up'[v].pc \in {"split", "reuse", "persist", "record"},
                        NEW i \in 1..Len(Content[up'[v].m]), i < up'[v].next
                 PROVE  Content[up'[v].m][i] \in active'[GcStore][v]
    BY DEF Registered, Touching
  <2>5. CASE v # u
    BY <2>1, <2>3, <2>4, <2>5 DEF Registered, Touching, TypeOK
  <2>6. CASE v = u
    <3>1. up[u].next \in Nat /\ i \in Nat
      BY DEF TypeOK, UploadState
    <3>2. i < up[u].next \/ i = up[u].next
      BY <3>1, <2>2, <2>4, <2>6
    <3>3. CASE i < up[u].next
      BY <2>1, <2>2, <2>4, <2>6, <3>3 DEF Registered, TypeOK
    <3>4. CASE i = up[u].next
      BY <2>1, <2>2, <2>4, <2>6, <3>4 DEF NextChunk, TypeOK
    <3>5. QED
      BY <3>2, <3>3, <3>4
  <2>7. QED
    BY <2>5, <2>6
<1>5. ASSUME NEW u \in Uploads, TouchPersist(u) PROVE Registered'
  BY <1>5 DEF Registered, Touching, TypeOK, UploadState, TouchPersist, WriteIfMissing, Goto
<1>6. ASSUME NEW u \in Uploads, TouchRecord(u) PROVE Registered'
  <2>1. active'[GcStore] = [active[GcStore] EXCEPT ![u] = @ \cup {NextChunk(u)}]
    BY <1>6 DEF TypeOK, TouchRecord, EndTouch
  <2>2. up'[u].m = up[u].m /\ up'[u].next = up[u].next + 1 /\ Touching(u)
    BY <1>6 DEF TypeOK, UploadState, TouchRecord, EndTouch, Touching
  <2>3. \A v \in Uploads \ {u} : up'[v] = up[v]
    BY <1>6 DEF TypeOK, TouchRecord, EndTouch
  <2>4. SUFFICES ASSUME NEW v \in Uploads, up'[v].pc \in {"split", "reuse", "persist", "record"},
                        NEW i \in 1..Len(Content[up'[v].m]), i < up'[v].next
                 PROVE  Content[up'[v].m][i] \in active'[GcStore][v]
    BY DEF Registered, Touching
  <2>5. CASE v # u
    BY <2>1, <2>3, <2>4, <2>5 DEF Registered, Touching, TypeOK
  <2>6. CASE v = u
    <3>1. up[u].next \in Nat /\ i \in Nat
      BY DEF TypeOK, UploadState
    <3>2. i < up[u].next \/ i = up[u].next
      BY <3>1, <2>2, <2>4, <2>6
    <3>3. CASE i < up[u].next
      BY <2>1, <2>2, <2>4, <2>6, <3>3 DEF Registered, TypeOK
    <3>4. CASE i = up[u].next
      BY <2>1, <2>2, <2>4, <2>6, <3>4 DEF NextChunk, TypeOK
    <3>5. QED
      BY <3>2, <3>3, <3>4
  <2>7. QED
    BY <2>5, <2>6
<1>7. ASSUME NEW u \in Uploads, Commit(u) PROVE Registered'
  BY <1>7 DEF Registered, Touching, TypeOK, UploadState, Commit, CommitNew, CommitExisting, Goto, CanRLock, Active
<1>8. ASSUME NEW u \in Uploads, MarkCommitted(u) PROVE Registered'
  BY <1>8 DEF Registered, Touching, TypeOK, UploadState, MarkCommitted, Goto
<1>9. ASSUME NEW u \in Uploads, MarkFailed(u) PROVE Registered'
  BY <1>9 DEF Registered, Touching, TypeOK, UploadState, MarkFailed, Goto
<1>10. ASSUME NEW u \in Uploads, Unregister(u) PROVE Registered'
  BY <1>10 DEF Registered, Touching, TypeOK, UploadState, Unregister, Ended, IdleUpload, CanRLock
<1>11. ASSUME NEW u \in Uploads, FailUpload(u) PROVE Registered'
  BY <1>11 DEF Registered, Touching, TypeOK, UploadState, FailUpload, Goto, RUnlock
<1>12. ASSUME Crash PROVE Registered'
  BY <1>12 DEF Registered, Touching, TypeOK, UploadState, Crash, Ended, IdleUpload, NoSweep
<1>13. QED
  BY <1>1, <1>2, <1>3, <1>4, <1>5, <1>6, <1>7, <1>8, <1>9, <1>10, <1>11, <1>12 DEF Next, UploadStep, GcStep, vars, disk, memory, RetireManifest, RetainManifest, CleanupExpiredUploadSessions, GcStart, GcLock, GcScan, GcWalk, GcEnd, GcRemoveFile, GcDeleteMetadata, GcSkip, GcRemoveOrphan, GcSkipOrphan, Tick

\* Midway survives a step that moves one upload, removes no record and no file, and leaves
\* that upload with the chunk it is at.
LEMMA MidwayKept ==
    ASSUME TypeInv, Midway, NEW u \in Uploads,
           \A v \in Uploads \ {u} : up'[v] = up[v],
           \A c \in Chunks : /\ chunk[c].stored => chunk'[c].stored
                             /\ file[c].stored => file'[c].stored,
           up'[u].pc = "reuse" => chunk'[Content[up'[u].m][up'[u].next]].stored,
           up'[u].pc = "record" => file'[Content[up'[u].m][up'[u].next]].stored
    PROVE  Midway'
<1>1. SUFFICES ASSUME NEW v \in Uploads
               PROVE  /\ up'[v].pc = "reuse" => chunk'[Content[up'[v].m][up'[v].next]].stored
                      /\ up'[v].pc = "record" => file'[Content[up'[v].m][up'[v].next]].stored
  BY DEF Midway, NextChunk
<1>2. CASE v = u
  BY <1>2
<1>3. CASE v # u
  <2>1. up'[v] = up[v]
    BY <1>3
  <2>2. up[v].pc \in {"reuse", "record"} => NextChunk(v) \in Chunks
    BY NextChunkType DEF TypeInv, InFile
  <2>3. QED
    BY <2>1, <2>2 DEF Midway, NextChunk
<1>4. QED
  BY <1>2, <1>3

LEMMA MidwayStep ==
    ASSUME HandlerStore = GcStore, SafeInv, [Next]_vars
    PROVE  Midway'
<1> USE StoreAssumption DEF SafeInv, TypeInv
<1>1. CASE UNCHANGED <<up, chunk, file>>
  BY <1>1 DEF Midway, NextChunk
<1>2. ASSUME NEW u \in Uploads, NEW m \in Manifests, BeginUpload(u, m) PROVE Midway'
  <2>1. \A v \in Uploads \ {u} : up'[v] = up[v]
    BY <1>2 DEF TypeOK, BeginUpload
  <2>2. \A c \in Chunks : /\ chunk[c].stored => chunk'[c].stored
                          /\ file[c].stored => file'[c].stored
    BY <1>2 DEF TypeOK, ChunkRecord, FileRecord, BeginUpload
  <2>3. up'[u].pc \notin {"reuse", "record"}
    BY <1>2 DEF TypeOK, UploadState, BeginUpload, NewUpload
  <2>4. QED
    BY <2>1, <2>2, <2>3, MidwayKept
<1>3. ASSUME NEW u \in Uploads, TouchLookup(u) PROVE Midway'
  <2>1. \A v \in Uploads \ {u} : up'[v] = up[v]
    BY <1>3 DEF TypeOK, TouchLookup, Goto
  <2>2. \A c \in Chunks : /\ chunk[c].stored => chunk'[c].stored
                          /\ file[c].stored => file'[c].stored
    BY <1>3 DEF TypeOK, ChunkRecord, FileRecord, TouchLookup, disk
  <2>3. /\ up'[u].pc = "reuse" => chunk'[Content[up'[u].m][up'[u].next]].stored
        /\ up'[u].pc # "record"
    BY <1>3 DEF TypeOK, UploadState, TouchLookup, Goto, NextChunk, disk
  <2>4. QED
    BY <2>1, <2>2, <2>3, MidwayKept
<1>4. ASSUME NEW u \in Uploads, TouchReuse(u) PROVE Midway'
  <2>1. \A v \in Uploads \ {u} : up'[v] = up[v]
    BY <1>4 DEF TypeOK, TouchReuse, EndTouch
  <2>2. \A c \in Chunks : /\ chunk[c].stored => chunk'[c].stored
                          /\ file[c].stored => file'[c].stored
    BY <1>4 DEF TypeOK, ChunkRecord, FileRecord, TouchReuse, WriteIfMissing
  <2>3. up'[u].pc \notin {"reuse", "record"}
    BY <1>4 DEF TypeOK, UploadState, TouchReuse, EndTouch
  <2>4. QED
    BY <2>1, <2>2, <2>3, MidwayKept
<1>5. ASSUME NEW u \in Uploads, TouchPersist(u) PROVE Midway'
  <2>1. \A v \in Uploads \ {u} : up'[v] = up[v]
    BY <1>5 DEF TypeOK, TouchPersist, Goto
  <2>2. \A c \in Chunks : /\ chunk[c].stored => chunk'[c].stored
                          /\ file[c].stored => file'[c].stored
    BY <1>5 DEF TypeOK, ChunkRecord, FileRecord, TouchPersist, WriteIfMissing
  <2>3. /\ up'[u].pc = "record" => file'[Content[up'[u].m][up'[u].next]].stored
        /\ up'[u].pc # "reuse"
    <3>1. NextChunk(u) \in Chunks
      BY <1>5, NextChunkType DEF InFile, TouchPersist
    <3>2. up'[u].pc = "record" /\ up'[u].m = up[u].m /\ up'[u].next = up[u].next
      BY <1>5 DEF TypeOK, UploadState, TouchPersist, Goto
    <3>3. file'[NextChunk(u)].stored
      BY <1>5, <3>1 DEF TypeOK, FileRecord, TouchPersist, WriteIfMissing
    <3>4. QED
      BY <3>2, <3>3 DEF NextChunk
  <2>4. QED
    BY <2>1, <2>2, <2>3, MidwayKept
<1>6. ASSUME NEW u \in Uploads, TouchRecord(u) PROVE Midway'
  <2>1. \A v \in Uploads \ {u} : up'[v] = up[v]
    BY <1>6 DEF TypeOK, TouchRecord, EndTouch
  <2>2. \A c \in Chunks : /\ chunk[c].stored => chunk'[c].stored
                          /\ file[c].stored => file'[c].stored
    BY <1>6 DEF TypeOK, ChunkRecord, FileRecord, TouchRecord
  <2>3. up'[u].pc \notin {"reuse", "record"}
    BY <1>6 DEF TypeOK, UploadState, TouchRecord, EndTouch
  <2>4. QED
    BY <2>1, <2>2, <2>3, MidwayKept
<1>7. ASSUME NEW u \in Uploads, Commit(u) PROVE Midway'
  <2>1. \A v \in Uploads \ {u} : up'[v] = up[v]
    BY <1>7 DEF TypeOK, Commit, Goto
  <2>2. \A c \in Chunks : /\ chunk[c].stored => chunk'[c].stored
                          /\ file[c].stored => file'[c].stored
    BY <1>7, CommitKeepsRecords DEF Commit
  <2>3. up'[u].pc \notin {"reuse", "record"}
    BY <1>7 DEF TypeOK, UploadState, Commit, Goto
  <2>4. QED
    BY <2>1, <2>2, <2>3, MidwayKept
<1>8. ASSUME NEW u \in Uploads, MarkCommitted(u) PROVE Midway'
  <2>1. \A v \in Uploads \ {u} : up'[v] = up[v]
    BY <1>8 DEF TypeOK, MarkCommitted, Goto
  <2>2. \A c \in Chunks : /\ chunk[c].stored => chunk'[c].stored
                          /\ file[c].stored => file'[c].stored
    BY <1>8 DEF TypeOK, ChunkRecord, FileRecord, MarkCommitted
  <2>3. up'[u].pc \notin {"reuse", "record"}
    BY <1>8 DEF TypeOK, UploadState, MarkCommitted, Goto
  <2>4. QED
    BY <2>1, <2>2, <2>3, MidwayKept
<1>9. ASSUME NEW u \in Uploads, MarkFailed(u) PROVE Midway'
  <2>1. \A v \in Uploads \ {u} : up'[v] = up[v]
    BY <1>9 DEF TypeOK, MarkFailed, Goto
  <2>2. \A c \in Chunks : /\ chunk[c].stored => chunk'[c].stored
                          /\ file[c].stored => file'[c].stored
    BY <1>9 DEF TypeOK, ChunkRecord, FileRecord, MarkFailed
  <2>3. up'[u].pc \notin {"reuse", "record"}
    BY <1>9 DEF TypeOK, UploadState, MarkFailed, Goto
  <2>4. QED
    BY <2>1, <2>2, <2>3, MidwayKept
<1>10. ASSUME NEW u \in Uploads, Unregister(u) PROVE Midway'
  <2>1. \A v \in Uploads \ {u} : up'[v] = up[v]
    BY <1>10 DEF TypeOK, Unregister
  <2>2. \A c \in Chunks : /\ chunk[c].stored => chunk'[c].stored
                          /\ file[c].stored => file'[c].stored
    BY <1>10 DEF TypeOK, ChunkRecord, FileRecord, Unregister, disk
  <2>3. up'[u].pc \notin {"reuse", "record"}
    BY <1>10 DEF TypeOK, UploadState, Unregister, Ended, IdleUpload
  <2>4. QED
    BY <2>1, <2>2, <2>3, MidwayKept
<1>11. ASSUME NEW u \in Uploads, FailUpload(u) PROVE Midway'
  <2>1. \A v \in Uploads \ {u} : up'[v] = up[v]
    BY <1>11 DEF TypeOK, FailUpload, Goto
  <2>2. \A c \in Chunks : /\ chunk[c].stored => chunk'[c].stored
                          /\ file[c].stored => file'[c].stored
    BY <1>11 DEF TypeOK, ChunkRecord, FileRecord, FailUpload, disk
  <2>3. up'[u].pc \notin {"reuse", "record"}
    BY <1>11 DEF TypeOK, UploadState, FailUpload, Goto
  <2>4. QED
    BY <2>1, <2>2, <2>3, MidwayKept
<1>12. CASE Sweeping /\ UNCHANGED up
  <2>1. \A u \in Uploads : ~Touching(u)
    BY <1>12 DEF LockInv
  <2>2. QED
    BY <1>12, <2>1 DEF Midway, Touching
<1>13. ASSUME Crash PROVE Midway'
  BY <1>13 DEF Midway, Crash, Ended, IdleUpload
<1>14. ASSUME NEW c \in Chunks, GcRemoveFile(c) \/ GcDeleteMetadata(c) \/ GcRemoveOrphan(c) PROVE Midway'
  BY <1>14, <1>12 DEF Sweeping, GcRemoveFile, GcDeleteMetadata, GcRemoveOrphan
<1>15. QED
  BY <1>1, <1>2, <1>3, <1>4, <1>5, <1>6, <1>7, <1>8, <1>9, <1>10, <1>11, <1>13, <1>14 DEF Next, UploadStep, GcStep, vars, disk, memory, RetireManifest, RetainManifest, CleanupExpiredUploadSessions, GcStart, GcLock, GcScan, GcWalk, GcEnd, GcSkip, GcSkipOrphan, Tick

LEMMA SweepInvStep ==
    ASSUME HandlerStore = GcStore, SafeInv, [Next]_vars
    PROVE  SweepInv'
<1> USE StoreAssumption DEF SafeInv, TypeInv
<1>1. CASE UNCHANGED <<gc, active, manifest>>
  BY <1>1 DEF SweepInv, Unneeded, Referenced, IsActive, LockInv, Touching, Sweeping, TypeOK, SweepState
<1>2. ASSUME NEW u \in Uploads, TouchReuse(u) PROVE SweepInv'
  BY <1>2 DEF SweepInv, Unneeded, Referenced, IsActive, LockInv, Touching, Sweeping, TypeOK, SweepState, TouchReuse, WriteIfMissing, EndTouch, RUnlock
<1>3. ASSUME NEW u \in Uploads, TouchRecord(u) PROVE SweepInv'
  BY <1>3 DEF SweepInv, Unneeded, Referenced, IsActive, LockInv, Touching, Sweeping, TypeOK, SweepState, TouchRecord, EndTouch, RUnlock
<1>4. ASSUME NEW u \in Uploads, Commit(u) PROVE SweepInv'
  BY <1>4 DEF SweepInv, Unneeded, Referenced, IsActive, LockInv, Touching, Sweeping, TypeOK, SweepState, Commit, CommitNew, CommitExisting, Goto, CanRLock, Active
<1>5. ASSUME NEW u \in Uploads, Unregister(u) PROVE SweepInv'
  BY <1>5 DEF SweepInv, Unneeded, Referenced, IsActive, LockInv, Touching, Sweeping, TypeOK, SweepState, Unregister, Ended, IdleUpload, CanRLock
<1>6. ASSUME NEW m \in Manifests, RetireManifest(m) PROVE SweepInv'
  BY <1>6 DEF SweepInv, Unneeded, Referenced, IsActive, LockInv, Touching, Sweeping, TypeOK, SweepState, RetireManifest, CanRLock, disk, memory
<1>7. ASSUME NEW m \in Manifests, RetainManifest(m) PROVE SweepInv'
  BY <1>7 DEF SweepInv, Unneeded, Referenced, IsActive, LockInv, Touching, Sweeping, TypeOK, SweepState, RetainManifest, CanRLock, Active, disk, memory
<1>8. ASSUME GcStart PROVE SweepInv'
  BY <1>8 DEF SweepInv, Unneeded, Referenced, IsActive, LockInv, Touching, Sweeping, TypeOK, SweepState, GcStart, NoSweep
<1>9. ASSUME GcLock PROVE SweepInv'
  BY <1>9 DEF SweepInv, Unneeded, Referenced, IsActive, LockInv, Touching, Sweeping, TypeOK, SweepState, GcLock, CanLock
<1>10. ASSUME GcScan PROVE SweepInv'
  <2>1. \A d \in Chunks : Unneeded(d)' <=> Unneeded(d)
    BY <1>10 DEF Unneeded, Referenced, IsActive, GcScan, disk
  <2>2. \A d \in Chunks : d \notin gc.pinned /\ ~Referenced(d) => Unneeded(d)
    BY <1>10 DEF SweepInv, Unneeded, GcScan
  <2>3. gc'.pc = "walk" /\ gc'.unlinked = {}
    BY <1>10 DEF GcScan, SweepInv, TypeOK, SweepState
  <2>4. \A d \in gc'.victims : Unneeded(d)'
    <3>1. gc'.victims = {d \in Chunks : Victim(d)}
      BY <1>10 DEF GcScan, TypeOK, SweepState
    <3>2. QED
      BY <2>1, <2>2, <3>1 DEF Victim
  <2>5. \A d \in Chunks \ gc'.spared : Unneeded(d)'
    <3>1. gc'.spared = {d \in Chunks : \/ Referenced(d)
                                       \/ chunk[d].stored
                                       \/ d \in gc.pinned
                                       \/ ~RetiredBefore(d, gc.start)}
      BY <1>10 DEF GcScan, TypeOK, SweepState
    <3>2. QED
      BY <2>1, <2>2, <3>1
  <2>6. QED
    BY <2>3, <2>4, <2>5 DEF SweepInv
<1>11. ASSUME GcWalk PROVE SweepInv'
  <2>1. \A d \in Chunks : Unneeded(d)' <=> Unneeded(d)
    BY <1>11 DEF Unneeded, Referenced, IsActive, GcWalk, disk
  <2>2. /\ gc'.pc = "sweep" /\ gc'.unlinked = {} /\ gc'.victims = gc.victims
        /\ gc'.orphans \subseteq Chunks \ gc.spared
    BY <1>11 DEF GcWalk, SweepInv, TypeOK, SweepState
  <2>3. gc.victims \subseteq Chunks
    BY DEF TypeOK, SweepState
  <2>4. QED
    BY <1>11, <2>1, <2>2, <2>3 DEF SweepInv, GcWalk
<1>12. ASSUME GcEnd PROVE SweepInv'
  BY <1>12 DEF SweepInv, Unneeded, Referenced, IsActive, LockInv, Touching, Sweeping, TypeOK, SweepState, GcEnd, NoSweep
<1>13. ASSUME NEW c \in Chunks, GcRemoveFile(c) PROVE SweepInv'
  BY <1>13 DEF SweepInv, Unneeded, Referenced, IsActive, LockInv, Touching, Sweeping, TypeOK, SweepState, GcRemoveFile, Unlink, NoFile
<1>14. ASSUME NEW c \in Chunks, GcDeleteMetadata(c) PROVE SweepInv'
  BY <1>14 DEF SweepInv, Unneeded, Referenced, IsActive, LockInv, Touching, Sweeping, TypeOK, SweepState, GcDeleteMetadata, NoChunk
<1>15. ASSUME NEW c \in Chunks, GcSkip(c) PROVE SweepInv'
  <2>1. \A d \in Chunks : Unneeded(d)' <=> Unneeded(d)
    BY <1>15 DEF Unneeded, Referenced, IsActive, GcSkip, disk
  <2>2. /\ gc'.pc = "sweep" /\ gc'.unlinked = {}
        /\ gc'.victims = gc.victims \ {c} /\ gc'.orphans = gc.orphans
    BY <1>15 DEF GcSkip, TypeOK, SweepState
  <2>3. gc.victims \subseteq Chunks /\ gc.orphans \subseteq Chunks
    BY DEF TypeOK, SweepState
  <2>4. QED
    BY <1>15, <2>1, <2>2, <2>3 DEF SweepInv, GcSkip
<1>16. ASSUME NEW c \in Chunks, GcRemoveOrphan(c) PROVE SweepInv'
  BY <1>16 DEF SweepInv, Unneeded, Referenced, IsActive, LockInv, Touching, Sweeping, TypeOK, SweepState, GcRemoveOrphan, Unlink, NoFile
<1>17. ASSUME NEW c \in Chunks, GcSkipOrphan(c) PROVE SweepInv'
  <2>1. \A d \in Chunks : Unneeded(d)' <=> Unneeded(d)
    BY <1>17 DEF Unneeded, Referenced, IsActive, GcSkipOrphan, disk
  <2>2. /\ gc'.pc = "sweep" /\ gc'.unlinked = gc.unlinked
        /\ gc'.victims = gc.victims /\ gc'.orphans = gc.orphans \ {c}
    BY <1>17 DEF GcSkipOrphan, TypeOK, SweepState
  <2>3. gc.victims \subseteq Chunks /\ gc.orphans \subseteq Chunks
    BY DEF TypeOK, SweepState
  <2>4. QED
    BY <1>17, <2>1, <2>2, <2>3 DEF SweepInv, GcSkipOrphan
<1>18. ASSUME Crash PROVE SweepInv'
  BY <1>18 DEF SweepInv, Unneeded, Referenced, IsActive, LockInv, Touching, Sweeping, TypeOK, SweepState, Crash, Ended, IdleUpload, NoSweep
<1>19. QED
  BY <1>1, <1>2, <1>3, <1>4, <1>5, <1>6, <1>7, <1>8, <1>9, <1>10, <1>11, <1>12, <1>13, <1>14, <1>15, <1>16, <1>17, <1>18 DEF Next, UploadStep, GcStep, vars, disk, memory, BeginUpload, TouchLookup, TouchPersist, MarkCommitted, MarkFailed, FailUpload, CleanupExpiredUploadSessions, Tick

LEMMA TouchedChunksKeptStep ==
    ASSUME HandlerStore = GcStore, SafeInv, [Next]_vars
    PROVE  TouchedChunksKept'
<1> USE StoreAssumption DEF SafeInv, TypeInv
<1>1. CASE UNCHANGED <<active, chunk, file>>
  BY <1>1 DEF TouchedChunksKept, SweepInv, Unneeded, LockInv, Sweeping, Touching, Midway, TypeOK
<1>2. ASSUME NEW u \in Uploads, TouchReuse(u) PROVE TouchedChunksKept'
  <2>1. NextChunk(u) \in Chunks
    BY <1>2, NextChunkType DEF InFile, TouchReuse
  <2>2. chunk'[NextChunk(u)].stored /\ file'[NextChunk(u)].stored
    BY <1>2, <2>1 DEF TouchReuse, Midway, WriteIfMissing, TypeOK, ChunkRecord, FileRecord
  <2>3. \A d \in Chunks : /\ chunk[d].stored => chunk'[d].stored
                          /\ file[d].stored => file'[d].stored
    BY <1>2 DEF TouchReuse, WriteIfMissing, TypeOK, ChunkRecord, FileRecord
  <2>4. \A v \in Uploads : active'[GcStore][v] \subseteq active[GcStore][v] \cup {NextChunk(u)}
    BY <1>2 DEF TouchReuse, EndTouch, TypeOK
  <2>5. \A v \in Uploads : active[GcStore][v] \subseteq Chunks
    BY DEF TypeOK
  <2>6. QED
    BY <2>2, <2>3, <2>4, <2>5 DEF TouchedChunksKept
<1>3. ASSUME NEW u \in Uploads, TouchPersist(u) PROVE TouchedChunksKept'
  BY <1>3 DEF TouchedChunksKept, SweepInv, Unneeded, LockInv, Sweeping, Touching, Midway, TypeOK, TouchPersist, WriteIfMissing, Goto
<1>4. ASSUME NEW u \in Uploads, TouchRecord(u) PROVE TouchedChunksKept'
  <2>1. NextChunk(u) \in Chunks
    BY <1>4, NextChunkType DEF InFile, TouchRecord
  <2>2. chunk'[NextChunk(u)].stored /\ file'[NextChunk(u)].stored
    BY <1>4, <2>1 DEF TouchRecord, Midway, WriteIfMissing, TypeOK, ChunkRecord, FileRecord
  <2>3. \A d \in Chunks : /\ chunk[d].stored => chunk'[d].stored
                          /\ file[d].stored => file'[d].stored
    BY <1>4 DEF TouchRecord, WriteIfMissing, TypeOK, ChunkRecord, FileRecord
  <2>4. \A v \in Uploads : active'[GcStore][v] \subseteq active[GcStore][v] \cup {NextChunk(u)}
    BY <1>4 DEF TouchRecord, EndTouch, TypeOK
  <2>5. \A v \in Uploads : active[GcStore][v] \subseteq Chunks
    BY DEF TypeOK
  <2>6. QED
    BY <2>2, <2>3, <2>4, <2>5 DEF TouchedChunksKept
<1>5. ASSUME NEW u \in Uploads, Commit(u) PROVE TouchedChunksKept'
  <2>1. \A d \in Chunks : chunk[d].stored => chunk'[d].stored
    BY <1>5, CommitKeepsRecords
  <2>2. \A v \in Uploads : active[GcStore][v] \subseteq Chunks
    BY DEF TypeOK
  <2>3. QED
    BY <1>5, <2>1, <2>2 DEF Commit, TouchedChunksKept
<1>6. ASSUME NEW u \in Uploads, Unregister(u) PROVE TouchedChunksKept'
  <2>1. \A v \in Uploads : active'[GcStore][v] \subseteq active[GcStore][v]
    BY <1>6 DEF Unregister, TypeOK
  <2>2. QED
    BY <1>6, <2>1 DEF Unregister, TouchedChunksKept, disk
<1>7. ASSUME NEW c \in Chunks, GcRemoveFile(c) PROVE TouchedChunksKept'
  BY <1>7 DEF TouchedChunksKept, SweepInv, Unneeded, LockInv, Sweeping, Touching, Midway, TypeOK, GcRemoveFile, Unlink, NoFile
<1>8. ASSUME NEW c \in Chunks, GcDeleteMetadata(c) PROVE TouchedChunksKept'
  <2>1. Unneeded(c)
    BY <1>8 DEF GcDeleteMetadata, SweepInv
  <2>2. \A d \in Chunks \ {c} : chunk'[d] = chunk[d]
    BY <1>8 DEF GcDeleteMetadata, TypeOK
  <2>3. \A v \in Uploads : active[GcStore][v] \subseteq Chunks
    BY DEF TypeOK
  <2>4. QED
    BY <1>8, <2>1, <2>2, <2>3 DEF GcDeleteMetadata, TouchedChunksKept, Unneeded
<1>9. ASSUME NEW c \in Chunks, GcRemoveOrphan(c) PROVE TouchedChunksKept'
  BY <1>9 DEF TouchedChunksKept, SweepInv, Unneeded, LockInv, Sweeping, Touching, Midway, TypeOK, GcRemoveOrphan, Unlink, NoFile
<1>10. ASSUME Crash PROVE TouchedChunksKept'
  BY <1>10 DEF TouchedChunksKept, SweepInv, Unneeded, LockInv, Sweeping, Touching, Midway, TypeOK, Crash, Ended, IdleUpload, NoSweep
<1>11. QED
  BY <1>1, <1>2, <1>3, <1>4, <1>5, <1>6, <1>7, <1>8, <1>9, <1>10 DEF Next, UploadStep, GcStep, vars, disk, memory, BeginUpload, TouchLookup, MarkCommitted, MarkFailed, FailUpload, RetireManifest, RetainManifest, CleanupExpiredUploadSessions, GcStart, GcLock, GcScan, GcWalk, GcEnd, GcSkip, GcSkipOrphan, Tick

LEMMA ActiveManifestIntactStep ==
    ASSUME HandlerStore = GcStore, SafeInv, [Next]_vars
    PROVE  ActiveManifestIntact'
<1> USE StoreAssumption DEF SafeInv, TypeInv
<1>1. CASE UNCHANGED <<manifest, hollow, chunk, file>>
  BY <1>1 DEF ActiveManifestIntact, HasBytes, IsActive, SweepInv, Unneeded, Referenced, TypeOK
<1>2. ASSUME NEW u \in Uploads, TouchReuse(u) PROVE ActiveManifestIntact'
  BY <1>2 DEF ActiveManifestIntact, HasBytes, IsActive, SweepInv, Unneeded, Referenced, TypeOK, TouchReuse, WriteIfMissing, EndTouch, RUnlock
<1>3. ASSUME NEW u \in Uploads, TouchPersist(u) PROVE ActiveManifestIntact'
  BY <1>3 DEF ActiveManifestIntact, HasBytes, IsActive, SweepInv, Unneeded, Referenced, TypeOK, TouchPersist, WriteIfMissing, Goto
<1>4. ASSUME NEW u \in Uploads, TouchRecord(u) PROVE ActiveManifestIntact'
  BY <1>4 DEF ActiveManifestIntact, HasBytes, IsActive, SweepInv, Unneeded, Referenced, TypeOK, TouchRecord, EndTouch, RUnlock
<1>5. ASSUME NEW u \in Uploads, Commit(u) PROVE ActiveManifestIntact'
  <2>1. \A d \in Chunks : chunk[d].stored => chunk'[d].stored
    BY <1>5, CommitKeepsRecords
  <2>2. up[u].m \in Manifests /\ up[u].next \in Nat
    BY DEF TypeOK, UploadState
  <2>3. \A i \in 1..Len(Content[up[u].m]) : i < up[u].next
    BY <1>5, <2>2, ContentChunks DEF Commit, AllTouched
  <2>4. ChunksOf(up[u].m) \subseteq active[GcStore][u]
    BY <1>5, <2>2, <2>3, ContentChunks DEF Commit, Registered, ChunksOf
  <2>5. \A c \in ChunksOf(up[u].m) : chunk[c].stored /\ file[c].stored
    BY <2>4 DEF TouchedChunksKept
  <2>6. \A c \in ChunksOf(up[u].m) : chunk'[c].stored /\ file'[c].stored
    BY <1>5, <2>1, <2>2, <2>5, ContentChunks DEF Commit
  <2>7. \A m \in Manifests \ {up[u].m} : manifest'[m] = manifest[m]
    BY <1>5 DEF Commit, CommitNew, CommitExisting, TypeOK
  <2>8. SUFFICES ASSUME NEW m \in Manifests, manifest'[m].state = "active", m \notin hollow',
                        NEW c \in ChunksOf(m)
                 PROVE  chunk'[c].stored /\ file'[c].stored
    BY DEF ActiveManifestIntact, IsActive, HasBytes, ChunksOf
  <2>9. CASE m = up[u].m
    BY <2>6, <2>9
  <2>10. CASE m # up[u].m
    <3>1. chunk[c].stored /\ file[c].stored
      BY <1>5, <2>7, <2>8, <2>10 DEF Commit, ActiveManifestIntact, IsActive, HasBytes
    <3>2. QED
      BY <1>5, <2>1, <3>1, ContentChunks DEF Commit
  <2>11. QED
    BY <2>9, <2>10
<1>6. ASSUME NEW m \in Manifests, RetireManifest(m) PROVE ActiveManifestIntact'
  BY <1>6 DEF ActiveManifestIntact, HasBytes, IsActive, SweepInv, Unneeded, Referenced, TypeOK, RetireManifest, CanRLock, disk, memory
<1>7. ASSUME NEW m \in Manifests, RetainManifest(m) PROVE ActiveManifestIntact'
  BY <1>7 DEF ActiveManifestIntact, HasBytes, IsActive, SweepInv, Unneeded, Referenced, TypeOK, RetainManifest, CanRLock, Active, disk, memory
<1>8. ASSUME NEW c \in Chunks, GcRemoveFile(c) PROVE ActiveManifestIntact'
  BY <1>8 DEF ActiveManifestIntact, HasBytes, IsActive, SweepInv, Unneeded, Referenced, TypeOK, GcRemoveFile, Unlink, NoFile
<1>9. ASSUME NEW c \in Chunks, GcDeleteMetadata(c) PROVE ActiveManifestIntact'
  <2>1. ~Referenced(c)
    BY <1>9 DEF GcDeleteMetadata, SweepInv, Unneeded
  <2>2. \A d \in Chunks \ {c} : chunk'[d] = chunk[d]
    BY <1>9 DEF GcDeleteMetadata, TypeOK
  <2>3. \A m \in Manifests : IsActive(m) => c \notin ChunksOf(m)
    BY <2>1 DEF Referenced
  <2>4. QED
    BY <1>9, <2>2, <2>3, ContentChunks DEF GcDeleteMetadata, ActiveManifestIntact, HasBytes, IsActive
<1>10. ASSUME NEW c \in Chunks, GcRemoveOrphan(c) PROVE ActiveManifestIntact'
  BY <1>10 DEF ActiveManifestIntact, HasBytes, IsActive, SweepInv, Unneeded, Referenced, TypeOK, GcRemoveOrphan, Unlink, NoFile
<1>11. QED
  BY <1>1, <1>2, <1>3, <1>4, <1>5, <1>6, <1>7, <1>8, <1>9, <1>10 DEF Next, UploadStep, GcStep, vars, disk, memory, BeginUpload, TouchLookup, MarkCommitted, MarkFailed, Unregister, FailUpload, CleanupExpiredUploadSessions, GcStart, GcLock, GcScan, GcWalk, GcEnd, GcSkip, GcSkipOrphan, Tick, Crash

LEMMA SafeInit == Init /\ HandlerStore = GcStore => SafeInv
<1> SUFFICES ASSUME Init, HandlerStore = GcStore PROVE SafeInv
  OBVIOUS
<1> USE StoreAssumption
<1>1. TypeInv
  BY TypeInit
<1>2. LockInv
  BY DEF Init, LockInv, Touching, Sweeping, IdleUpload, NoSweep
<1>3. Registered /\ Midway
  BY DEF Init, Registered, Midway, Touching, IdleUpload
<1>4. SweepInv
  BY DEF Init, SweepInv, NoSweep
<1>5. TouchedChunksKept
  BY DEF Init, TouchedChunksKept
<1>6. ActiveManifestIntact
  BY DEF Init, ActiveManifestIntact, IsActive, NoManifest
<1>7. QED
  BY <1>1, <1>2, <1>3, <1>4, <1>5, <1>6 DEF SafeInv

LEMMA SafeStep ==
    ASSUME HandlerStore = GcStore
    PROVE  SafeInv /\ [Next]_vars => SafeInv'
<1> SUFFICES ASSUME SafeInv, [Next]_vars PROVE SafeInv'
  OBVIOUS
<1>1. TypeInv'
  BY TypeStep DEF SafeInv
<1>2. QED
  BY <1>1, LockInvStep, RegisteredStep, MidwayStep, SweepInvStep, TouchedChunksKeptStep,
     ActiveManifestIntactStep DEF SafeInv

\* With one Store for the handlers and the collector, no sweep, crash or failed removal takes
\* a chunk of an active manifest (CollectGarbage, scanGarbageCollection, deleteChunkMetadata
\* against ProcessUpload and updateManifestLifecycle).
THEOREM CommittedContentKept ==
    ASSUME HandlerStore = GcStore
    PROVE  Spec => []ActiveManifestIntact
<1>1. Init => SafeInv
  BY SafeInit
<1>2. SafeInv /\ [Next]_vars => SafeInv'
  BY SafeStep
<1>3. SafeInv => ActiveManifestIntact
  BY DEF SafeInv
<1>4. QED
  BY <1>1, <1>2, <1>3, PTL DEF Spec

\* With one Store, the collector never takes a chunk that a running upload has touched, whose
\* record and file the commit will rely on (touchChunk, snapshotActiveChunkHashes).
THEOREM UploadContentKept ==
    ASSUME HandlerStore = GcStore
    PROVE  Spec => []TouchedChunksKept
<1>1. Init => SafeInv
  BY SafeInit
<1>2. SafeInv /\ [Next]_vars => SafeInv'
  BY SafeStep
<1>3. SafeInv => TouchedChunksKept
  BY DEF SafeInv
<1>4. QED
  BY <1>1, <1>2, <1>3, PTL DEF Spec

-----------------------------------------------------------------------------
(* Nobody waits for nothing *)

\* One of the upload's steps can be taken.
Ready(u) ==
    \/ up[u].pc \in {"reuse", "persist", "record", "commit_session", "fail_session"}
    \/ /\ up[u].pc \in {"split", "unregister_ok", "unregister_failed"}
       /\ CanRLock(HandlerStore)
       /\ up[u].pc = "split" /\ AllTouched(u) /\ ~Stored(up[u].m) =>
              \A c \in ChunksOf(up[u].m) : chunk[c].stored

SweepReady ==
    \/ gc.pc \in {"scan", "walk"}
    \/ gc.victims = {} /\ gc.orphans = {}
    \/ \E c \in Chunks : \/ c \in gc.victims /\ gc.unlinked = {}
                         \/ c \in gc.unlinked
                         \/ gc.victims = {} /\ c \in gc.orphans

NeverStuck ==
    /\ \A u \in Uploads : Over(u) \/ Ready(u) \/ Sweeping
    /\ Sweeping => SweepReady
    /\ gc.pc = "lock" => CanLock(GcStore) \/ \E u \in Uploads : Touching(u)

\* With one Store for the handlers and the collector: an upload that is not over can take its
\* next step, the commit included, whose chunk records are all there, unless a sweep holds the
\* lifecycle lock; that sweep can take its own; and a collector that waits for the lock gets it
\* or waits for an upload inside touchChunk, which can take its next step too (touchChunk,
\* commitManifestAndChunkRefs, unregisterActiveUpload, CollectGarbage).
THEOREM NobodyStuck ==
    ASSUME HandlerStore = GcStore
    PROVE  Spec => []NeverStuck
<1>1. Init => SafeInv
  BY SafeInit
<1>2. SafeInv /\ [Next]_vars => SafeInv'
  BY SafeStep
<1>3. ASSUME SafeInv PROVE NeverStuck
  <2> USE <1>3 DEF SafeInv, TypeInv
  <2>1. ASSUME NEW u \in Uploads, ~Over(u), ~Sweeping PROVE Ready(u)
    <3>1. up[u].pc \in UploadPc /\ up[u].m \in Manifests /\ up[u].next \in Nat
      BY DEF TypeOK, UploadState
    <3>2. CanRLock(HandlerStore)
      BY <2>1 DEF CanRLock, LockInv
    <3>3. ASSUME up[u].pc = "split", AllTouched(u), NEW c \in ChunksOf(up[u].m)
          PROVE  chunk[c].stored
      <4>1. PICK i \in 1..Len(Content[up[u].m]) : c = Content[up[u].m][i]
        BY <3>1, ContentChunks DEF ChunksOf
      <4>2. i < up[u].next
        BY <3>1, <3>3, ContentChunks DEF AllTouched
      <4> QED
        BY <3>3, <4>1, <4>2 DEF Registered, TouchedChunksKept
    <3> QED
      BY <2>1, <3>1, <3>2, <3>3 DEF Ready, Over, UploadPc
  <2>2. Sweeping => SweepReady
    BY DEF Sweeping, SweepReady, TypeOK, SweepState
  <2>3. ASSUME gc.pc = "lock", \A u \in Uploads : ~Touching(u) PROVE CanLock(GcStore)
    <3>1. mu[GcStore].readers \subseteq Uploads
      BY StoreAssumption DEF TypeOK, LifecycleMu
    <3> QED
      BY <2>3, <3>1 DEF CanLock, LockInv, Sweeping
  <2> QED
    BY <2>1, <2>2, <2>3 DEF NeverStuck
<1> QED
  BY <1>1, <1>2, <1>3, PTL DEF Spec

-----------------------------------------------------------------------------
(* What a sweep owes *)

\* Bytes that no active manifest or upload needs, and whose grace period is over for this sweep.
Overdue(c) ==
    /\ ~Referenced(c)
    /\ \A u \in Uploads : c \notin active[HandlerStore][u]
    /\ RetiredBefore(c, gc.start)
    /\ \/ chunk[c].stored /\ (InRetired(c) \/ Before(chunk[c].created, gc.start))
       \/ ~chunk[c].stored /\ file[c].stored /\ Before(file[c].mtime, gc.start)

\* The sweep is to remove them.
Chosen(c) ==
    \/ gc.pc \in {"walk", "sweep"} /\ c \in gc.victims
    \/ gc.pc = "walk" /\ c \notin gc.spared /\ file[c].stored /\ Before(file[c].mtime, gc.start)
    \/ gc.pc = "sweep" /\ c \in gc.orphans

OverdueFound ==
    [][\A c \in Chunks : Overdue(c) =>
          /\ GcScan => Chosen(c)'
          /\ Chosen(c) => \/ Chosen(c)' \/ ~Overdue(c)'
                          \/ GcSkip(c) \/ GcSkipOrphan(c)
                          \/ gc.pc = "walk" /\ gc' = NoSweep
                          \/ Crash]_vars

\* Under the lock the snapshots of the registry and of the retired chunks stay true; nobody
\* writes a file that the sweep has removed, or a record for an orphan that it has found.
SnapshotInv ==
    /\ gc.pc = "scan" => \A c \in gc.pinned : \E u \in Uploads : c \in active[GcStore][u]
    /\ gc.pc \in {"walk", "sweep"} => gc.retired = {c \in Chunks : InRetired(c)}
    /\ gc.pc = "walk" => \A c \in Chunks \ gc.spared : ~chunk[c].stored
    /\ gc.pc = "sweep" => /\ \A c \in gc.unlinked : ~file[c].stored
                         /\ \A c \in gc.orphans : ~chunk[c].stored

\* While the sweep holds the lock, no step but its own and a crash changes what it has read.
LEMMA LockedStep ==
    ASSUME HandlerStore = GcStore, SafeInv, [Next]_vars, Sweeping, ~GcStep, ~Crash
    PROVE  UNCHANGED <<gc, manifest, chunk, file, active>>
<1> USE DEF SafeInv
<1>1. ~CanRLock(HandlerStore) /\ \A u \in Uploads : ~Touching(u)
  BY DEF LockInv, CanRLock
<1> QED
  BY <1>1 DEF Next, vars, disk, memory, UploadStep, BeginUpload, TouchLookup, TouchReuse,
     TouchPersist, TouchRecord, Commit, MarkCommitted, MarkFailed, Unregister, FailUpload,
     RetireManifest, RetainManifest, CleanupExpiredUploadSessions, Tick, Touching

LEMMA SnapshotStep ==
    ASSUME HandlerStore = GcStore, SafeInv, SnapshotInv, [Next]_vars
    PROVE  SnapshotInv'
<1> USE StoreAssumption DEF SafeInv, TypeInv
<1>1. gc \in SweepState
  BY DEF TypeOK
<1>2. CASE UNCHANGED <<gc, manifest, chunk, file, active>>
  BY <1>2 DEF SnapshotInv, InRetired, Retired, ChunksOf
<1>3. CASE gc'.pc \in {"idle", "lock"}
  BY <1>3 DEF SnapshotInv
<1>4. CASE GcLock
  <2>1. gc'.pc = "scan" /\ gc'.pinned = UNION {active[GcStore][u] : u \in Uploads}
    BY <1>1, <1>4 DEF GcLock, SweepState
  <2> QED
    BY <1>4, <2>1 DEF GcLock, SnapshotInv
<1>5. CASE GcScan
  <2>1. gc'.pc = "walk" /\ gc'.retired = {c \in Chunks : InRetired(c)}
    BY <1>1, <1>5 DEF GcScan, SweepState
  <2>2. \A c \in Chunks : InRetired(c)' <=> InRetired(c)
    BY <1>5 DEF GcScan, disk, InRetired, Retired, ChunksOf
  <2>3. \A c \in Chunks \ gc'.spared : ~chunk'[c].stored
    <3>1. gc'.spared = {c \in Chunks : \/ Referenced(c)
                                       \/ chunk[c].stored
                                       \/ c \in gc.pinned
                                       \/ ~RetiredBefore(c, gc.start)}
      BY <1>1, <1>5 DEF GcScan, SweepState
    <3>2. chunk' = chunk
      BY <1>5 DEF GcScan, disk
    <3> QED
      BY <3>1, <3>2
  <2> QED
    BY <2>1, <2>2, <2>3 DEF SnapshotInv
<1>6. CASE GcWalk
  <2>1. gc.pc = "walk" /\ gc'.pc = "sweep" /\ gc'.retired = gc.retired /\ gc'.unlinked = {}
    BY <1>1, <1>6 DEF GcWalk, SweepState, SweepInv
  <2>2. \A c \in Chunks : InRetired(c)' <=> InRetired(c)
    BY <1>6 DEF GcWalk, disk, InRetired, Retired, ChunksOf
  <2>3. gc'.orphans \subseteq Chunks \ gc.spared /\ chunk' = chunk
    BY <1>1, <1>6 DEF GcWalk, disk, SweepState
  <2> QED
    BY <2>1, <2>2, <2>3 DEF SnapshotInv
<1>7. ASSUME NEW c \in Chunks,
             \/ GcRemoveFile(c) \/ GcDeleteMetadata(c) \/ GcSkip(c)
             \/ GcRemoveOrphan(c) \/ GcSkipOrphan(c)
      PROVE  SnapshotInv'
  <2>1. \A d \in Chunks : InRetired(d)' <=> InRetired(d)
    BY <1>7 DEF GcRemoveFile, GcDeleteMetadata, GcSkip, GcRemoveOrphan, GcSkipOrphan, disk,
       InRetired, Retired, ChunksOf
  <2>2. gc.pc = "sweep" /\ gc'.pc = "sweep" /\ gc'.retired = gc.retired
    BY <1>1, <1>7 DEF GcRemoveFile, GcDeleteMetadata, GcSkip, GcRemoveOrphan, GcSkipOrphan, SweepState
  <2>3. \A d \in gc'.unlinked : ~file'[d].stored
    <3>1. CASE GcRemoveFile(c)
      BY <1>1, <3>1 DEF GcRemoveFile, SweepState, Unlink, NoFile, TypeOK
    <3>2. CASE GcDeleteMetadata(c)
      BY <1>1, <3>2 DEF GcDeleteMetadata, SweepState
    <3>3. CASE GcSkip(c)
      BY <1>1, <3>3 DEF GcSkip, SweepState
    <3>4. CASE GcRemoveOrphan(c)
      <4>1. gc'.unlinked = gc.unlinked /\ gc.unlinked = {}
        BY <1>1, <3>4 DEF GcRemoveOrphan, SweepState, SweepInv
      <4> QED
        BY <4>1
    <3>5. CASE GcSkipOrphan(c)
      <4>1. gc'.unlinked = gc.unlinked /\ gc.unlinked = {}
        BY <1>1, <3>5 DEF GcSkipOrphan, SweepState, SweepInv
      <4> QED
        BY <4>1
    <3> QED
      BY <1>7, <3>1, <3>2, <3>3, <3>4, <3>5
  <2>4. \A d \in gc'.orphans : d \in gc.orphans /\ ~chunk'[d].stored
    <3>1. gc'.orphans \subseteq gc.orphans
      <4>1. CASE GcRemoveFile(c) \/ GcDeleteMetadata(c) \/ GcSkip(c)
        BY <1>1, <4>1 DEF GcRemoveFile, GcDeleteMetadata, GcSkip, SweepState
      <4>2. CASE GcRemoveOrphan(c) \/ GcSkipOrphan(c)
        BY <1>1, <4>2 DEF GcRemoveOrphan, GcSkipOrphan, SweepState
      <4> QED
        BY <1>7, <4>1, <4>2
    <3>2. \A d \in Chunks : chunk'[d] = chunk[d] \/ chunk'[d] = NoChunk
      BY <1>7 DEF GcRemoveFile, GcDeleteMetadata, GcSkip, GcRemoveOrphan, GcSkipOrphan, disk, TypeOK
    <3>3. gc.orphans \subseteq Chunks
      BY <1>1 DEF SweepState
    <3> QED
      BY <2>2, <3>1, <3>2, <3>3 DEF SnapshotInv, NoChunk
  <2> QED
    BY <2>1, <2>2, <2>3, <2>4 DEF SnapshotInv
<1>8. CASE gc' = NoSweep \/ GcStart
  <2>1. gc'.pc \in {"idle", "lock"}
    BY <1>8, NothingChosen, NoSweepType DEF GcStart, SweepState
  <2> QED
    BY <1>3, <2>1
<1>9. CASE ~GcStep /\ ~Crash
  <2>1. CASE Sweeping
    BY <1>2, <1>9, <2>1, LockedStep
  <2>2. CASE ~Sweeping
    <3>1. gc' = gc
      BY <1>9 DEF Next, vars, memory, UploadStep, BeginUpload, TouchLookup, TouchReuse,
         TouchPersist, TouchRecord, Commit, MarkCommitted, MarkFailed, Unregister, FailUpload,
         RetireManifest, RetainManifest, CleanupExpiredUploadSessions, Tick, EndTouch
    <3> QED
      BY <1>1, <1>3, <2>2, <3>1 DEF Sweeping, SweepState
  <2> QED
    BY <2>1, <2>2
<1> QED
  BY <1>4, <1>5, <1>6, <1>7, <1>8, <1>9 DEF GcStep, GcEnd, Crash

\* A scan overlooks nothing that is due.
LEMMA ScanFinds ==
    ASSUME HandlerStore = GcStore, SafeInv, SnapshotInv, RefCountBacked, GcScan,
           NEW c \in Chunks, Overdue(c)
    PROVE  Chosen(c)'
<1> USE DEF SafeInv, TypeInv
<1>1. gc \in SweepState /\ gc.pc = "scan"
  BY DEF TypeOK, GcScan
<1>2. c \notin gc.pinned /\ ~Referenced(c) /\ RetiredBefore(c, gc.start)
  BY <1>1 DEF SnapshotInv, Overdue
<1>3. /\ gc'.pc = "walk" /\ gc'.start = gc.start /\ gc'.victims = {d \in Chunks : Victim(d)}
      /\ gc'.spared = {d \in Chunks : \/ Referenced(d) \/ chunk[d].stored \/ d \in gc.pinned
                                      \/ ~RetiredBefore(d, gc.start)}
  BY <1>1 DEF GcScan, SweepState
<1>4. CASE chunk[c].stored
  <2>1. ~InRetired(c) => chunk[c].refs = 0
    <3>1. chunk[c].refs \in Nat
      BY DEF TypeOK, ChunkRecord
    <3>2. ASSUME chunk[c].refs > 0 PROVE InRetired(c)
      <4>1. PICK m \in Manifests : Stored(m) /\ c \in ChunksOf(m)
        BY <3>2 DEF RefCountBacked
      <4>2. manifest[m].state \in {"absent", "active", "retired"}
        BY DEF TypeOK, ManifestRecord
      <4> QED
        BY <1>2, <4>1, <4>2 DEF Referenced, IsActive, InRetired, Retired, Stored
    <3> QED
      BY <3>1, <3>2
  <2>2. Victim(c)
    BY <1>2, <1>4, <2>1 DEF Victim, Overdue
  <2> QED
    BY <1>3, <2>2 DEF Chosen
<1>5. CASE ~chunk[c].stored
  <2>1. file[c].stored /\ Before(file[c].mtime, gc.start) /\ file' = file
    BY <1>5 DEF Overdue, GcScan, disk
  <2>2. c \notin gc'.spared
    BY <1>2, <1>3, <1>5
  <2> QED
    BY <1>3, <2>1, <2>2 DEF Chosen, Before
<1> QED
  BY <1>4, <1>5

\* The record and the file of a chunk are gone: nothing of it is due any more.
LEMMA NothingDue ==
    ASSUME NEW c \in Chunks, ~chunk'[c].stored, ~file'[c].stored
    PROVE  ~Overdue(c)'
BY DEF Overdue

\* What the sweep has found it removes, unless the removal fails.
LEMMA SweepKeeps ==
    ASSUME HandlerStore = GcStore, SafeInv, SnapshotInv, RefCountBacked, [Next]_vars,
           NEW c \in Chunks, Overdue(c), Chosen(c)
    PROVE  \/ Chosen(c)' \/ ~Overdue(c)'
           \/ GcSkip(c) \/ GcSkipOrphan(c)
           \/ gc.pc = "walk" /\ gc' = NoSweep
           \/ Crash
<1> USE DEF SafeInv, TypeInv
<1>1. gc \in SweepState /\ gc.pc \in {"walk", "sweep"}
  BY DEF TypeOK, Chosen
<1>2. CASE UNCHANGED <<gc, file>>
  BY <1>2 DEF Chosen, Before
<1>3. CASE GcWalk
  <2>1. /\ gc'.pc = "sweep" /\ gc'.victims = gc.victims
        /\ gc'.orphans = {d \in Chunks \ gc.spared : file[d].stored /\ Before(file[d].mtime, gc.start)}
    BY <1>1, <1>3 DEF GcWalk, SweepState
  <2> QED
    BY <1>3, <2>1 DEF Chosen, GcWalk
<1>4. ASSUME NEW d \in Chunks, GcRemoveFile(d) PROVE Chosen(c)'
  <2>1. /\ gc.pc = "sweep" /\ gc'.pc = "sweep"
        /\ gc'.victims = gc.victims /\ gc'.orphans = gc.orphans
    BY <1>1, <1>4 DEF GcRemoveFile, SweepState
  <2> QED
    BY <2>1 DEF Chosen
<1>5. ASSUME NEW d \in Chunks, GcDeleteMetadata(d) PROVE Chosen(c)' \/ ~Overdue(c)'
  <2>1. /\ gc.pc = "sweep" /\ gc'.pc = "sweep"
        /\ gc'.victims = gc.victims \ {d} /\ gc'.orphans = gc.orphans
    BY <1>1, <1>5 DEF GcDeleteMetadata, SweepState
  <2>2. CASE d # c
    BY <2>1, <2>2 DEF Chosen
  <2>3. CASE d = c /\ chunk'[c] = NoChunk
    <3>1. ~file'[c].stored
      BY <1>5, <2>3 DEF GcDeleteMetadata, SnapshotInv
    <3> QED
      BY <2>3, <3>1, NothingDue DEF NoChunk
  <2>4. CASE d = c /\ chunk'[c] # NoChunk
    <3>1. c \notin gc.retired /\ ~(chunk[c].refs = 0 /\ Before(chunk[c].created, gc.start))
      BY <1>5, <2>4 DEF GcDeleteMetadata, TypeOK
    <3>2. ~InRetired(c)
      BY <1>1, <3>1 DEF SnapshotInv
    <3>3. chunk[c].refs \in Nat
      BY DEF TypeOK, ChunkRecord
    <3>4. ~file[c].stored
      BY <1>5, <2>4 DEF GcDeleteMetadata, SnapshotInv
    <3>5. Before(chunk[c].created, gc.start)
      BY <3>2, <3>4 DEF Overdue
    <3>6. chunk[c].refs > 0
      BY <3>1, <3>3, <3>5
    <3>7. PICK m \in Manifests : Stored(m) /\ c \in ChunksOf(m)
      BY <3>6 DEF RefCountBacked
    <3>8. manifest[m].state \in {"absent", "active", "retired"}
      BY DEF TypeOK, ManifestRecord
    <3> QED
      BY <3>2, <3>7, <3>8 DEF Overdue, Referenced, IsActive, InRetired, Retired, Stored
  <2> QED
    BY <2>2, <2>3, <2>4
<1>6. ASSUME NEW d \in Chunks, GcSkip(d) PROVE Chosen(c)' \/ GcSkip(c)
  <2>1. /\ gc.pc = "sweep" /\ gc'.pc = "sweep"
        /\ gc'.victims = gc.victims \ {d} /\ gc'.orphans = gc.orphans
    BY <1>1, <1>6 DEF GcSkip, SweepState
  <2> QED
    BY <1>6, <2>1 DEF Chosen
<1>7. ASSUME NEW d \in Chunks, GcRemoveOrphan(d) PROVE Chosen(c)' \/ ~Overdue(c)'
  <2>1. /\ gc.pc = "sweep" /\ gc'.pc = "sweep" /\ gc.victims = {}
        /\ gc'.victims = gc.victims /\ gc'.orphans = gc.orphans \ {d}
    BY <1>1, <1>7 DEF GcRemoveOrphan, SweepState
  <2>2. CASE d # c
    BY <2>1, <2>2 DEF Chosen
  <2>3. CASE d = c
    <3>1. ~chunk'[c].stored
      BY <1>7, <2>3 DEF GcRemoveOrphan, SnapshotInv
    <3>2. ~file'[c].stored
      BY <1>7, <2>3 DEF GcRemoveOrphan, Unlink, NoFile, TypeOK
    <3> QED
      BY <3>1, <3>2, NothingDue
  <2> QED
    BY <2>2, <2>3
<1>8. ASSUME NEW d \in Chunks, GcSkipOrphan(d) PROVE Chosen(c)' \/ GcSkipOrphan(c)
  <2>1. /\ gc.pc = "sweep" /\ gc'.pc = "sweep" /\ gc.victims = {}
        /\ gc'.victims = gc.victims /\ gc'.orphans = gc.orphans \ {d}
    BY <1>1, <1>8 DEF GcSkipOrphan, SweepState
  <2> QED
    BY <1>8, <2>1 DEF Chosen
<1>9. CASE GcEnd
  BY <1>1, <1>9 DEF GcEnd, Chosen
<1>10. CASE ~GcStep /\ ~Crash
  BY <1>1, <1>2, <1>10, LockedStep DEF Sweeping
<1> QED
  BY <1>1, <1>3, <1>4, <1>5, <1>6, <1>7, <1>8, <1>9, <1>10 DEF GcStep, GcStart, GcLock, GcScan

\* scanGarbageCollection and the removals, when the handlers and the collector share a Store: a
\* scan finds all the bytes that nothing needs and whose grace period is over, chunks with a
\* record and orphans without; and what it has found stays found until it is removed, unless its
\* own removal fails, the directory walk fails, or the process crashes.
THEOREM SweepOverlooksNothing ==
    ASSUME HandlerStore = GcStore
    PROVE  Spec => []SnapshotInv /\ OverdueFound
<1> DEFINE Inv == SafeInv /\ SnapshotInv
<1>1. Init => Inv
  BY SafeInit, NothingChosen DEF Init, SnapshotInv
<1>2. Inv /\ [Next]_vars => Inv'
  BY SafeStep, SnapshotStep
<1>3. Inv /\ RefCountBacked /\ [Next]_vars =>
        [\A c \in Chunks : Overdue(c) =>
            /\ GcScan => Chosen(c)'
            /\ Chosen(c) => \/ Chosen(c)' \/ ~Overdue(c)'
                            \/ GcSkip(c) \/ GcSkipOrphan(c)
                            \/ gc.pc = "walk" /\ gc' = NoSweep
                            \/ Crash]_vars
  BY ScanFinds, SweepKeeps
<1> QED
  BY <1>1, <1>2, <1>3, CountsBacked, PTL DEF Spec, OverdueFound

-----------------------------------------------------------------------------
(* Every step is a put, a retirement, a retain, a reclaim of retired objects, a regain of
   bytes, or a stutter of ContentStore *)

\* A step that leaves records, chunk records and chunk files alone is not visible.
LEMMA HiddenStep ==
    ASSUME UNCHANGED <<manifest, chunk, file>>
    PROVE  UNCHANGED Promise!vars
BY DEF Promise!vars, Readable, Stored, HasBytes

\* Writing chunks can only complete objects.
LEMMA GrowthStep ==
    ASSUME TypeOK, UNCHANGED manifest,
           \A c \in Chunks : /\ chunk[c].stored => chunk'[c].stored
                             /\ file[c].stored => file'[c].stored
    PROVE  Promise!Next
<1>1. Readable \subseteq Readable'
  BY ContentChunks DEF Readable, Stored, HasBytes
<1>2. Readable' \subseteq Promise!StoredSet
  BY DEF Readable, Stored, Promise!StoredSet
<1>3. Readable' \in SUBSET Manifests
  BY DEF Readable
<1>4. Promise!Regain(Readable')
  BY <1>1, <1>2 DEF Promise!Regain
<1>5. QED
  BY <1>3, <1>4 DEF Promise!Next

\* Losing the record or the file of a chunk nobody needs can only cost retired objects their
\* bytes.
LEMMA LossStep ==
    ASSUME TypeOK, UNCHANGED manifest, NEW c \in Chunks, ~Referenced(c),
           \A d \in Chunks \ {c} : chunk'[d] = chunk[d] /\ file'[d] = file[d],
           /\ chunk'[c].stored => chunk[c].stored
           /\ file'[c].stored => file[c].stored
    PROVE  Promise!Next
<1> DEFINE Lost == Readable \ Readable'
<1>1. Readable' \subseteq Readable
  BY ContentChunks DEF Readable, Stored, HasBytes
<1>2. ASSUME NEW m \in Lost PROVE m \in Manifests /\ c \in ChunksOf(m) /\ Stored(m)
  BY <1>2, ContentChunks DEF Readable, Stored, HasBytes
<1>3. ASSUME NEW m \in Lost PROVE manifest[m].state = "retired"
  <2>1. manifest[m].state \in {"absent", "active", "retired"}
    BY <1>2 DEF TypeOK, ManifestRecord
  <2>2. manifest[m].state # "active"
    BY <1>2 DEF Referenced, IsActive
  <2>3. QED
    BY <1>2, <2>1, <2>2 DEF Stored
<1>4. Lost \subseteq Promise!RetiredSet
  BY <1>2, <1>3 DEF Promise!RetiredSet
<1>5. Readable' = Readable \ Lost
  BY <1>1
<1>6. Lost \in SUBSET Manifests
  BY DEF Readable
<1>7. Promise!Reclaim(Lost)
  BY <1>4, <1>5 DEF Promise!Reclaim
<1>8. QED
  BY <1>6, <1>7 DEF Promise!Next

LEMMA CommitStep ==
    ASSUME TypeOK, ActiveManifestIntact', NEW u \in Uploads, Commit(u)
    PROVE  Promise!Next
<1>1. PICK m \in Manifests : m = up[u].m
  BY DEF TypeOK, UploadState
<1>2. manifest' = [manifest EXCEPT ![m] = Active] /\ m \notin hollow'
  BY <1>1 DEF Commit, CommitNew, CommitExisting
<1>3. manifest'[m].state = "active" /\ \A n \in Manifests \ {m} : manifest'[n] = manifest[n]
  BY <1>1, <1>2 DEF TypeOK, Active
<1>4. m \in Readable'
  BY <1>1, <1>2, <1>3 DEF ActiveManifestIntact, IsActive, Readable, Stored
<1>5. \A d \in Chunks : chunk'[d].stored = chunk[d].stored /\ file'[d] = file[d]
  BY CommitKeepsRecords DEF Commit
<1>6. \A n \in Manifests \ {m} : n \in Readable' <=> n \in Readable
  BY <1>3, <1>5, ContentChunks DEF Readable, Stored, HasBytes
<1>7. Readable' = Readable \cup {m}
  BY <1>1, <1>4, <1>6 DEF Readable
<1>8. Promise!Put(m)
  BY <1>1, <1>3, <1>7 DEF Promise!Put, TypeOK
<1>9. QED
  BY <1>8 DEF Promise!Next

LEMMA LifecycleStep ==
    ASSUME TypeOK, NEW m \in Manifests, RetireManifest(m) \/ RetainManifest(m)
    PROVE  Promise!Next
<1>1. \A n \in Manifests \ {m} : manifest'[n] = manifest[n]
  BY DEF RetireManifest, RetainManifest, TypeOK
<1>2. Readable' = Readable
  BY DEF RetireManifest, RetainManifest, TypeOK, Readable, Stored, HasBytes, IsActive, Retired,
     Active
<1>3. CASE RetireManifest(m)
  <2>1. Promise!Retire(m)
    BY <1>1, <1>2, <1>3 DEF RetireManifest, IsActive, Promise!Retire, TypeOK
  <2>2. QED
    BY <2>1 DEF Promise!Next
<1>4. CASE RetainManifest(m)
  <2>1. Promise!Retain(m)
    BY <1>1, <1>2, <1>4 DEF RetainManifest, Retired, Active, Promise!Retain, TypeOK
  <2>2. QED
    BY <2>1 DEF Promise!Next
<1>5. QED
  BY <1>3, <1>4

LEMMA PromiseStep ==
    ASSUME HandlerStore = GcStore, SafeInv, SafeInv', [Next]_vars
    PROVE  [Promise!Next]_(Promise!vars)
<1> USE DEF SafeInv, TypeInv
<1>1. CASE UNCHANGED <<manifest, chunk, file>>
  BY <1>1, HiddenStep
<1>2. ASSUME NEW u \in Uploads, TouchReuse(u) \/ TouchPersist(u) \/ TouchRecord(u)
      PROVE  Promise!Next
  <2>1. \A c \in Chunks : /\ chunk[c].stored => chunk'[c].stored
                          /\ file[c].stored => file'[c].stored
    BY <1>2 DEF TouchReuse, TouchPersist, TouchRecord, WriteIfMissing, TypeOK, ChunkRecord,
       FileRecord
  <2>2. UNCHANGED manifest
    BY <1>2 DEF TouchReuse, TouchPersist, TouchRecord
  <2>3. QED
    BY <2>1, <2>2, GrowthStep
<1>3. ASSUME NEW u \in Uploads, Commit(u) PROVE Promise!Next
  BY <1>3, CommitStep
<1>4. ASSUME NEW m \in Manifests, RetireManifest(m) \/ RetainManifest(m) PROVE Promise!Next
  BY <1>4, LifecycleStep
<1>5. ASSUME NEW c \in Chunks, GcRemoveFile(c) \/ GcDeleteMetadata(c) \/ GcRemoveOrphan(c)
      PROVE  Promise!Next
  <2>1. ~Referenced(c)
    BY <1>5 DEF GcRemoveFile, GcDeleteMetadata, GcRemoveOrphan, SweepInv, Unneeded
  <2>2. UNCHANGED manifest
    BY <1>5 DEF GcRemoveFile, GcDeleteMetadata, GcRemoveOrphan
  <2>3. \A d \in Chunks \ {c} : chunk'[d] = chunk[d] /\ file'[d] = file[d]
    BY <1>5 DEF GcRemoveFile, GcDeleteMetadata, GcRemoveOrphan, Unlink, TypeOK
  <2>4. /\ chunk'[c].stored => chunk[c].stored
        /\ file'[c].stored => file[c].stored
    BY <1>5 DEF GcRemoveFile, GcDeleteMetadata, GcRemoveOrphan, Unlink, TypeOK, NoChunk, NoFile,
       ChunkRecord, FileRecord
  <2>5. QED
    BY <2>1, <2>2, <2>3, <2>4, LossStep
<1>6. QED
  BY <1>1, <1>2, <1>3, <1>4, <1>5 DEF Next, UploadStep, GcStep, vars, disk, memory, BeginUpload,
     TouchLookup, MarkCommitted, MarkFailed, Unregister, FailUpload,
     CleanupExpiredUploadSessions, GcStart, GcLock, GcScan, GcWalk, GcEnd, GcSkip,
     GcSkipOrphan, Tick, Crash

\* With one Store for the handlers and the collector, Vault Core keeps the promise the API
\* service relies on: objects are put whole, and only retired ones lose bytes.
THEOREM StoreImplementsPromise ==
    ASSUME HandlerStore = GcStore
    PROVE  Spec => KeepsPromise
<1>1. Init => Promise!Init
  BY DEF Init, NoManifest, Promise!Init, Readable, Stored
<1>2. Init => SafeInv
  BY SafeInit
<1>3. SafeInv /\ [Next]_vars => SafeInv'
  BY SafeStep
<1>4. SafeInv /\ SafeInv' /\ [Next]_vars => [Promise!Next]_(Promise!vars)
  BY PromiseStep
<1>5. QED
  BY <1>1, <1>2, <1>3, <1>4, PTL DEF Spec, KeepsPromise, Promise!Spec

-----------------------------------------------------------------------------
(* The age of what the collector removes *)

\* The retirements behind the sweep's choice lie before its start by the grace period, and a
\* record that is about to go has lost its file.
GraceInv ==
    /\ gc.start <= now
    /\ gc.pc \in {"walk", "sweep"} => \A c \in gc.victims : RetiredBefore(c, gc.start)
    /\ gc.pc = "walk" => \A c \in Chunks \ gc.spared : RetiredBefore(c, gc.start)
    /\ gc.pc = "sweep" => \A c \in gc.orphans : RetiredBefore(c, gc.start)
    /\ \A c \in gc.unlinked : ~file[c].stored

AgedInv == SafeInv /\ GraceInv

\* What had aged when the sweep began has aged now.
LEMMA AgedNow ==
    ASSUME TypeOK, GraceInv, NEW c \in Chunks, RetiredBefore(c, gc.start)
    PROVE  RetiredBefore(c, now)
<1>1. now \in Nat /\ gc.start \in Nat /\ gc.start <= now
  BY DEF TypeOK, SweepState, GraceInv
<1>2. \A m \in Manifests : manifest[m].retiredAt \in Nat
  BY DEF TypeOK, ManifestRecord
<1>3. QED
  BY <1>1, <1>2, TimeAssumption DEF RetiredBefore, Before

\* A sweep keeps its decision through every step that leaves it, its files and the manifests
\* alone, and a collector that holds no lock has decided nothing.
LEMMA GraceKept ==
    ASSUME AgedInv, gc' = gc, now' \in Nat, now <= now',
           \/ ~Sweeping
           \/ manifest' = manifest /\ file' = file
    PROVE  GraceInv'
<1> USE DEF AgedInv, SafeInv, TypeInv
<1>1. gc.start <= now'
  BY DEF GraceInv, TypeOK, SweepState
<1>2. CASE ~Sweeping
  <2>1. gc.pc \notin {"scan", "walk", "sweep"} /\ gc.unlinked = {}
    BY <1>2 DEF Sweeping, SweepInv
  <2>2. QED
    BY <1>1, <2>1 DEF GraceInv
<1>3. CASE manifest' = manifest /\ file' = file
  BY <1>1, <1>3 DEF GraceInv, RetiredBefore, Retired
<1>4. QED
  BY <1>2, <1>3

\* The steps of uploads and of the manifest lifecycle, and time: no sweep runs beside those
\* that touch a file or a manifest.
LEMMA GraceOthers ==
    ASSUME HandlerStore = GcStore, AgedInv,
           \/ \E u \in Uploads : (\E m \in Manifests : BeginUpload(u, m)) \/ UploadStep(u) \/ FailUpload(u)
           \/ \E m \in Manifests : RetireManifest(m) \/ RetainManifest(m)
           \/ CleanupExpiredUploadSessions
           \/ Tick
           \/ UNCHANGED vars
    PROVE  GraceInv'
<1> USE StoreAssumption DEF AgedInv, SafeInv, TypeInv
<1>0. now \in Nat
  BY DEF TypeOK
<1>1. ASSUME NEW u \in Uploads, TouchReuse(u) \/ TouchPersist(u) PROVE ~Sweeping
  BY <1>1 DEF TouchReuse, TouchPersist, LockInv, Touching
<1>2. ASSUME NEW u \in Uploads, Commit(u) PROVE ~Sweeping
  BY <1>2 DEF Commit, CanRLock, LockInv
<1>3. ASSUME NEW m \in Manifests, RetireManifest(m) \/ RetainManifest(m) PROVE ~Sweeping
  BY <1>3 DEF RetireManifest, RetainManifest, CanRLock, LockInv
<1>4. ASSUME NEW u \in Uploads, TouchReuse(u) \/ TouchPersist(u) PROVE GraceInv'
  BY <1>0, <1>1, <1>4, GraceKept DEF TouchReuse, TouchPersist, EndTouch
<1>5. ASSUME NEW u \in Uploads, Commit(u) PROVE GraceInv'
  BY <1>0, <1>2, <1>5, GraceKept DEF Commit
<1>6. ASSUME NEW m \in Manifests, RetireManifest(m) \/ RetainManifest(m) PROVE GraceInv'
  BY <1>0, <1>3, <1>6, GraceKept DEF RetireManifest, RetainManifest, memory
<1>7. ASSUME NEW u \in Uploads,
             \/ \E m \in Manifests : BeginUpload(u, m)
             \/ TouchLookup(u) \/ TouchRecord(u) \/ MarkCommitted(u) \/ MarkFailed(u)
             \/ Unregister(u) \/ FailUpload(u)
      PROVE  GraceInv'
  BY <1>0, <1>7, GraceKept DEF BeginUpload, TouchLookup, TouchRecord, EndTouch, MarkCommitted,
     MarkFailed, Unregister, FailUpload, disk
<1>8. ASSUME CleanupExpiredUploadSessions \/ Tick \/ UNCHANGED vars PROVE GraceInv'
  BY <1>0, <1>8, GraceKept DEF CleanupExpiredUploadSessions, Tick, vars, disk, memory
<1>9. QED
  BY <1>4, <1>5, <1>6, <1>7, <1>8 DEF UploadStep

\* The collector's own steps: the scan chooses what has aged, and the rest only narrow it.
LEMMA GraceSweep ==
    ASSUME AgedInv, GcStep
    PROVE  GraceInv'
<1> USE DEF AgedInv, SafeInv, TypeInv
<1>0. now \in Nat /\ gc.start \in Nat /\ gc.start <= now
  BY DEF TypeOK, SweepState, GraceInv
<1>1. ASSUME GcStart PROVE GraceInv'
  BY <1>0, <1>1 DEF GcStart, NoSweep, GraceInv, disk
<1>2. ASSUME GcLock PROVE GraceInv'
  <2>1. gc'.pc = "scan" /\ gc'.start = gc.start /\ gc'.unlinked = gc.unlinked
    BY <1>2 DEF GcLock, TypeOK, SweepState
  <2>2. QED
    BY <1>0, <1>2, <2>1 DEF GcLock, GraceInv, disk
<1>3. ASSUME GcScan PROVE GraceInv'
  <2>1. /\ gc'.pc = "walk" /\ gc'.start = gc.start /\ gc'.unlinked = {}
        /\ gc'.victims = {c \in Chunks : Victim(c)}
        /\ gc'.spared = {c \in Chunks : \/ Referenced(c)
                                        \/ chunk[c].stored
                                        \/ c \in gc.pinned
                                        \/ ~RetiredBefore(c, gc.start)}
    BY <1>3 DEF GcScan, TypeOK, SweepState, SweepInv
  <2>2. \A c : RetiredBefore(c, gc.start)' <=> RetiredBefore(c, gc.start)
    BY <1>3, <2>1 DEF GcScan, RetiredBefore, Retired, disk
  <2>3. \A c \in Chunks : Victim(c) => RetiredBefore(c, gc.start)
    BY DEF Victim, InRetired, RetiredBefore
  <2>4. \A c \in Chunks \ gc'.spared : RetiredBefore(c, gc.start)
    BY <2>1
  <2>5. QED
    BY <1>0, <1>3, <2>1, <2>2, <2>3, <2>4 DEF GcScan, GraceInv
<1>4. ASSUME GcWalk PROVE GraceInv'
  <2>1. /\ gc'.pc = "sweep" /\ gc'.start = gc.start /\ gc'.unlinked = {}
        /\ gc'.victims = gc.victims /\ gc'.orphans \subseteq Chunks \ gc.spared
    BY <1>4 DEF GcWalk, TypeOK, SweepState, SweepInv
  <2>2. \A c : RetiredBefore(c, gc.start)' <=> RetiredBefore(c, gc.start)
    BY <1>4, <2>1 DEF GcWalk, RetiredBefore, Retired, disk
  <2>3. QED
    BY <1>0, <1>4, <2>1, <2>2 DEF GcWalk, GraceInv
<1>5. ASSUME GcEnd PROVE GraceInv'
  BY <1>0, <1>5 DEF GcEnd, NoSweep, GraceInv
<1>6. ASSUME NEW c \in Chunks,
             \/ GcRemoveFile(c) \/ GcDeleteMetadata(c) \/ GcSkip(c)
             \/ GcRemoveOrphan(c) \/ GcSkipOrphan(c)
      PROVE  GraceInv'
  <2>1. /\ gc'.pc = "sweep" /\ gc.pc = "sweep" /\ gc'.start = gc.start
        /\ gc'.victims \subseteq gc.victims /\ gc'.orphans \subseteq gc.orphans
    BY <1>6 DEF GcRemoveFile, GcDeleteMetadata, GcSkip, GcRemoveOrphan, GcSkipOrphan, TypeOK, SweepState
  <2>2. manifest' = manifest /\ now' = now
    BY <1>6 DEF GcRemoveFile, GcDeleteMetadata, GcSkip, GcRemoveOrphan, GcSkipOrphan, disk
  <2>3. \A d : RetiredBefore(d, gc.start)' <=> RetiredBefore(d, gc.start)
    BY <2>1, <2>2 DEF RetiredBefore, Retired
  <2>4. \A d \in gc'.unlinked : ~file'[d].stored
    <3>1. CASE GcRemoveFile(c)
      BY <3>1 DEF GcRemoveFile, Unlink, NoFile, TypeOK, SweepState
    <3>2. CASE GcDeleteMetadata(c) \/ GcSkip(c)
      BY <3>2 DEF GcDeleteMetadata, GcSkip, TypeOK, SweepState
    <3>3. CASE GcRemoveOrphan(c)
      BY <3>3 DEF GcRemoveOrphan, Unlink, NoFile, TypeOK, SweepState, SweepInv
    <3>4. CASE GcSkipOrphan(c)
      BY <3>4 DEF GcSkipOrphan, disk, TypeOK, SweepState, GraceInv
    <3>5. QED
      BY <1>6, <3>1, <3>2, <3>3, <3>4
  <2>5. QED
    BY <1>0, <2>1, <2>2, <2>3, <2>4 DEF GraceInv
<1>7. QED
  BY <1>1, <1>2, <1>3, <1>4, <1>5, <1>6 DEF GcStep

LEMMA AgedInit == Init /\ HandlerStore = GcStore => AgedInv
BY SafeInit DEF Init, AgedInv, GraceInv, NoSweep

LEMMA AgedStep ==
    ASSUME HandlerStore = GcStore
    PROVE  AgedInv /\ [Next]_vars => AgedInv'
<1> SUFFICES ASSUME AgedInv, [Next]_vars PROVE AgedInv'
  OBVIOUS
<1>1. SafeInv'
  BY SafeStep DEF AgedInv
<1>2. GraceInv'
  <2>1. CASE Crash
    BY <2>1 DEF Crash, NoSweep, AgedInv, GraceInv, SafeInv, TypeInv, TypeOK
  <2>2. CASE GcStep
    BY <2>2, GraceSweep
  <2>3. CASE ~Crash /\ ~GcStep
    BY <2>3, GraceOthers DEF Next
  <2>4. QED
    BY <2>1, <2>2, <2>3
<1>3. QED
  BY <1>1, <1>2 DEF AgedInv

\* A file goes only when nothing active refers to its chunk and the retirements have aged; a
\* record goes after the file.
LEMMA Removal ==
    ASSUME AgedInv, [Next]_vars, NEW c \in Chunks
    PROVE  /\ file[c].stored /\ ~file'[c].stored => ~Referenced(c) /\ RetiredBefore(c, now)
           /\ chunk[c].stored /\ ~chunk'[c].stored => ~file[c].stored
<1> USE DEF AgedInv, SafeInv, TypeInv
<1>1. CASE UNCHANGED <<chunk, file>>
  BY <1>1
<1>2. ASSUME NEW u \in Uploads, TouchReuse(u) \/ TouchPersist(u)
      PROVE  file'[c].stored = file[c].stored \/ file'[c].stored
  BY <1>2 DEF TouchReuse, TouchPersist, WriteIfMissing, TypeOK, FileRecord
<1>3. ASSUME NEW u \in Uploads, TouchReuse(u) \/ TouchPersist(u) PROVE chunk' = chunk
  BY <1>3 DEF TouchReuse, TouchPersist
<1>4. ASSUME NEW u \in Uploads, TouchRecord(u)
      PROVE  file' = file /\ (chunk[c].stored => chunk'[c].stored)
  BY <1>4 DEF TouchRecord, TypeOK, ChunkRecord
<1>5. ASSUME NEW u \in Uploads, Commit(u)
      PROVE  file' = file /\ (chunk[c].stored => chunk'[c].stored)
  BY <1>5, CommitKeepsRecords DEF Commit
<1>6. ASSUME NEW d \in Chunks, GcRemoveFile(d) \/ GcRemoveOrphan(d)
      PROVE  chunk' = chunk /\ (file[c].stored /\ ~file'[c].stored => c = d)
  BY <1>6 DEF GcRemoveFile, GcRemoveOrphan, Unlink, TypeOK
<1>7. ASSUME NEW d \in Chunks, GcRemoveFile(d) \/ GcRemoveOrphan(d)
      PROVE  ~Referenced(d) /\ RetiredBefore(d, now)
  <2>1. gc.pc = "sweep" /\ (d \in gc.victims \/ d \in gc.orphans)
    BY <1>7 DEF GcRemoveFile, GcRemoveOrphan
  <2>2. Unneeded(d) /\ RetiredBefore(d, gc.start)
    BY <2>1 DEF SweepInv, GraceInv
  <2>3. QED
    BY <2>2, AgedNow DEF Unneeded
<1>8. ASSUME NEW d \in Chunks, GcDeleteMetadata(d)
      PROVE  file' = file /\ ~file[d].stored /\ (c # d => chunk'[c] = chunk[c])
  BY <1>8 DEF GcDeleteMetadata, GraceInv, TypeOK
<1>9. QED
  BY <1>1, <1>2, <1>3, <1>4, <1>5, <1>6, <1>7, <1>8 DEF Next, UploadStep, GcStep, vars, disk, memory,
     BeginUpload, TouchLookup, MarkCommitted, MarkFailed, Unregister, FailUpload, RetireManifest,
     RetainManifest, CleanupExpiredUploadSessions, GcStart, GcLock, GcScan, GcWalk, GcEnd, GcSkip,
     GcSkipOrphan, Tick, Crash

\* The collector removes the file of a chunk only after the latest retirement of a manifest
\* that contains it has aged, and the record only after the file (scanGarbageCollection,
\* CollectGarbage).
THEOREM RemovalsAged ==
    ASSUME HandlerStore = GcStore
    PROVE  Spec => RetirementGrace
<1>1. Init => AgedInv
  BY AgedInit
<1>2. AgedInv /\ [Next]_vars => AgedInv'
  BY AgedStep
<1>3. AgedInv /\ [Next]_vars =>
         [\A c \in Chunks :
             /\ file[c].stored /\ ~file'[c].stored => RetiredBefore(c, now)
             /\ chunk[c].stored /\ ~chunk'[c].stored => ~file[c].stored]_vars
  BY Removal
<1>4. QED
  BY <1>1, <1>2, <1>3, PTL DEF Spec, RetirementGrace

-----------------------------------------------------------------------------
(* Readers *)

ReadPc == {"new", "stat", "strict", "stream", "refused", "cut", "sent"}
ReaderState == [pc : ReadPc, m : Manifests, next : Nat \ {0}, sent : Seq(BOOLEAN), kept : BOOLEAN]

ReadersOK == rd \in [Readers -> ReaderState]

\* The mode follows from the size, and only the end of a streamed answer may be bad.
VerifiedSoFar ==
    \A r \in Readers :
        /\ rd[r].pc = "strict" => rd[r].m \in Small
        /\ rd[r].pc \in {"stream", "cut"} => rd[r].m \notin Small
        /\ \A i \in DOMAIN rd[r].sent :
               rd[r].sent[i] => i = Len(rd[r].sent) /\ rd[r].pc = "cut"

VerifyInv == ReadersOK /\ VerifiedSoFar

\* What a step of one reader leaves alone.
LEMMA OtherReaders ==
    ASSUME ReadersOK, NEW r \in Readers, NEW s \in ReaderState, rd' = [rd EXCEPT ![r] = s]
    PROVE  /\ ReadersOK'
           /\ rd'[r] = s
           /\ \A q \in Readers \ {r} : rd'[q] = rd[q]
BY DEF ReadersOK

\* A reader's new state: its type, and what it has verified.
Verified(s) ==
    /\ s.pc = "strict" => s.m \in Small
    /\ s.pc \in {"stream", "cut"} => s.m \notin Small
    /\ \A i \in DOMAIN s.sent : s.sent[i] => i = Len(s.sent) /\ s.pc = "cut"

\* A reader that moves on, and one that has sent another chunk.
LEMMA MovedReader ==
    ASSUME NEW before \in ReaderState, NEW to \in ReadPc, NEW n \in Nat \ {0},
           NEW after, after = [before EXCEPT !.next = n, !.pc = to]
    PROVE  after \in ReaderState
<1>1. after = [[before EXCEPT !.next = n] EXCEPT !.pc = to]
  BY DEF ReaderState
<1>2. QED
  BY <1>1 DEF ReaderState

LEMMA CopiedReader ==
    ASSUME NEW before \in ReaderState, NEW to \in ReadPc, NEW n \in Nat \ {0}, NEW q \in Seq(BOOLEAN),
           NEW after, after = [before EXCEPT !.next = n, !.sent = q, !.pc = to]
    PROVE  after \in ReaderState
<1> DEFINE u == [before EXCEPT !.next = n, !.sent = q]
<1>1. u \in ReaderState
  BY DEF ReaderState
<1>2. after = [u EXCEPT !.pc = to]
  BY DEF ReaderState
<1> HIDE DEF u
<1>3. QED
  BY <1>1, <1>2 DEF ReaderState

LEMMA AppendOne ==
    ASSUME NEW S, NEW q \in Seq(S), NEW e \in S
    PROVE  /\ Append(q, e) \in Seq(S) /\ Len(Append(q, e)) = Len(q) + 1
           /\ \A i \in 1..Len(q) : Append(q, e)[i] = q[i]
           /\ Append(q, e)[Len(q) + 1] = e
OBVIOUS

LEMMA NoReadType == NoRead \in ReaderState /\ NoRead.sent = <<>>
<1>1. IdleUpload.m \in Manifests
  BY ContentAssumption DEF IdleUpload
<1>2. QED
  BY <1>1 DEF NoRead, ReaderState, ReadPc

LEMMA VerifyReader ==
    ASSUME VerifyInv, NEW r \in Readers, ReaderStep(r)
    PROVE  \E s \in ReaderState : rd' = [rd EXCEPT ![r] = s] /\ Verified(s)
<1> USE DEF VerifyInv
<1>0. rd[r] \in ReaderState /\ Verified(rd[r])
  BY DEF ReadersOK, VerifiedSoFar, Verified
<1>1. ASSUME NEW m \in Manifests, OpenManifest(r, m)
      PROVE  \E s \in ReaderState : rd' = [rd EXCEPT ![r] = s] /\ Verified(s)
  <2> DEFINE k == m \in Owed /\ HasBytes(m)
             pc == IF Stored(m) THEN "stat" ELSE "refused"
             s == [NoRead EXCEPT !.pc = pc, !.m = m, !.kept = k]
  <2>1. k \in BOOLEAN /\ pc \in {"stat", "refused"}
    BY DEF Owed, HasBytes
  <2>2. rd' = [rd EXCEPT ![r] = s]
    BY <1>1 DEF OpenManifest
  <2> HIDE DEF k, pc
  <2>3. s \in ReaderState /\ s.pc = pc /\ s.sent = <<>>
    BY <2>1, NoReadType DEF ReaderState, ReadPc
  <2>4. Verified(s)
    BY <2>1, <2>3 DEF Verified
  <2> HIDE DEF s
  <2>5. QED
    BY <2>2, <2>3, <2>4
<1>2. ASSUME NEW pc \in ReadPc, ReadGoto(r, pc), rd[r].pc # "cut",
             pc = "strict" => rd[r].m \in Small, pc \in {"stream", "cut"} => rd[r].m \notin Small
      PROVE  \E s \in ReaderState : rd' = [rd EXCEPT ![r] = s] /\ Verified(s)
  <2> DEFINE s == [rd[r] EXCEPT !.pc = pc]
  <2>1. s \in ReaderState /\ s.pc = pc /\ s.m = rd[r].m /\ s.sent = rd[r].sent
    BY <1>0 DEF ReaderState
  <2>2. Verified(s)
    BY <1>0, <1>2, <2>1 DEF Verified
  <2>3. rd' = [rd EXCEPT ![r] = s]
    BY <1>2 DEF ReadGoto, ReadersOK
  <2>4. QED
    BY <2>1, <2>2, <2>3
<1>3. ASSUME Preflight(r)
      PROVE  \E s \in ReaderState : rd' = [rd EXCEPT ![r] = s] /\ Verified(s)
  <2>1. CASE AtEnd(r)
    <3> DEFINE pc == IF rd[r].m \in Small THEN "strict" ELSE "stream"
               s == [rd[r] EXCEPT !.next = 1, !.pc = pc]
    <3>1. rd' = [rd EXCEPT ![r] = s]
      BY <1>3, <2>1 DEF Preflight, ReadersOK
    <3>2. pc \in {"strict", "stream"} /\ (pc = "strict" <=> rd[r].m \in Small)
      OBVIOUS
    <3> HIDE DEF pc
    <3>3. s \in ReaderState /\ s.pc = pc /\ s.m = rd[r].m /\ s.sent = rd[r].sent
      <4>1. pc \in ReadPc /\ 1 \in Nat \ {0}
        BY <3>2 DEF ReadPc
      <4>2. s = [rd[r] EXCEPT !.next = 1, !.pc = pc]
        OBVIOUS
      <4> HIDE DEF s
      <4>3. s \in ReaderState
        BY <1>0, <4>1, <4>2, MovedReader
      <4>4. QED
        BY <1>0, <4>2, <4>3 DEF ReaderState
    <3>4. Verified(s)
      BY <1>0, <1>3, <3>2, <3>3 DEF Verified, Preflight
    <3>5. QED
      BY <3>1, <3>3, <3>4
  <2>2. CASE ~AtEnd(r) /\ file[ReadChunk(r)].stored
    <3> DEFINE s == [rd[r] EXCEPT !.next = rd[r].next + 1]
    <3>1. rd' = [rd EXCEPT ![r] = s]
      BY <1>3, <2>2 DEF Preflight, ReadersOK
    <3>2. s \in ReaderState /\ s.pc = rd[r].pc /\ s.m = rd[r].m /\ s.sent = rd[r].sent
      BY <1>0 DEF ReaderState
    <3>3. Verified(s)
      BY <1>0, <3>2 DEF Verified
    <3>4. QED
      BY <3>1, <3>2, <3>3
  <2>3. CASE ~AtEnd(r) /\ ~file[ReadChunk(r)].stored
    BY <1>2, <1>3, <2>3 DEF Preflight, ReadPc
  <2>4. QED
    BY <2>1, <2>2, <2>3
<1>4. ASSUME Copy(r)
      PROVE  \E s \in ReaderState : rd' = [rd EXCEPT ![r] = s] /\ Verified(s)
  <2>1. rd[r].pc \in {"strict", "stream"}
    BY <1>4 DEF Copy
  <2>2. CASE ~file[ReadChunk(r)].stored \/ (ReadChunk(r) \in rotten /\ rd[r].pc = "strict")
    <3>1. ReadGoto(r, "refused") \/ (rd[r].pc = "stream" /\ ReadGoto(r, "cut"))
      BY <1>4, <2>1, <2>2 DEF Copy
    <3>2. rd[r].pc = "stream" => rd[r].m \notin Small
      BY <1>0 DEF Verified
    <3>3. QED
      BY <1>2, <2>1, <3>1, <3>2 DEF ReadPc
  <2>3. CASE file[ReadChunk(r)].stored /\ ~(ReadChunk(r) \in rotten /\ rd[r].pc = "strict")
    <3> DEFINE bad == ReadChunk(r) \in rotten
               pc == IF bad THEN "cut" ELSE rd[r].pc
               s == [rd[r] EXCEPT !.next = rd[r].next + 1, !.sent = Append(rd[r].sent, bad), !.pc = pc]
    <3>1. rd' = [rd EXCEPT ![r] = s]
      BY <1>4, <2>3 DEF Copy, ReadersOK
    <3>2. bad \in BOOLEAN /\ (bad => rd[r].pc = "stream" /\ pc = "cut") /\ (~bad => pc = rd[r].pc)
      BY <2>1, <2>3
    <3> HIDE DEF bad, pc
    <3>3. rd[r].sent \in Seq(BOOLEAN) /\ rd[r].next \in Nat \ {0} /\ pc \in ReadPc
      BY <1>0, <3>2 DEF ReaderState, ReadPc
    <3>4. Append(rd[r].sent, bad) \in Seq(BOOLEAN)
      BY <3>2, <3>3, AppendOne, Zenon
    <3>5. /\ s \in ReaderState /\ s.pc = pc /\ s.m = rd[r].m
          /\ s.sent = Append(rd[r].sent, bad)
      <4>1. rd[r].next + 1 \in Nat \ {0}
        BY <3>3
      <4>2. s = [rd[r] EXCEPT !.next = rd[r].next + 1, !.sent = Append(rd[r].sent, bad), !.pc = pc]
        OBVIOUS
      <4> HIDE DEF s
      <4>3. s \in ReaderState
        BY <1>0, <3>3, <3>4, <4>1, <4>2, CopiedReader
      <4>4. QED
        BY <1>0, <4>2, <4>3 DEF ReaderState
    <3>6. Verified(s)
      <4>1. \A i \in DOMAIN rd[r].sent : ~rd[r].sent[i]
        BY <1>0, <2>1 DEF Verified
      <4>2. ASSUME NEW i \in DOMAIN s.sent, s.sent[i] PROVE i = Len(s.sent) /\ bad
        <5>1. Len(rd[r].sent) \in Nat /\ Len(s.sent) = Len(rd[r].sent) + 1
              /\ i \in 1..(Len(rd[r].sent) + 1) /\ DOMAIN rd[r].sent = 1..Len(rd[r].sent)
          BY <3>2, <3>3, <3>5
        <5>2. CASE i \in 1..Len(rd[r].sent)
          <6>1. s.sent[i] = rd[r].sent[i]
            BY <3>2, <3>3, <3>5, <5>2
          <6>2. QED
            BY <4>1, <4>2, <5>1, <5>2, <6>1
        <5>3. CASE i = Len(rd[r].sent) + 1
          <6>1. s.sent[i] = bad
            BY <3>2, <3>3, <3>5, <5>3
          <6>2. QED
            BY <4>2, <5>1, <5>3, <6>1
        <5>4. QED
          BY <5>1, <5>2, <5>3
      <4>3. /\ s.pc = "strict" => s.m \in Small
            /\ s.pc \in {"stream", "cut"} => s.m \notin Small
        BY <1>0, <2>1, <3>2, <3>5 DEF Verified
      <4>4. QED
        BY <3>2, <3>5, <4>2, <4>3 DEF Verified
    <3>7. QED
      BY <3>1, <3>5, <3>6
  <2>4. QED
    BY <2>2, <2>3
<1>5. ASSUME FinishRead(r)
      PROVE  \E s \in ReaderState : rd' = [rd EXCEPT ![r] = s] /\ Verified(s)
  BY <1>2, <1>5 DEF FinishRead, ReadPc
<1>6. QED
  BY <1>1, <1>3, <1>4, <1>5 DEF ReaderStep

LEMMA VerifyStep == VerifyInv /\ [ReadNext]_readVars => VerifyInv'
<1> SUFFICES ASSUME VerifyInv, [ReadNext]_readVars PROVE VerifyInv'
  OBVIOUS
<1>1. CASE StoreStep
  <2>1. ASSUME NEW r \in Readers
        PROVE  /\ rd'[r] \in ReaderState
               /\ rd'[r].pc = rd[r].pc /\ rd'[r].m = rd[r].m /\ rd'[r].sent = rd[r].sent
    <3> DEFINE k == rd[r].kept /\ rd[r].m \in Owed'
    <3>1. rd[r] \in ReaderState
      BY DEF VerifyInv, ReadersOK
    <3>2. k \in BOOLEAN
      OBVIOUS
    <3>3. rd'[r] = [rd[r] EXCEPT !.kept = k]
      BY <1>1 DEF StoreStep
    <3> HIDE DEF k
    <3>4. QED
      BY <3>1, <3>2, <3>3 DEF ReaderState
  <2>2. rd' \in [Readers -> ReaderState]
    BY <1>1, <2>1 DEF StoreStep
  <2>3. QED
    BY <2>1, <2>2 DEF VerifyInv, ReadersOK, VerifiedSoFar
<1>2. ASSUME NEW r \in Readers, ReaderStep(r) PROVE VerifyInv'
  <2>1. PICK s \in ReaderState : rd' = [rd EXCEPT ![r] = s] /\ Verified(s)
    BY <1>2, VerifyReader
  <2>2. ReadersOK' /\ rd'[r] = s /\ \A q \in Readers \ {r} : rd'[q] = rd[q]
    BY <2>1, OtherReaders DEF VerifyInv
  <2>3. QED
    BY <2>1, <2>2 DEF VerifyInv, VerifiedSoFar, Verified
<1>3. CASE (\E c \in Chunks : Rot(c)) \/ UNCHANGED readVars
  BY <1>3 DEF Rot, readVars, VerifyInv, ReadersOK, VerifiedSoFar
<1>4. QED
  BY <1>1, <1>2, <1>3 DEF ReadNext

LEMMA VerifyInit == ReadInit => VerifyInv
<1> SUFFICES ASSUME ReadInit PROVE VerifyInv
  OBVIOUS
<1>1. rd = [r \in Readers |-> NoRead]
  BY DEF ReadInit
<1>2. NoRead.pc = "new" /\ DOMAIN NoRead.sent = {}
  BY NoReadType DEF NoRead
<1>3. QED
  BY <1>1, <1>2, NoReadType DEF VerifyInv, ReadersOK, VerifiedSoFar

\* No unverified byte of a strict answer leaves the store, and a streamed answer ends with its
\* first bad chunk, whatever the store does beside the reader and wherever files go bad
\* (openObjectStrict, openObjectStream).
THEOREM BadBytesNoticed == ReadSpec => []BadBytesStop
<1>1. ReadInit => VerifyInv
  BY VerifyInit
<1>2. VerifyInv /\ [ReadNext]_readVars => VerifyInv'
  BY VerifyStep
<1>3. VerifyInv => BadBytesStop
  BY DEF VerifyInv, VerifiedSoFar, BadBytesStop, StrictReadsVerified, StreamStopsAtBadChunk
<1>4. QED
  BY <1>1, <1>2, <1>3, PTL DEF ReadSpec

-----------------------------------------------------------------------------
(* A read of an object that is owed to its reader *)

\* The claim of a reader: its manifest still owes the bytes, and they are all there.
KeptInv ==
    /\ rots \in Nat /\ (rots = 0 => rotten = {})
    /\ \A r \in Readers : rd[r].kept => rd[r].m \in Owed /\ HasBytes(rd[r].m)
    /\ OwedReadsServed

ServeInv == AgedInv /\ ReadersOK /\ KeptInv

\* No step of the store takes a chunk of an object that owes its readers the bytes.
LEMMA BytesStay ==
    ASSUME AgedInv, [Next]_vars, NEW m \in Manifests, m \in Owed, HasBytes(m)
    PROVE  HasBytes(m)'
<1>1. SUFFICES ASSUME NEW c \in ChunksOf(m) PROVE chunk'[c].stored /\ file'[c].stored
  BY DEF HasBytes, ChunksOf
<1>2. c \in Chunks /\ chunk[c].stored /\ file[c].stored
  BY ContentChunks DEF HasBytes
<1>3. ~(~Referenced(c) /\ RetiredBefore(c, now))
  BY DEF Owed, Referenced, RetiredBefore
<1>4. QED
  BY <1>2, <1>3, Removal

LEMMA ReadChunkType ==
    ASSUME ReadersOK, NEW r \in Readers, ~AtEnd(r)
    PROVE  ReadChunk(r) \in ChunksOf(rd[r].m)
<1>1. rd[r].m \in Manifests /\ rd[r].next \in Nat \ {0}
  BY DEF ReadersOK, ReaderState
<1>2. rd[r].next \in 1..Len(Content[rd[r].m])
  BY <1>1, ContentChunks DEF AtEnd
<1>3. QED
  BY <1>1, <1>2, ContentChunks DEF ReadChunk, ChunksOf

\* One step of a reader keeps its own claim, and does not end in a refusal or a cut while it
\* has one.
LEMMA ServeReader ==
    ASSUME ServeInv, NEW r \in Readers, ReaderStep(r)
    PROVE  /\ rd'[r].kept => rd'[r].m \in Owed /\ HasBytes(rd'[r].m)
           /\ rd'[r].kept /\ rots = 0 => rd'[r].pc \notin {"refused", "cut"}
<1> USE DEF ServeInv
<1>1. ASSUME NEW m \in Manifests, OpenManifest(r, m)
      PROVE  /\ rd'[r].kept => rd'[r].m \in Owed /\ HasBytes(rd'[r].m)
             /\ rd'[r].kept /\ rots = 0 => rd'[r].pc \notin {"refused", "cut"}
  <2>1. /\ rd'[r].m = m /\ (rd'[r].kept => m \in Owed /\ HasBytes(m))
        /\ rd'[r].pc = IF Stored(m) THEN "stat" ELSE "refused"
    BY <1>1 DEF OpenManifest, ReadersOK, NoRead
  <2>2. m \in Owed => Stored(m)
    BY DEF Owed, IsActive, Retired, Stored
  <2>3. QED
    BY <2>1, <2>2
<1>2. ASSUME rd[r].kept PROVE ~AtEnd(r) => file[ReadChunk(r)].stored
  BY <1>2, ReadChunkType DEF KeptInv, HasBytes
<1>3. CASE Preflight(r)
  <2>1. rd'[r].m = rd[r].m /\ rd'[r].kept = rd[r].kept
    BY <1>3 DEF Preflight, ReadGoto, ReadersOK, ReaderState
  <2>2. rd'[r].pc \in {"strict", "stream", "stat"} \/ (~AtEnd(r) /\ ~file[ReadChunk(r)].stored)
    BY <1>3 DEF Preflight, ReadersOK, ReaderState
  <2>3. QED
    BY <1>2, <2>1, <2>2 DEF KeptInv
<1>4. CASE Copy(r)
  <2>1. rd'[r].m = rd[r].m /\ rd'[r].kept = rd[r].kept
    BY <1>4 DEF Copy, ReadGoto, ReadersOK, ReaderState
  <2>2. \/ rd'[r].pc \in {"strict", "stream"}
        \/ ~AtEnd(r) /\ ~file[ReadChunk(r)].stored
        \/ ReadChunk(r) \in rotten
    BY <1>4 DEF Copy, ReadersOK, ReaderState
  <2>3. QED
    BY <1>2, <2>1, <2>2 DEF KeptInv
<1>5. CASE FinishRead(r)
  BY <1>5 DEF FinishRead, ReadGoto, ReadersOK, ReaderState, KeptInv
<1>6. QED
  BY <1>1, <1>3, <1>4, <1>5 DEF ReaderStep

LEMMA ServeInit == ReadInit /\ HandlerStore = GcStore => ServeInv
<1> SUFFICES ASSUME ReadInit, HandlerStore = GcStore PROVE ServeInv
  OBVIOUS
<1>1. AgedInv /\ ReadersOK
  BY AgedInit, VerifyInit DEF ReadInit, VerifyInv
<1>2. KeptInv
  BY DEF ReadInit, NoRead, KeptInv, OwedReadsServed
<1>3. QED
  BY <1>1, <1>2 DEF ServeInv

LEMMA ServeStep ==
    ASSUME HandlerStore = GcStore
    PROVE  ServeInv /\ VerifyInv /\ [ReadNext]_readVars => ServeInv'
<1> SUFFICES ASSUME ServeInv, VerifyInv, [ReadNext]_readVars PROVE ServeInv'
  OBVIOUS
<1>1. ReadersOK'
  BY VerifyStep DEF VerifyInv
<1>2. AgedInv'
  BY AgedStep DEF ServeInv, ReadNext, StoreStep, ReaderStep, OpenManifest, Preflight, Copy,
     FinishRead, Rot, readVars
<1>3. KeptInv'
  <2>1. CASE StoreStep
    <3>1. ASSUME NEW r \in Readers, rd'[r].kept
          PROVE  /\ rd[r].kept /\ rd'[r].m = rd[r].m /\ rd'[r].pc = rd[r].pc
                 /\ rd[r].m \in Owed'
      BY <2>1, <3>1 DEF StoreStep, ServeInv, ReadersOK, ReaderState
    <3>2. ASSUME NEW r \in Readers, rd[r].kept PROVE HasBytes(rd[r].m)'
      <4> DEFINE m == rd[r].m
      <4>1. m \in Manifests /\ m \in Owed /\ HasBytes(m)
        BY <3>2 DEF ServeInv, ReadersOK, ReaderState, KeptInv
      <4>2. \A c \in ChunksOf(m) : chunk'[c].stored /\ file'[c].stored
        BY <2>1, <4>1, BytesStay DEF StoreStep, ServeInv, HasBytes, ChunksOf
      <4>3. rd'[r].m = rd[r].m
        BY <2>1 DEF StoreStep, ServeInv, ReadersOK, ReaderState
      <4>4. QED
        BY <4>2, <4>3 DEF HasBytes, ChunksOf
    <3>3. rots' = rots /\ (rotten = {} => rotten' = {})
      BY <2>1 DEF StoreStep
    <3>4. QED
      BY <3>1, <3>2, <3>3 DEF ServeInv, KeptInv, OwedReadsServed
  <2>2. ASSUME NEW r \in Readers, ReaderStep(r) PROVE KeptInv'
    <3>1. UNCHANGED <<vars, rotten, rots>>
      BY <2>2 DEF ReaderStep, OpenManifest, Preflight, Copy, FinishRead
    <3>2. \A q \in Readers \ {r} : rd'[q] = rd[q]
      <4>1. PICK s \in ReaderState : rd' = [rd EXCEPT ![r] = s]
        BY <2>2, VerifyReader
      <4>2. QED
        BY <4>1
    <3>3. \A m : (m \in Owed <=> m \in Owed') /\ (HasBytes(m) <=> HasBytes(m)')
      BY <3>1 DEF vars, disk, Owed, IsActive, Retired, HasBytes, ChunksOf
    <3>4. QED
      BY <2>2, <3>1, <3>2, <3>3, ServeReader DEF ServeInv, KeptInv, OwedReadsServed
  <2>3. CASE (\E c \in Chunks : Rot(c)) \/ UNCHANGED readVars
    BY <2>3 DEF Rot, readVars, vars, disk, ServeInv, KeptInv, OwedReadsServed, Owed, IsActive,
       Retired, HasBytes
  <2>4. QED
    BY <2>1, <2>2, <2>3 DEF ReadNext
<1>4. QED
  BY <1>1, <1>2, <1>3 DEF ServeInv

\* With one Store, a reader without a lock is served in full as long as its object owes it the
\* bytes: the pre-flight check stays true, whatever the collector removes meanwhile
\* (OpenObject, openObjectStrict, openObjectStream against CollectGarbage).
THEOREM OwedReadsAnswered ==
    ASSUME HandlerStore = GcStore
    PROVE  ReadSpec => []OwedReadsServed
<1>1. ReadInit => ServeInv /\ VerifyInv
  BY ServeInit, VerifyInit
<1>2. ServeInv /\ VerifyInv /\ [ReadNext]_readVars => (ServeInv /\ VerifyInv)'
  BY ServeStep, VerifyStep
<1>3. ServeInv => OwedReadsServed
  BY DEF ServeInv, KeptInv
<1>4. QED
  BY <1>1, <1>2, <1>3, PTL DEF ReadSpec
=============================================================================
