----------------------------- MODULE VaultStore -----------------------------
(***************************************************************************)
(* The content-addressed store of Vault Core (internal/cas): deduplicating *)
(* uploads, manifest retirement and the concurrent garbage collector, over *)
(* one Badger database and one chunk directory.                            *)
(*                                                                         *)
(* A cas.Store value owns a lifecycle lock and a registry of active        *)
(* uploads, in memory.  The process may hold several of them on the same   *)
(* database: HandlerStore serves the requests, GcStore runs the collector. *)
(* Every Badger transaction is one atomic step (Badger is serializable and *)
(* a conflicting transaction fails); every file system call is one step.   *)
(***************************************************************************)
EXTENDS Naturals, Sequences, FiniteSets

CONSTANTS
    Chunks,        \* chunk hashes
    Manifests,     \* manifest ids (file hashes)
    Content,       \* Content[m]: the chunk hashes of file m, in file order
    Uploads,       \* slots for uploads and their session records
    Stores,        \* the cas.Store values of the process
    HandlerStore,  \* the Store of the UDS handlers
    GcStore,       \* the Store of the collector goroutine
    Grace,         \* the collector's grace period
    SessionTTL,    \* lifetime of an upload session record
    MaxTime,       \* bound: the last instant modelled
    MaxCrashes     \* bound: restarts of the process

ASSUME ContentAssumption == /\ Manifests # {}
                            /\ Content \in [Manifests -> Seq(Chunks) \ {<<>>}]
ASSUME StoreAssumption   == HandlerStore \in Stores /\ GcStore \in Stores
ASSUME TimeAssumption    == /\ Grace \in Nat /\ SessionTTL \in Nat
                            /\ MaxTime \in Nat /\ MaxCrashes \in Nat

VARIABLES
    now,       \* the wall clock
    manifest,  \* Badger: manifest records
    chunk,     \* Badger: chunk records
    session,   \* Badger: upload session records
    file,      \* the chunk directory
    mu,        \* lifecycleMu of each Store
    active,    \* activeUploads of each Store
    up,        \* the goroutine running ProcessUpload for each upload
    gc,        \* the goroutine running CollectGarbage
    hollow,    \* history: manifests retained after their bytes were reclaimed
    crashes    \* bound counter

disk == <<manifest, chunk, session, file>>
memory == <<mu, active, up, gc>>
vars == <<now, disk, memory, hollow, crashes>>

-----------------------------------------------------------------------------
(* Values *)

ChunksOf(m) == {Content[m][i] : i \in DOMAIN Content[m]}
Multiplicity(m, c) == Cardinality({i \in DOMAIN Content[m] : Content[m][i] = c})

NoManifest == [state |-> "absent", retiredAt |-> 0]
Active     == [state |-> "active", retiredAt |-> 0]
NoChunk    == [stored |-> FALSE, refs |-> 0, created |-> 0]
NoFile     == [stored |-> FALSE, mtime |-> 0]
NoSession  == [state |-> "absent", expires |-> 0]
NewUpload(m) == [pc |-> "split", m |-> m, next |-> 1, expires |-> now + SessionTTL]
IdleUpload == [pc |-> "new", m |-> CHOOSE m \in Manifests : TRUE, next |-> 1, expires |-> 0]
Ended(pc) == [IdleUpload EXCEPT !.pc = pc]
NoSweep    == [pc |-> "idle", start |-> 0, pinned |-> {}, spared |-> {},
               victims |-> {}, retired |-> {}, unlinked |-> {}, orphans |-> {}]

Time == 0..MaxTime
Stored(m)  == manifest[m].state # "absent"
Retired(m) == manifest[m].state = "retired"
IsActive(m) == manifest[m].state = "active"
HasBytes(m) == \A c \in ChunksOf(m) : chunk[c].stored /\ file[c].stored

\* t.Before(olderThan) with olderThan = start - Grace, kept free of negative numbers
Before(t, start) == t + Grace < start

(* The lifecycle read/write lock. *)
CanRLock(s) == ~mu[s].writer
CanLock(s)  == ~mu[s].writer /\ mu[s].readers = {}
RLock(s, u)   == [mu EXCEPT ![s].readers = @ \cup {u}]
RUnlock(s, u) == [mu EXCEPT ![s].readers = @ \ {u}]

-----------------------------------------------------------------------------
Init ==
    /\ now = 0
    /\ manifest = [m \in Manifests |-> NoManifest]
    /\ chunk = [c \in Chunks |-> NoChunk]
    /\ session = [u \in Uploads |-> NoSession]
    /\ file = [c \in Chunks |-> NoFile]
    /\ mu = [s \in Stores |-> [writer |-> FALSE, readers |-> {}]]
    /\ active = [s \in Stores |-> [u \in Uploads |-> {}]]
    /\ up = [u \in Uploads |-> IdleUpload]
    /\ gc = NoSweep
    /\ hollow = {}
    /\ crashes = 0

-----------------------------------------------------------------------------
(* ProcessUpload *)

\* putUploadSession writes the whole record from memory, also over a deleted one.
PutSession(u, state, expires) ==
    session' = [session EXCEPT ![u] = [state |-> state, expires |-> expires]]

Goto(u, pc) == up' = [up EXCEPT ![u].pc = pc]

\* createUploadSession and registerActiveUpload, under a new id: a slot is free when nothing
\* is left of the upload it held.
BeginUpload(u, m) ==
    /\ up[u].pc \in {"new", "done", "failed"}
    /\ session[u].state = "absent"
    /\ PutSession(u, "in_progress", now + SessionTTL)
    /\ up' = [up EXCEPT ![u] = NewUpload(m)]
    /\ UNCHANGED <<now, manifest, chunk, file, mu, active, gc, hollow, crashes>>

NextChunk(u) == Content[up[u].m][up[u].next]
AllTouched(u) == up[u].next > Len(Content[up[u].m])

\* touchChunk takes the read lock and looks the chunk record up.
TouchLookup(u) ==
    /\ up[u].pc = "split" /\ ~AllTouched(u)
    /\ CanRLock(HandlerStore)
    /\ mu' = RLock(HandlerStore, u)
    /\ Goto(u, IF chunk[NextChunk(u)].stored THEN "reuse" ELSE "persist")
    /\ UNCHANGED <<now, disk, active, gc, hollow, crashes>>

\* writeChunkIfMissing: link a new file unless one is there; an old file keeps its mtime.
WriteIfMissing(c) ==
    file' = [file EXCEPT ![c] = IF @.stored THEN @ ELSE [stored |-> TRUE, mtime |-> now]]

\* markActiveUploadChunk, the read unlock, and on to the next chunk.
EndTouch(u) ==
    /\ active' = [active EXCEPT ![HandlerStore][u] = @ \cup {NextChunk(u)}]
    /\ mu' = RUnlock(HandlerStore, u)
    /\ up' = [up EXCEPT ![u].pc = "split", ![u].next = @ + 1]

\* touchChunk, record found: re-persist the file if it is missing.
TouchReuse(u) ==
    /\ up[u].pc = "reuse"
    /\ WriteIfMissing(NextChunk(u))
    /\ EndTouch(u)
    /\ UNCHANGED <<now, manifest, chunk, session, gc, hollow, crashes>>

\* touchChunk, record not found: first the file...
TouchPersist(u) ==
    /\ up[u].pc = "persist"
    /\ WriteIfMissing(NextChunk(u))
    /\ Goto(u, "record")
    /\ UNCHANGED <<now, manifest, chunk, session, mu, active, gc, hollow, crashes>>

\* ... then the record, unless another upload has inserted it in the meantime.
TouchRecord(u) ==
    /\ up[u].pc = "record"
    /\ chunk' = [chunk EXCEPT ![NextChunk(u)] =
                     IF @.stored THEN @ ELSE [stored |-> TRUE, refs |-> 0, created |-> now]]
    /\ EndTouch(u)
    /\ UNCHANGED <<now, manifest, session, file, gc, hollow, crashes>>

\* Faulty variant: the counters are raised and the manifest is not written.
CommitNewWithoutManifest(u) ==
    LET m == up[u].m IN
    /\ ~Stored(m)
    /\ \A c \in ChunksOf(m) : chunk[c].stored
    /\ chunk' = [c \in Chunks |-> IF c \in ChunksOf(m) THEN [chunk[c] EXCEPT !.refs = @ + 1]
                                                        ELSE chunk[c]]
    /\ UNCHANGED manifest

\* commitManifestAndChunkRefs of a manifest that is not stored yet.
CommitNew(u) ==
    LET m == up[u].m IN
    /\ ~Stored(m)
    /\ \A c \in ChunksOf(m) : chunk[c].stored
    /\ chunk' = [c \in Chunks |->
                    IF c \in ChunksOf(m)
                      THEN [chunk[c] EXCEPT !.refs = @ + Multiplicity(m, c)]
                      ELSE chunk[c]]
    /\ manifest' = [manifest EXCEPT ![m] = Active]

\* commitManifestAndChunkRefs of a stored manifest: a retired one is reactivated.
CommitExisting(u) ==
    /\ Stored(up[u].m)
    /\ manifest' = [manifest EXCEPT ![up[u].m] = Active]
    /\ UNCHANGED chunk

Commit(u) ==
    /\ up[u].pc = "split" /\ AllTouched(u)
    /\ CanRLock(HandlerStore)
    /\ CommitNew(u) \/ CommitExisting(u)
    /\ hollow' = hollow \ {up[u].m}
    /\ Goto(u, "commit_session")
    /\ UNCHANGED <<now, session, file, mu, active, gc, crashes>>

MarkCommitted(u) ==
    /\ up[u].pc = "commit_session"
    /\ PutSession(u, "committed", up[u].expires)
    /\ Goto(u, "unregister_ok")
    /\ UNCHANGED <<now, manifest, chunk, file, mu, active, gc, hollow, crashes>>

\* A broken stream, an empty file, an I/O error, a transaction conflict, missing chunk
\* metadata at the commit, or a cancelled request ends the upload at any of its steps.
FailUpload(u) ==
    /\ up[u].pc \in {"split", "reuse", "persist", "record", "commit_session"}
    /\ mu' = RUnlock(HandlerStore, u)
    /\ Goto(u, "fail_session")
    /\ UNCHANGED <<now, disk, active, gc, hollow, crashes>>

\* The deferred update of the session record, which a cancelled context skips.
MarkFailed(u) ==
    /\ up[u].pc = "fail_session"
    /\ PutSession(u, "failed", up[u].expires) \/ UNCHANGED session
    /\ Goto(u, "unregister_failed")
    /\ UNCHANGED <<now, manifest, chunk, file, mu, active, gc, hollow, crashes>>

\* unregisterActiveUpload, deferred, runs last and needs the read lock.
Unregister(u) ==
    /\ up[u].pc \in {"unregister_ok", "unregister_failed"}
    /\ CanRLock(HandlerStore)
    /\ active' = [active EXCEPT ![HandlerStore][u] = {}]
    /\ up' = [up EXCEPT ![u] = Ended(IF @.pc = "unregister_ok" THEN "done" ELSE "failed")]
    /\ UNCHANGED <<now, disk, mu, gc, hollow, crashes>>

UploadStep(u) ==
    \/ TouchLookup(u) \/ TouchReuse(u) \/ TouchPersist(u) \/ TouchRecord(u)
    \/ Commit(u) \/ MarkCommitted(u) \/ MarkFailed(u) \/ Unregister(u)

-----------------------------------------------------------------------------
(* Manifest lifecycle: updateManifestLifecycle, a no-op in the requested state. *)

RetireManifest(m) ==
    /\ IsActive(m)
    /\ CanRLock(HandlerStore)
    /\ manifest' = [manifest EXCEPT ![m] = [state |-> "retired", retiredAt |-> now]]
    /\ hollow' = hollow \ {m}
    /\ UNCHANGED <<now, chunk, session, file, memory, crashes>>

\* Nothing checks that the chunks are still there.
RetainManifest(m) ==
    /\ Retired(m)
    /\ CanRLock(HandlerStore)
    /\ manifest' = [manifest EXCEPT ![m] = Active]
    /\ hollow' = IF HasBytes(m) THEN hollow ELSE hollow \cup {m}
    /\ UNCHANGED <<now, chunk, session, file, memory, crashes>>

CleanupExpiredUploadSessions ==
    /\ \E u \in Uploads : session[u].state # "absent" /\ session[u].expires <= now
    /\ session' = [u \in Uploads |-> IF session[u].expires <= now THEN NoSession
                                                                  ELSE session[u]]
    /\ UNCHANGED <<now, manifest, chunk, file, memory, hollow, crashes>>

-----------------------------------------------------------------------------
(* CollectGarbage *)

\* The ticker fires and the goroutine computes olderThan = now - Grace.
GcStart ==
    /\ gc.pc = "idle"
    /\ gc' = [NoSweep EXCEPT !.pc = "lock", !.start = now]
    /\ UNCHANGED <<now, disk, mu, active, up, hollow, crashes>>

\* The write lock, and snapshotActiveChunkHashes of the collector's own Store.
GcLock ==
    /\ gc.pc = "lock"
    /\ CanLock(GcStore)
    /\ mu' = [mu EXCEPT ![GcStore].writer = TRUE]
    /\ gc' = [gc EXCEPT !.pc = "scan", !.pinned = UNION {active[GcStore][u] : u \in Uploads}]
    /\ UNCHANGED <<now, disk, active, up, hollow, crashes>>

Referenced(c) == \E m \in Manifests : IsActive(m) /\ c \in ChunksOf(m)
InRetired(c)  == \E m \in Manifests : Retired(m) /\ c \in ChunksOf(m)

\* retiredChunkAt[c], the latest retirement, is before olderThan.
RetiredBefore(c, start) ==
    \A m \in Manifests : Retired(m) /\ c \in ChunksOf(m) => Before(manifest[m].retiredAt, start)

\* Faulty variants of the sweep's condition: the registry of active uploads is ignored;
\* the age of the record decides alone; the retirement's age is ignored; the reference
\* count, which retirement never lowers, decides alone.
VictimIgnoringRegistry(c) ==
    /\ chunk[c].stored /\ ~Referenced(c)
    /\ IF InRetired(c) THEN RetiredBefore(c, gc.start)
                       ELSE chunk[c].refs = 0 /\ Before(chunk[c].created, gc.start)

VictimByAge(c) ==
    /\ chunk[c].stored /\ c \notin gc.pinned
    /\ Before(chunk[c].created, gc.start)

VictimWithoutGrace(c) ==
    /\ chunk[c].stored /\ ~Referenced(c) /\ c \notin gc.pinned
    /\ InRetired(c) \/ chunk[c].refs = 0

VictimByRefCount(c) ==
    /\ chunk[c].stored /\ ~Referenced(c) /\ c \notin gc.pinned
    /\ chunk[c].refs = 0 /\ Before(chunk[c].created, gc.start)

\* The conditions under which the sweep of the chunk records picks c.
Victim(c) ==
    /\ chunk[c].stored
    /\ ~Referenced(c)
    /\ c \notin gc.pinned
    /\ IF InRetired(c) THEN RetiredBefore(c, gc.start)
                       ELSE chunk[c].refs = 0 /\ Before(chunk[c].created, gc.start)

\* scanGarbageCollection, the View transaction over manifests and chunk records.
\* spared holds the chunks whose files the directory walk will leave alone.
GcScan ==
    /\ gc.pc = "scan"
    /\ gc' = [gc EXCEPT !.pc = "walk", !.pinned = {},
                        !.victims = {c \in Chunks : Victim(c)},
                        !.retired = {c \in Chunks : InRetired(c)},
                        !.spared = {c \in Chunks : \/ Referenced(c)
                                                   \/ chunk[c].stored
                                                   \/ c \in gc.pinned
                                                   \/ ~RetiredBefore(c, gc.start)}]
    /\ UNCHANGED <<now, disk, mu, active, up, hollow, crashes>>

\* scanGarbageCollection, the walk over the chunk files: old files without a record.
GcWalk ==
    /\ gc.pc = "walk"
    /\ gc' = [gc EXCEPT !.pc = "sweep", !.spared = {},
                        !.orphans = {c \in Chunks \ gc.spared :
                                        /\ file[c].stored
                                        /\ Before(file[c].mtime, gc.start)}]
    /\ UNCHANGED <<now, disk, mu, active, up, hollow, crashes>>

Unlink(c) == file' = [file EXCEPT ![c] = NoFile]

\* removeChunkFile of a victim; its record follows before the next victim is taken.
GcRemoveFile(c) ==
    /\ gc.pc = "sweep" /\ c \in gc.victims /\ gc.unlinked = {}
    /\ Unlink(c)
    /\ gc' = [gc EXCEPT !.unlinked = {c}]
    /\ UNCHANGED <<now, manifest, chunk, session, mu, active, up, hollow, crashes>>

\* deleteChunkMetadata: a chunk of no retired manifest is judged again.
GcDeleteMetadata(c) ==
    /\ gc.pc = "sweep" /\ c \in gc.unlinked
    /\ chunk' = [chunk EXCEPT ![c] =
                     IF \/ c \in gc.retired
                        \/ @.refs = 0 /\ Before(@.created, gc.start)
                       THEN NoChunk ELSE @]
    /\ gc' = [gc EXCEPT !.victims = @ \ {c}, !.unlinked = {}]
    /\ UNCHANGED <<now, manifest, session, file, mu, active, up, hollow, crashes>>

\* Either removal can fail; the sweep records the error and goes on.
GcSkip(c) ==
    /\ gc.pc = "sweep" /\ c \in gc.victims /\ gc.unlinked \in {{}, {c}}
    /\ gc' = [gc EXCEPT !.victims = @ \ {c}, !.unlinked = {}]
    /\ UNCHANGED <<now, disk, mu, active, up, hollow, crashes>>

\* removeChunkFile of the physical orphans, after all the records.
GcRemoveOrphan(c) ==
    /\ gc.pc = "sweep" /\ gc.victims = {} /\ c \in gc.orphans
    /\ Unlink(c)
    /\ gc' = [gc EXCEPT !.orphans = @ \ {c}]
    /\ UNCHANGED <<now, manifest, chunk, session, mu, active, up, hollow, crashes>>

GcSkipOrphan(c) ==
    /\ gc.pc = "sweep" /\ gc.victims = {} /\ c \in gc.orphans
    /\ gc' = [gc EXCEPT !.orphans = @ \ {c}]
    /\ UNCHANGED <<now, disk, mu, active, up, hollow, crashes>>

\* Faulty variant: a failed scan returns without releasing the lock.
GcEndKeepingLock ==
    /\ \/ gc.pc = "sweep" /\ gc.victims = {} /\ gc.orphans = {}
          /\ mu' = [mu EXCEPT ![GcStore].writer = FALSE]
       \/ gc.pc \in {"scan", "walk"} /\ UNCHANGED mu
    /\ gc' = NoSweep
    /\ UNCHANGED <<now, disk, active, up, hollow, crashes>>

\* The sweep is over, or the scan failed and nothing was deleted.
GcEnd ==
    /\ \/ gc.pc = "sweep" /\ gc.victims = {} /\ gc.orphans = {}
       \/ gc.pc \in {"scan", "walk"}
    /\ mu' = [mu EXCEPT ![GcStore].writer = FALSE]
    /\ gc' = NoSweep
    /\ UNCHANGED <<now, disk, active, up, hollow, crashes>>

GcStep ==
    \/ GcStart \/ GcLock \/ GcScan \/ GcWalk \/ GcEnd
    \/ \E c \in Chunks : \/ GcRemoveFile(c) \/ GcDeleteMetadata(c) \/ GcSkip(c)
                         \/ GcRemoveOrphan(c) \/ GcSkipOrphan(c)

-----------------------------------------------------------------------------
(* Environment *)

Tick ==
    /\ now < MaxTime
    /\ now' = now + 1
    /\ UNCHANGED <<disk, memory, hollow, crashes>>

\* The process dies and restarts: the database and the files survive, the locks, the
\* registries and the goroutines do not.
Crash ==
    /\ crashes < MaxCrashes
    /\ crashes' = crashes + 1
    /\ mu' = [s \in Stores |-> [writer |-> FALSE, readers |-> {}]]
    /\ active' = [s \in Stores |-> [u \in Uploads |-> {}]]
    /\ up' = [u \in Uploads |-> IF up[u].pc \in {"new", "done"} THEN up[u] ELSE Ended("failed")]
    /\ gc' = NoSweep
    /\ UNCHANGED <<now, disk, hollow>>

Next ==
    \/ \E u \in Uploads : (\E m \in Manifests : BeginUpload(u, m)) \/ UploadStep(u) \/ FailUpload(u)
    \/ \E m \in Manifests : RetireManifest(m) \/ RetainManifest(m)
    \/ CleanupExpiredUploadSessions
    \/ GcStep
    \/ Tick
    \/ Crash

Spec == Init /\ [][Next]_vars

(* Go's RWMutex admits the waiting readers when a writer leaves, and the waiting     *)
(* writer when the readers it found leave: a goroutine that waits for the lifecycle  *)
(* lock gets it.  The collector's ticker never stops.  Scan and removal errors are   *)
(* transient: a step that is retried forever succeeds at last.                       *)
Fairness ==
    /\ \A u \in Uploads : SF_vars(UploadStep(u))
    /\ WF_vars(Tick) /\ WF_vars(GcStart) /\ SF_vars(GcLock)
    /\ SF_vars(GcScan) /\ SF_vars(GcWalk) /\ WF_vars(GcEnd)
    /\ \A c \in Chunks : /\ SF_vars(GcRemoveFile(c))
                         /\ SF_vars(GcDeleteMetadata(c))
                         /\ SF_vars(GcRemoveOrphan(c))

FairSpec == Spec /\ Fairness

-----------------------------------------------------------------------------
(* Properties *)

UploadPc == {"new", "split", "reuse", "persist", "record", "commit_session", "fail_session",
             "unregister_ok", "unregister_failed", "done", "failed"}

ManifestRecord == [state : {"absent", "active", "retired"}, retiredAt : Nat]
ChunkRecord    == [stored : BOOLEAN, refs : Nat, created : Nat]
SessionRecord  == [state : {"absent", "in_progress", "committed", "failed"}, expires : Nat]
FileRecord     == [stored : BOOLEAN, mtime : Nat]
LifecycleMu    == [writer : BOOLEAN, readers : SUBSET Uploads]
UploadState    == [pc : UploadPc, m : Manifests, next : Nat \ {0}, expires : Nat]
SweepState     == [pc : {"idle", "lock", "scan", "walk", "sweep"}, start : Nat,
                   pinned : SUBSET Chunks, spared : SUBSET Chunks, victims : SUBSET Chunks,
                   retired : SUBSET Chunks, unlinked : SUBSET Chunks, orphans : SUBSET Chunks]

TypeOK ==
    /\ now \in Nat
    /\ manifest \in [Manifests -> ManifestRecord]
    /\ chunk \in [Chunks -> ChunkRecord]
    /\ session \in [Uploads -> SessionRecord]
    /\ file \in [Chunks -> FileRecord]
    /\ mu \in [Stores -> LifecycleMu]
    /\ active \in [Stores -> [Uploads -> SUBSET Chunks]]
    /\ up \in [Uploads -> UploadState]
    /\ gc \in SweepState
    /\ hollow \subseteq Manifests
    /\ crashes \in Nat

\* A manifest that is active, and was not brought back by a retain after its chunks had
\* been reclaimed, has the record and the file of every chunk: no sweep, crash or failed
\* removal takes content from a committed object.
ActiveManifestIntact ==
    \A m \in Manifests : IsActive(m) /\ m \notin hollow => HasBytes(m)

\* What an upload has touched stays until the upload leaves the registry, however old the
\* chunk record it reuses.
TouchedChunksKept ==
    \A u \in Uploads : \A c \in active[HandlerStore][u] : chunk[c].stored /\ file[c].stored

\* A positive reference count always has a manifest behind it, so the collector's branch for
\* inconsistent metadata, which would keep the chunk forever, is never taken.
RefCountBacked ==
    \A c \in Chunks : chunk[c].refs > 0 => \E m \in Manifests : Stored(m) /\ c \in ChunksOf(m)

\* The file of a chunk goes only when the latest retirement among the manifests that contain
\* it is older than the grace period, and its record goes only after its file.
RetirementGrace ==
    [][\A c \in Chunks :
          /\ file[c].stored /\ ~file'[c].stored => RetiredBefore(c, now)
          /\ chunk[c].stored /\ ~chunk'[c].stored => ~file[c].stored]_vars

\* Every upload ends, whatever sweeps run beside it: the lifecycle lock is always released.
UploadsEnd ==
    \A u \in Uploads : up[u].pc # "new" ~> up[u].pc \in {"done", "failed"}

\* Bytes that no active manifest or upload needs, and whose grace period is over by MaxTime.
Garbage(c) ==
    /\ ~Referenced(c)
    /\ \A u \in Uploads : c \notin active[HandlerStore][u]
    /\ RetiredBefore(c, MaxTime)
    /\ \/ chunk[c].stored /\ (InRetired(c) \/ Before(chunk[c].created, MaxTime))
       \/ ~chunk[c].stored /\ file[c].stored /\ Before(file[c].mtime, MaxTime)

\* Such bytes do not stay: interrupted sweeps are repeated until they are reclaimed.
GarbageReclaimed == \A c \in Chunks : []<>~Garbage(c)
=============================================================================
