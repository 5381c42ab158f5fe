----------------------------- MODULE Retirement -----------------------------
(***************************************************************************)
(* File metadata in PostgreSQL and the manifest state in the vault, kept   *)
(* together by the retirement outbox of the API service.  Uploads, the     *)
(* trash, permanent deletes, the stale-upload reaper and the retirement    *)
(* workers interleave; each SQL statement outside a transaction and each   *)
(* UDS call is a step of its own.  Transactions are READ COMMITTED: a      *)
(* statement sees what others have committed, and advisory locks on the    *)
(* manifest are held from the statement that takes them to the commit.     *)
(* One folder stands for the subtree a folder operation covers.            *)
(***************************************************************************)
EXTENDS Naturals, FiniteSets

CONSTANTS
    Files,        \* file rows, each created by one upload request
    Manifests,    \* manifest ids
    ManifestOf,   \* the manifest of the bytes each request uploads
    FolderFiles,  \* the files uploaded into the folder; the others are in the root
    Deleters,     \* permanent delete transactions that may be open at once
    Workers,      \* retirement workers
    MaxFaults,    \* bound: failed statements and vault calls
    MaxCrashes    \* bound: restarts of the API service

ASSUME ManifestAssumption == ManifestOf \in [Files -> Manifests]
ASSUME FolderAssumption   == FolderFiles \subseteq Files
ASSUME BoundAssumption    == MaxFaults \in Nat /\ MaxCrashes \in Nat

VARIABLES
    row,      \* table files
    folder,   \* table directories: the folder's row
    outbox,   \* table manifest_retirement_requests
    vault,    \* the manifest records of Vault Core
    req,      \* the goroutine of each upload request
    tx,       \* the open permanent delete transactions
    wk,       \* the retirement workers
    faults,   \* bound counter
    crashes   \* bound counter

tables == <<row, folder, outbox>>
bounds == <<faults, crashes>>
vars == <<tables, vault, req, tx, wk, bounds>>

-----------------------------------------------------------------------------
NoRow == [status |-> "none", trashed |-> FALSE]
NoRequest == [status |-> "none", leased |-> FALSE]
NoTx == [pc |-> "idle", files |-> {}, manifests |-> {}, queue |-> {}, folder |-> FALSE]
NoWork == [pc |-> "idle", batch |-> {}]

FilesOf(m) == {f \in Files : ManifestOf[f] = m}
Committed == {f \in Files : row[f].status = "committed"}

\* HasManifestReferences: trashed files count.
Referenced(m) == FilesOf(m) \cap Committed # {}

\* The row is in the root or its directory is not in the trash.
InLiveFolder(f) == f \in FolderFiles => folder = "live"

OpenTx == {d \in Deleters : tx[d].pc # "idle"}
RowLocked(f) == \E d \in OpenTx : f \in tx[d].files

\* Faulty variant: no advisory lock.
NeverLocked(m) == FALSE

ManifestLocked(m) == \E d \in OpenTx : m \in tx[d].manifests

Fault == faults < MaxFaults /\ faults' = faults + 1
NoFault == UNCHANGED faults

Init ==
    /\ row = [f \in Files |-> NoRow]
    /\ folder = "live"
    /\ outbox = [m \in Manifests |-> NoRequest]
    /\ vault = [m \in Manifests |-> "absent"]
    /\ req = [f \in Files |-> "new"]
    /\ tx = [d \in Deleters |-> NoTx]
    /\ wk = [w \in Workers |-> NoWork]
    /\ faults = 0 /\ crashes = 0

-----------------------------------------------------------------------------
(* FileService.Upload *)

Goto(f, pc) == req' = [req EXCEPT ![f] = pc]

\* IsOwnedByUser sees a live directory, or the upload goes to the root.
CheckDirectory(f) ==
    /\ req[f] = "new" /\ InLiveFolder(f)
    /\ Goto(f, "insert")
    /\ UNCHANGED <<tables, vault, tx, wk, bounds>>

\* CreatePending; the foreign key refuses a directory that has been deleted since.
CreatePending(f) ==
    /\ req[f] = "insert"
    /\ \/ /\ f \in FolderFiles => folder # "gone"
          /\ row' = [row EXCEPT ![f].status = "pending"]
          /\ Goto(f, "vault")
       \/ /\ f \in FolderFiles /\ folder = "gone"
          /\ Goto(f, "done")
          /\ UNCHANGED row
    /\ UNCHANGED <<folder, outbox, vault, tx, wk, bounds>>

\* The vault commits or reactivates the manifest; the answer may be lost.
VaultUpload(f) ==
    /\ req[f] = "vault"
    /\ vault' = [vault EXCEPT ![ManifestOf[f]] = "active"]
    /\ \/ NoFault /\ Goto(f, "commit")
       \/ Fault /\ Goto(f, "mark_failed")
    /\ UNCHANGED <<tables, tx, wk, crashes>>

VaultUploadFails(f) ==
    /\ req[f] = "vault"
    /\ Fault
    /\ Goto(f, "mark_failed")
    /\ UNCHANGED <<tables, vault, tx, wk, crashes>>

\* MarkCommitted waits for the advisory lock and updates a row that is still pending.
MarkCommitted(f) ==
    /\ req[f] = "commit"
    /\ ~ManifestLocked(ManifestOf[f]) /\ ~RowLocked(f)
    /\ \/ /\ row[f].status = "pending"
          /\ row' = [row EXCEPT ![f].status = "committed"]
          /\ Goto(f, "requeue")
          /\ NoFault
       \/ /\ (row[f].status # "pending" /\ NoFault) \/ Fault
          /\ Goto(f, "mark_failed")
          /\ UNCHANGED row
    /\ UNCHANGED <<folder, outbox, vault, tx, wk, crashes>>

MarkFailed(f) ==
    /\ req[f] = "mark_failed"
    /\ ~RowLocked(f)
    /\ \/ NoFault /\ row' = [row EXCEPT ![f].status = IF @ = "pending" THEN "failed" ELSE @]
       \/ Fault /\ UNCHANGED row
    /\ Goto(f, "done")
    /\ UNCHANGED <<folder, outbox, vault, tx, wk, crashes>>

\* RequeueManifestRetirement updates a request that exists; an error is only logged.
Requeue(m) ==
    outbox' = [outbox EXCEPT ![m] = IF @.status = "none" THEN @
                                    ELSE [status |-> "pending", leased |-> FALSE]]

RequeueRetirement(f) ==
    /\ req[f] = "requeue"
    /\ \/ NoFault /\ Requeue(ManifestOf[f])
       \/ Fault /\ UNCHANGED outbox
    /\ Goto(f, "retain")
    /\ UNCHANGED <<row, folder, vault, tx, wk, crashes>>

\* The vault's retain: a manifest that is stored becomes active.
Retain(m) == vault' = [vault EXCEPT ![m] = "active"]

\* The retain at the end of Upload; an error is only logged.
RetainUploaded(f) ==
    /\ req[f] = "retain"
    /\ \/ NoFault /\ Retain(ManifestOf[f])
       \/ Fault /\ UNCHANGED vault
    /\ Goto(f, "done")
    /\ UNCHANGED <<tables, tx, wk, crashes>>

\* ExpireStalePending, by an age that an upload still running may have reached.
ExpireStalePending(f) ==
    /\ row[f].status = "pending" /\ ~RowLocked(f)
    /\ row' = [row EXCEPT ![f].status = "failed"]
    /\ UNCHANGED <<folder, outbox, vault, req, tx, wk, bounds>>

UploadStep(f) ==
    \/ CheckDirectory(f) \/ CreatePending(f) \/ VaultUploadFails(f) \/ MarkCommitted(f)
    \/ MarkFailed(f) \/ RequeueRetirement(f) \/ RetainUploaded(f)

-----------------------------------------------------------------------------
(* The trash *)

SoftDelete(f) ==
    /\ f \in Committed /\ ~row[f].trashed /\ InLiveFolder(f) /\ ~RowLocked(f)
    /\ row' = [row EXCEPT ![f].trashed = TRUE]
    /\ UNCHANGED <<folder, outbox, vault, req, tx, wk, bounds>>

Restore(f) ==
    /\ f \in Committed /\ row[f].trashed /\ InLiveFolder(f) /\ ~RowLocked(f)
    /\ row' = [row EXCEPT ![f].trashed = FALSE]
    /\ UNCHANGED <<folder, outbox, vault, req, tx, wk, bounds>>

FolderRows == {f \in FolderFiles : row[f].status # "none"}

\* SoftDeleteSubtree and RestoreSubtree mark every row of the subtree, pending ones too.
MarkFolder(from, to) ==
    /\ folder = from /\ \A f \in FolderRows : ~RowLocked(f)
    /\ folder' = to
    /\ row' = [f \in Files |-> IF f \in FolderRows
                                 THEN [row[f] EXCEPT !.trashed = (to = "trashed")]
                                 ELSE row[f]]
    /\ UNCHANGED <<outbox, vault, req, tx, wk, bounds>>

SoftDeleteSubtree == MarkFolder("live", "trashed")
RestoreSubtree == MarkFolder("trashed", "live")

-----------------------------------------------------------------------------
(* Permanent deletes: SELECT ... FOR UPDATE and the advisory locks, then DELETE and the
   reference check, then the commit. *)

LockRows(d, files, isFolder) ==
    LET manifests == {ManifestOf[f] : f \in files} IN
    /\ tx[d].pc = "idle"
    /\ \A f \in files : ~RowLocked(f)
    /\ \A m \in manifests : ~ManifestLocked(m)
    /\ tx' = [tx EXCEPT ![d] = [pc |-> "locked", files |-> files, manifests |-> manifests,
                                queue |-> {}, folder |-> isFolder]]
    /\ UNCHANGED <<tables, vault, req, wk, bounds>>

PermanentDelete(d, f) ==
    /\ f \in Committed /\ row[f].trashed /\ InLiveFolder(f)
    /\ LockRows(d, {f}, FALSE)

PermanentDeleteSubtree(d) ==
    /\ folder = "trashed"
    /\ LockRows(d, FolderRows \cap Committed, TRUE)

\* The rows DELETE removes: of a folder, all that are in it by now.
Doomed(d) == IF tx[d].folder THEN FolderRows ELSE tx[d].files

\* queueManifestRetirements: the manifests without another committed row.
Unreferenced(d) == {m \in tx[d].manifests : FilesOf(m) \cap Committed \subseteq Doomed(d)}

DeleteRows(d) ==
    /\ tx[d].pc = "locked"
    /\ \A e \in OpenTx \ {d} : Doomed(d) \cap tx[e].files = {}
    /\ tx' = [tx EXCEPT ![d].pc = "deleted", ![d].files = Doomed(d), ![d].queue = Unreferenced(d)]
    /\ UNCHANGED <<tables, vault, req, wk, bounds>>

\* The outbox upsert becomes visible with the deletion.  Deleting the directory fails, and
\* with it the transaction, when a row has been inserted below it.
CommitDelete(d) ==
    /\ tx[d].pc = "deleted"
    /\ tx[d].folder => FolderRows \subseteq tx[d].files
    /\ row' = [f \in Files |-> IF f \in tx[d].files THEN NoRow ELSE row[f]]
    /\ outbox' = [m \in Manifests |-> IF m \in tx[d].queue
                                        THEN [status |-> "pending", leased |-> FALSE]
                                        ELSE outbox[m]]
    /\ folder' = IF tx[d].folder THEN "gone" ELSE folder
    /\ tx' = [tx EXCEPT ![d] = NoTx]
    /\ UNCHANGED <<vault, req, wk, bounds>>

Rollback(d) ==
    /\ tx[d].pc = "deleted" /\ tx[d].folder
    /\ ~(FolderRows \subseteq tx[d].files)
    /\ tx' = [tx EXCEPT ![d] = NoTx]
    /\ UNCHANGED <<tables, vault, req, wk, bounds>>

DeleteStep(d) == DeleteRows(d) \/ CommitDelete(d) \/ Rollback(d)

-----------------------------------------------------------------------------
(* RunManifestRetirementWorker *)

Due == {m \in Manifests : outbox[m].status = "pending" /\ ~outbox[m].leased}

\* ClaimPendingManifestRetirements leases the whole batch for a minute.
Claim(w) ==
    /\ wk[w].pc = "idle" /\ Due # {}
    /\ outbox' = [m \in Manifests |-> IF m \in Due THEN [outbox[m] EXCEPT !.leased = TRUE]
                                                   ELSE outbox[m]]
    /\ wk' = [wk EXCEPT ![w] = [pc |-> "next", batch |-> Due]]
    /\ UNCHANGED <<row, folder, vault, req, tx, bounds>>

LeaseExpires(m) ==
    /\ outbox[m].leased
    /\ outbox' = [outbox EXCEPT ![m].leased = FALSE]
    /\ UNCHANGED <<row, folder, vault, req, tx, wk, bounds>>

\* processManifestRetirement of one manifest of the batch, from here to Complete.
Current(w) == CHOOSE m \in wk[w].batch : TRUE
WorkerGoto(w, pc) == wk' = [wk EXCEPT ![w].pc = pc]

NextInBatch(w) ==
    wk' = [wk EXCEPT ![w] = IF @.batch = {Current(w)} THEN NoWork
                            ELSE [pc |-> "next", batch |-> @.batch \ {Current(w)}]]

\* The first HasManifestReferences; a statement or call that fails leads to MarkFailed.
CheckReferences(w) ==
    /\ wk[w].pc = "next"
    /\ \/ NoFault /\ WorkerGoto(w, IF Referenced(Current(w)) THEN "retain" ELSE "retire")
       \/ Fault /\ WorkerGoto(w, "fail")
    /\ UNCHANGED <<tables, vault, req, tx, crashes>>

\* The vault's retire; a failed call may have had its effect.
Retire(m) == vault' = [vault EXCEPT ![m] = IF @ = "active" THEN "retired" ELSE @]

RetireCall(w) ==
    /\ wk[w].pc = "retire"
    /\ \/ NoFault /\ Retire(Current(w)) /\ WorkerGoto(w, "recheck")
       \/ Fault /\ (Retire(Current(w)) \/ UNCHANGED vault) /\ WorkerGoto(w, "fail")
    /\ UNCHANGED <<tables, req, tx, crashes>>

\* Faulty variant: the references are not checked again.
NoRecheck(w) ==
    /\ wk[w].pc = "recheck"
    /\ WorkerGoto(w, "complete")
    /\ UNCHANGED <<tables, vault, req, tx, bounds>>

\* The second HasManifestReferences.
Recheck(w) ==
    /\ wk[w].pc = "recheck"
    /\ \/ NoFault /\ WorkerGoto(w, IF Referenced(Current(w)) THEN "retain" ELSE "complete")
       \/ Fault /\ WorkerGoto(w, "fail")
    /\ UNCHANGED <<tables, vault, req, tx, crashes>>

RetainCall(w) ==
    /\ wk[w].pc = "retain"
    /\ \/ NoFault /\ Retain(Current(w)) /\ WorkerGoto(w, "complete")
       \/ Fault /\ UNCHANGED vault /\ WorkerGoto(w, "fail")
    /\ UNCHANGED <<tables, req, tx, crashes>>

\* Faulty variants: the request is not marked; it is marked with a status of its own.
CompleteUnmarked(w) ==
    /\ wk[w].pc = "complete"
    /\ NextInBatch(w)
    /\ UNCHANGED <<tables, vault, req, tx, bounds>>

CompleteAsRetired(w) ==
    /\ wk[w].pc = "complete"
    /\ outbox' = [outbox EXCEPT ![Current(w)].status = "retired"]
    /\ NextInBatch(w)
    /\ UNCHANGED <<row, folder, vault, req, tx, bounds>>

\* MarkManifestRetirementCompleted, whatever has been written to the row meanwhile.
Complete(w) ==
    /\ wk[w].pc = "complete"
    /\ \/ NoFault /\ outbox' = [outbox EXCEPT ![Current(w)].status = "completed"]
       \/ Fault /\ UNCHANGED outbox
    /\ NextInBatch(w)
    /\ UNCHANGED <<row, folder, vault, req, tx, crashes>>

\* MarkManifestRetirementFailed puts the request back for a minute later.
MarkRetirementFailed(w) ==
    /\ wk[w].pc = "fail"
    /\ outbox' = [outbox EXCEPT ![Current(w)] = [status |-> "pending", leased |-> TRUE]]
    /\ NextInBatch(w)
    /\ UNCHANGED <<row, folder, vault, req, tx, bounds>>

WorkerStep(w) ==
    \/ CheckReferences(w) \/ RetireCall(w) \/ Recheck(w) \/ RetainCall(w)
    \/ Complete(w) \/ MarkRetirementFailed(w)

\* The API service dies: requests, open transactions and workers are gone.
Crash ==
    /\ crashes < MaxCrashes
    /\ crashes' = crashes + 1
    /\ req' = [f \in Files |-> IF req[f] = "new" THEN "new" ELSE "done"]
    /\ tx' = [d \in Deleters |-> NoTx]
    /\ wk' = [w \in Workers |-> NoWork]
    /\ UNCHANGED <<tables, vault, faults>>

Rest ==
    \/ \E f \in Files : UploadStep(f) \/ ExpireStalePending(f) \/ SoftDelete(f) \/ Restore(f)
    \/ \E d \in Deleters : \/ \E f \in Files : PermanentDelete(d, f)
                           \/ PermanentDeleteSubtree(d)
                           \/ DeleteStep(d)
    \/ SoftDeleteSubtree \/ RestoreSubtree
    \/ \E w \in Workers : Claim(w) \/ WorkerStep(w)
    \/ \E m \in Manifests : LeaseExpires(m)
    \/ Crash

Next == Rest \/ \E f \in Files : VaultUpload(f)

Spec == Init /\ [][Next]_vars

(* Requests and workers run on; a claimed request becomes available again after its *)
(* minute.  Clients, the reaper and faults owe nothing.                             *)
Fairness ==
    /\ \A f \in Files : WF_vars((UploadStep(f) \/ VaultUpload(f)) /\ req[f] # "new")
    /\ \A d \in Deleters : WF_vars(DeleteStep(d))
    /\ \A w \in Workers : WF_vars(Claim(w)) /\ WF_vars(WorkerStep(w))
    /\ \A m \in Manifests : WF_vars(LeaseExpires(m))

FairSpec == Spec /\ Fairness

-----------------------------------------------------------------------------
(* Properties *)

TypeOK ==
    /\ row \in [Files -> [status : {"none", "pending", "committed", "failed"}, trashed : BOOLEAN]]
    /\ folder \in {"live", "trashed", "gone"}
    /\ outbox \in [Manifests -> [status : {"none", "pending", "completed"}, leased : BOOLEAN]]
    /\ vault \in [Manifests -> {"absent", "active", "retired"}]
    /\ req \in [Files -> {"new", "insert", "vault", "commit", "mark_failed", "requeue", "retain",
                          "done"}]
    /\ tx \in [Deleters -> [pc : {"idle", "locked", "deleted"}, files : SUBSET Files,
                            manifests : SUBSET Manifests, queue : SUBSET Manifests,
                            folder : BOOLEAN]]
    /\ wk \in [Workers -> [pc : {"idle", "next", "retain", "retire", "recheck", "complete",
                                 "fail"},
                           batch : SUBSET Manifests]]
    /\ faults \in Nat /\ crashes \in Nat

WorkingOn(w, m) == wk[w].batch # {} /\ Current(w) = m

\* A file that the application calls committed has an active manifest, or the step that will
\* retain it is still ahead: the rest of an upload, a worker past its retire, or a request
\* in the outbox.  Otherwise the collector would in time reclaim a committed object.
CommittedStaysActive ==
    \A m \in Manifests :
        Referenced(m) /\ vault[m] # "active" =>
            \/ outbox[m].status = "pending"
            \/ \E w \in Workers : WorkingOn(w, m) /\ wk[w].pc \in {"recheck", "retain", "fail"}
            \/ \E f \in FilesOf(m) : req[f] \in {"requeue", "retain"}

\* The transaction that takes the last committed reference away has the request written,
\* also when the references of one manifest are deleted concurrently.
LastDeleteQueues ==
    [][\A m \in Manifests : Referenced(m) /\ ~Referenced(m)' => outbox'[m].status = "pending"]_vars

\* Every request is completed in the end, also one of a worker that died.
OutboxDrains ==
    \A m \in Manifests : outbox[m].status = "pending" ~> outbox[m].status = "completed"
=============================================================================
