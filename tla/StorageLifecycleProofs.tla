----------------------- MODULE StorageLifecycleProofs -----------------------
(***************************************************************************)
(* File metadata, the retirement outbox and the collector, for any number  *)
(* of uploads, deletes and workers: which steps keep a committed file      *)
(* readable, when the last delete queues the retirement, and that the      *)
(* service and the collector stay within what the vault promises.          *)
(***************************************************************************)
EXTENDS StorageLifecycle, TLAPS

-----------------------------------------------------------------------------
(* Types *)

RequestPc == {"new", "insert", "vault", "commit", "mark_failed", "requeue", "retain", "done"}
RowType == [status : {"none", "pending", "committed", "failed"}, trashed : BOOLEAN]
RequestType == [status : {"none", "pending", "completed"}, leased : BOOLEAN]
TxType == [pc : {"idle", "locked", "deleted"}, files : SUBSET Files,
           manifests : SUBSET Manifests, queue : SUBSET Manifests, folder : BOOLEAN]
WorkType == [pc : {"idle", "next", "retain", "retire", "recheck", "complete", "fail"},
             batch : SUBSET Manifests]

\* A worker that works has a manifest to work on.
Busy == \A w \in Workers : wk[w].pc # "idle" => wk[w].batch # {}

TypeInv == TypeOK /\ Busy

LEMMA TypeParts ==
    TypeOK <=> /\ row \in [Files -> RowType]
               /\ folder \in {"live", "trashed", "gone"}
               /\ outbox \in [Manifests -> RequestType]
               /\ vault \in [Manifests -> {"absent", "active", "retired"}]
               /\ req \in [Files -> RequestPc]
               /\ tx \in [Deleters -> TxType]
               /\ wk \in [Workers -> WorkType]
               /\ faults \in Nat /\ crashes \in Nat
BY DEF TypeOK, RowType, RequestType, RequestPc, TxType, WorkType

LEMMA TypeInit == Init => TypeInv
BY ManifestAssumption DEF Init, TypeInv, TypeOK, Busy, NoRow, NoRequest, NoTx, NoWork

\* The manifest a worker is at belongs to its batch.
LEMMA CurrentInBatch ==
    ASSUME TypeInv, NEW w \in Workers, wk[w].pc # "idle"
    PROVE  Current(w) \in wk[w].batch /\ Current(w) \in Manifests
<1>1. wk[w].batch # {} /\ wk[w].batch \subseteq Manifests
  BY TypeParts DEF TypeInv, Busy, WorkType
<1>2. \E m \in wk[w].batch : TRUE
  BY <1>1
<1>3. Current(w) \in wk[w].batch
  BY <1>2 DEF Current
<1>4. QED
  BY <1>1, <1>3

LEMMA NextInBatchType ==
    ASSUME TypeInv, NEW w \in Workers, wk[w].pc # "idle", NextInBatch(w)
    PROVE  wk' \in [Workers -> WorkType] /\ Busy'
<1>1. Current(w) \in wk[w].batch /\ wk \in [Workers -> WorkType]
  BY CurrentInBatch, TypeParts DEF TypeInv
<1>2. wk' = [wk EXCEPT ![w] = IF wk[w].batch = {Current(w)} THEN NoWork
                              ELSE [pc |-> "next", batch |-> wk[w].batch \ {Current(w)}]]
  BY DEF NextInBatch
<1>3. wk[w].batch # {Current(w)} => wk[w].batch \ {Current(w)} # {}
  BY <1>1
<1>4. wk' \in [Workers -> WorkType]
  BY <1>1, <1>2 DEF WorkType, NoWork
<1>5. \A v \in Workers : wk'[v].pc # "idle" => wk'[v].batch # {}
  BY <1>1, <1>2, <1>3 DEF NoWork, Busy, TypeInv, WorkType
<1>6. QED
  BY <1>4, <1>5 DEF Busy

\* One field of one row, and the state of one request.
LEMMA StatusType ==
    ASSUME row \in [Files -> RowType], NEW f \in Files, NEW s \in {"none", "pending", "committed", "failed"},
           row' = [row EXCEPT ![f].status = s]
    PROVE  row' \in [Files -> RowType]
BY DEF RowType

LEMMA GotoType ==
    ASSUME req \in [Files -> RequestPc], NEW f \in Files, NEW pc \in RequestPc, Goto(f, pc)
    PROVE  req' \in [Files -> RequestPc]
BY DEF Goto

LEMMA CounterType ==
    ASSUME faults \in Nat, crashes \in Nat, Fault \/ NoFault \/ UNCHANGED faults, UNCHANGED crashes
    PROVE  faults' \in Nat /\ crashes' \in Nat
BY DEF Fault, NoFault

LEMMA UploadType ==
    ASSUME TypeInv, NEW f \in Files, UploadStep(f) \/ VaultUpload(f) \/ ExpireStalePending(f)
    PROVE  TypeInv'
<1>1. /\ ManifestOf[f] \in Manifests /\ Busy
      /\ row \in [Files -> RowType] /\ req \in [Files -> RequestPc] /\ outbox \in [Manifests -> RequestType]
      /\ vault \in [Manifests -> {"absent", "active", "retired"}] /\ faults \in Nat /\ crashes \in Nat
      /\ folder \in {"live", "trashed", "gone"} /\ tx \in [Deleters -> TxType] /\ wk \in [Workers -> WorkType]
  BY ManifestAssumption, TypeParts DEF TypeInv
<1>2. UNCHANGED <<folder, tx, wk, crashes>>
  BY DEF UploadStep, CheckDirectory, CreatePending, VaultUpload, VaultUploadFails,
     MarkCommitted, MarkFailed, RequeueRetirement, RetainUploaded, ExpireStalePending, tables, bounds
<1>3. faults' \in Nat /\ crashes' \in Nat
  <2>1. Fault \/ NoFault \/ UNCHANGED faults
    BY DEF UploadStep, CheckDirectory, CreatePending, VaultUpload, VaultUploadFails,
       MarkCommitted, MarkFailed, RequeueRetirement, RetainUploaded, ExpireStalePending, bounds
  <2>2. QED
    BY <1>1, <1>2, <2>1, CounterType
<1>4. req' \in [Files -> RequestPc]
  <2>1. (\E pc \in RequestPc : Goto(f, pc)) \/ req' = req
    BY DEF UploadStep, CheckDirectory, CreatePending, VaultUpload, VaultUploadFails,
       MarkCommitted, MarkFailed, RequeueRetirement, RetainUploaded, ExpireStalePending, RequestPc
  <2>2. QED
    BY <1>1, <2>1, GotoType
<1>5. row' \in [Files -> RowType]
  <2>1. row[f].status \in {"none", "pending", "committed", "failed"}
    BY <1>1 DEF RowType
  <2>2. \/ row' = row
        \/ \E s \in {"none", "pending", "committed", "failed"} : row' = [row EXCEPT ![f].status = s]
    BY <2>1 DEF UploadStep, CheckDirectory, CreatePending, VaultUpload, VaultUploadFails,
       MarkCommitted, MarkFailed, RequeueRetirement, RetainUploaded, ExpireStalePending, tables
  <2>3. QED
    BY <1>1, <2>2, StatusType
<1>6. vault' \in [Manifests -> {"absent", "active", "retired"}]
  <2>1. vault' = vault \/ vault' = [vault EXCEPT ![ManifestOf[f]] = "active"]
    BY DEF UploadStep, CheckDirectory, CreatePending, VaultUpload, VaultUploadFails,
       MarkCommitted, MarkFailed, RequeueRetirement, RetainUploaded, ExpireStalePending, Retain
  <2>2. QED
    BY <1>1, <2>1
<1>7. outbox' \in [Manifests -> RequestType]
  <2>1. outbox' = outbox \/ Requeue(ManifestOf[f])
    BY DEF UploadStep, CheckDirectory, CreatePending, VaultUpload, VaultUploadFails,
       MarkCommitted, MarkFailed, RequeueRetirement, RetainUploaded, ExpireStalePending, tables
  <2>2. [status |-> "pending", leased |-> FALSE] \in RequestType
    BY DEF RequestType
  <2>3. QED
    BY <1>1, <2>1, <2>2 DEF Requeue
<1>8. TypeOK'
  BY <1>1, <1>2, <1>3, <1>4, <1>5, <1>6, <1>7 DEF TypeOK, RowType, RequestType, RequestPc, TxType, WorkType
<1>9. QED
  BY <1>1, <1>2, <1>8 DEF TypeInv, Busy

LEMMA TrashType ==
    ASSUME TypeInv,
           \/ \E f \in Files : SoftDelete(f) \/ Restore(f)
           \/ SoftDeleteSubtree \/ RestoreSubtree
    PROVE  TypeInv'
<1>1. row \in [Files -> RowType] /\ folder \in {"live", "trashed", "gone"}
  BY TypeParts DEF TypeInv
<1>2. UNCHANGED <<outbox, vault, req, tx, wk, faults, crashes>>
  BY DEF SoftDelete, Restore, SoftDeleteSubtree, RestoreSubtree, MarkFolder, bounds
<1>3. ASSUME NEW f \in Files, SoftDelete(f) \/ Restore(f)
      PROVE  row' \in [Files -> RowType] /\ folder' \in {"live", "trashed", "gone"}
  BY <1>1, <1>3 DEF SoftDelete, Restore, RowType
<1>4. ASSUME NEW from, NEW to \in {"live", "trashed"}, MarkFolder(from, to)
      PROVE  row' \in [Files -> RowType] /\ folder' \in {"live", "trashed", "gone"}
  BY <1>1, <1>4 DEF MarkFolder, RowType
<1>5. row' \in [Files -> RowType] /\ folder' \in {"live", "trashed", "gone"}
  BY <1>3, <1>4 DEF SoftDeleteSubtree, RestoreSubtree
<1>6. QED
  BY <1>2, <1>5 DEF TypeInv, TypeOK, Busy, RowType

LEMMA DeleteType ==
    ASSUME TypeInv, NEW d \in Deleters,
           \/ \E f \in Files : PermanentDelete(d, f)
           \/ PermanentDeleteSubtree(d) \/ DeleteStep(d)
    PROVE  TypeInv'
<1>1. /\ tx \in [Deleters -> TxType] /\ row \in [Files -> RowType] /\ outbox \in [Manifests -> RequestType]
      /\ folder \in {"live", "trashed", "gone"}
  BY TypeParts DEF TypeInv
<1>2. UNCHANGED <<vault, req, wk, faults, crashes>>
  BY DEF PermanentDelete, PermanentDeleteSubtree, LockRows, DeleteStep, DeleteRows, CommitDelete, Rollback,
     bounds
<1>3. ASSUME NEW files \in SUBSET Files, NEW b \in BOOLEAN, LockRows(d, files, b) PROVE tx' \in [Deleters -> TxType]
  <2> DEFINE held == {ManifestOf[f] : f \in files}
  <2>1. held \subseteq Manifests
    BY ManifestAssumption
  <2>2. tx' = [tx EXCEPT ![d] = [pc |-> "locked", files |-> files, manifests |-> held,
                                 queue |-> {}, folder |-> b]]
    BY <1>3 DEF LockRows
  <2> HIDE DEF held
  <2>3. QED
    BY <1>1, <2>1, <2>2 DEF TxType
<1>4. ASSUME DeleteRows(d) PROVE tx' \in [Deleters -> TxType]
  <2>1. Doomed(d) \subseteq Files /\ Unreferenced(d) \subseteq Manifests
    BY <1>1, FolderAssumption DEF Doomed, FolderRows, Unreferenced, TxType
  <2>2. tx' = [tx EXCEPT ![d].pc = "deleted", ![d].files = Doomed(d), ![d].queue = Unreferenced(d)]
    BY <1>4 DEF DeleteRows
  <2>3. tx' = [tx EXCEPT ![d] = [tx[d] EXCEPT !.pc = "deleted", !.files = Doomed(d), !.queue = Unreferenced(d)]]
    BY <1>1, <2>2 DEF TxType
  <2>4. [tx[d] EXCEPT !.pc = "deleted", !.files = Doomed(d), !.queue = Unreferenced(d)] \in TxType
    BY <1>1, <2>1 DEF TxType
  <2>5. QED
    BY <1>1, <2>3, <2>4
<1>5. tx' \in [Deleters -> TxType]
  <2>1. ASSUME NEW f \in Files, PermanentDelete(d, f) PROVE tx' \in [Deleters -> TxType]
    BY <1>3, <2>1 DEF PermanentDelete
  <2>2. ASSUME PermanentDeleteSubtree(d) PROVE tx' \in [Deleters -> TxType]
    BY <1>3, <2>2 DEF PermanentDeleteSubtree, Committed
  <2>3. ASSUME CommitDelete(d) \/ Rollback(d) PROVE tx' \in [Deleters -> TxType]
    <3>1. NoTx \in TxType
      BY DEF NoTx, TxType
    <3>2. QED
      BY <1>1, <2>3, <3>1 DEF CommitDelete, Rollback
  <2>4. QED
    BY <1>4, <2>1, <2>2, <2>3 DEF DeleteStep
<1>6. \/ UNCHANGED tables
      \/ CommitDelete(d)
  BY DEF PermanentDelete, PermanentDeleteSubtree, LockRows, DeleteStep, DeleteRows, Rollback
<1>7. row' \in [Files -> RowType] /\ outbox' \in [Manifests -> RequestType] /\ folder' \in {"live", "trashed", "gone"}
  <2>1. NoRow \in RowType /\ [status |-> "pending", leased |-> FALSE] \in RequestType
    BY DEF NoRow, RowType, RequestType
  <2>2. CASE UNCHANGED tables
    BY <1>1, <2>2 DEF tables
  <2>3. CASE CommitDelete(d)
    <3>1. row' \in [Files -> RowType]
      BY <1>1, <2>1, <2>3 DEF CommitDelete
    <3>2. outbox' \in [Manifests -> RequestType]
      BY <1>1, <2>1, <2>3 DEF CommitDelete
    <3>3. QED
      BY <1>1, <2>3, <3>1, <3>2 DEF CommitDelete
  <2>4. QED
    BY <1>6, <2>2, <2>3
<1>8. QED
  BY <1>2, <1>5, <1>7 DEF TypeInv, TypeOK, Busy, RowType, RequestType, TxType

LEMMA WorkerType ==
    ASSUME TypeInv, NEW w \in Workers, Claim(w) \/ WorkerStep(w)
    PROVE  TypeInv'
<1>1. /\ Busy /\ wk \in [Workers -> WorkType] /\ outbox \in [Manifests -> RequestType]
      /\ vault \in [Manifests -> {"absent", "active", "retired"}] /\ faults \in Nat /\ crashes \in Nat
  BY TypeParts DEF TypeInv
<1>2. ASSUME NEW pc \in {"next", "retain", "retire", "recheck", "complete", "fail"},
             wk[w].pc # "idle", WorkerGoto(w, pc)
      PROVE  wk' \in [Workers -> WorkType] /\ Busy'
  BY <1>1, <1>2 DEF WorkerGoto, WorkType, Busy
<1>3. wk' \in [Workers -> WorkType] /\ Busy'
  <2>1. CASE Claim(w)
    <3>1. Due \subseteq Manifests /\ Due # {}
      BY <2>1 DEF Claim, Due
    <3>2. QED
      BY <1>1, <2>1, <3>1 DEF Claim, WorkType, Busy
  <2>2. CASE Complete(w) \/ MarkRetirementFailed(w)
    BY <2>2, NextInBatchType DEF Complete, MarkRetirementFailed
  <2>3. CASE CheckReferences(w) \/ RetireCall(w) \/ Recheck(w) \/ RetainCall(w)
    <3>1. wk[w].pc # "idle"
      BY <2>3 DEF CheckReferences, RetireCall, Recheck, RetainCall
    <3>2. \E pc \in {"next", "retain", "retire", "recheck", "complete", "fail"} : WorkerGoto(w, pc)
      BY <2>3 DEF CheckReferences, RetireCall, Recheck, RetainCall
    <3>3. QED
      BY <1>2, <3>1, <3>2
  <2>4. QED
    BY <2>1, <2>2, <2>3 DEF WorkerStep
<1>4. outbox' \in [Manifests -> RequestType]
  <2>1. CASE Claim(w)
    BY <1>1, <2>1 DEF Claim, RequestType
  <2>2. CASE Complete(w) \/ MarkRetirementFailed(w)
    <3>1. [status |-> "pending", leased |-> TRUE] \in RequestType
      BY DEF RequestType
    <3>2. \A m \in Manifests : [outbox[m] EXCEPT !.status = "completed"] \in RequestType
      BY <1>1 DEF RequestType
    <3>3. CASE Complete(w)
      <4>1. \/ outbox' = outbox
            \/ outbox' = [outbox EXCEPT ![Current(w)] = [outbox[Current(w)] EXCEPT !.status = "completed"]]
        BY <3>3 DEF Complete
      <4>2. QED
        BY <1>1, <3>2, <4>1
    <3>4. CASE MarkRetirementFailed(w)
      BY <1>1, <3>1, <3>4 DEF MarkRetirementFailed
    <3>5. QED
      BY <2>2, <3>3, <3>4
  <2>3. CASE UNCHANGED outbox
    BY <1>1, <2>3
  <2>4. QED
    BY <2>1, <2>2, <2>3 DEF WorkerStep, CheckReferences, RetireCall, Recheck, RetainCall, tables
<1>5. vault' \in [Manifests -> {"absent", "active", "retired"}]
  <2>1. vault' = vault \/ Retire(Current(w)) \/ Retain(Current(w))
    BY DEF Claim, WorkerStep, CheckReferences, RetireCall, Recheck, RetainCall, Complete, MarkRetirementFailed
  <2>2. QED
    BY <1>1, <2>1 DEF Retire, Retain
<1>6. faults' \in Nat /\ crashes' \in Nat
  <2>1. (Fault \/ NoFault \/ UNCHANGED faults) /\ UNCHANGED crashes
    BY DEF Claim, WorkerStep, CheckReferences, RetireCall, Recheck, RetainCall, Complete, MarkRetirementFailed,
       bounds
  <2>2. QED
    BY <1>1, <2>1, CounterType
<1>7. UNCHANGED <<row, folder, req, tx>>
  BY DEF Claim, WorkerStep, CheckReferences, RetireCall, Recheck, RetainCall, Complete, MarkRetirementFailed,
     tables
<1>8. QED
  BY <1>3, <1>4, <1>5, <1>6, <1>7 DEF TypeInv, TypeOK, WorkType, RequestType

LEMMA OutsideType ==
    ASSUME TypeInv, (\E m \in Manifests : LeaseExpires(m)) \/ Crash
    PROVE  TypeInv'
<1>1. ASSUME NEW m \in Manifests, LeaseExpires(m) PROVE TypeInv'
  <2>1. outbox' \in [Manifests -> RequestType]
    BY <1>1, TypeParts DEF LeaseExpires, TypeInv, RequestType
  <2>2. QED
    BY <1>1, <2>1 DEF LeaseExpires, TypeInv, TypeOK, Busy, bounds, RequestType
<1>2. ASSUME Crash PROVE TypeInv'
  <2>1. NoTx \in TxType /\ NoWork \in WorkType
    BY DEF NoTx, NoWork, TxType, WorkType
  <2>2. wk' \in [Workers -> WorkType] /\ tx' \in [Deleters -> TxType]
    BY <1>2, <2>1 DEF Crash
  <2>3. Busy'
    BY <1>2 DEF Crash, NoWork, Busy
  <2>4. req' \in [Files -> RequestPc]
    BY <1>2 DEF Crash, RequestPc
  <2>5. crashes' \in Nat /\ faults' \in Nat
    BY <1>2 DEF Crash, TypeInv, TypeOK
  <2>6. QED
    BY <1>2, <2>2, <2>3, <2>4, <2>5 DEF Crash, TypeInv, TypeOK, tables, WorkType, TxType, RequestPc
<1>3. QED
  BY <1>1, <1>2

LEMMA TypeStep == TypeInv /\ [Next]_vars => TypeInv'
<1> SUFFICES ASSUME TypeInv, [Next]_vars PROVE TypeInv'
  OBVIOUS
<1>1. CASE UNCHANGED vars
  BY <1>1 DEF vars, tables, bounds, TypeInv, TypeOK, Busy
<1>2. QED
  BY <1>1, UploadType, TrashType, DeleteType, WorkerType, OutsideType DEF Next, Rest

LEMMA TypeInvariant == Spec => []TypeInv
BY TypeInit, TypeStep, PTL DEF Spec

\* Types of the tables, of the goroutines and of the vault's records.
THEOREM TypeCorrect == Spec => []TypeOK
<1>1. TypeInv => TypeOK
  BY DEF TypeInv
<1>2. QED
  BY <1>1, TypeInvariant, PTL

\* Beside the collector and stops of the service, Retirement runs as by itself.
LEMMA SystemRefines == SystemSpec => Spec
<1>1. SystemInit => Init
  BY DEF SystemInit
<1>2. [SystemNext]_system => [Next]_vars
  BY DEF SystemNext, system, Service, Stop, Restart, GraceEnds, Collect, Next
<1>3. QED
  BY <1>1, <1>2, PTL DEF SystemSpec, Spec

-----------------------------------------------------------------------------
(* The last delete queues the retirement *)

\* A request that has not inserted its row finds none.
Fresh == \A f \in Files : req[f] \in {"new", "insert"} => row[f].status = "none"

LEMMA FreshStep ==
    ASSUME TypeInv, Fresh, [Next]_vars
    PROVE  Fresh'
<1>1. row \in [Files -> RowType] /\ req \in [Files -> RequestPc]
  BY TypeParts DEF TypeInv
<1>2. CASE UNCHANGED <<row, req>>
  BY <1>2 DEF Fresh
<1>3. ASSUME NEW f \in Files, UploadStep(f) \/ VaultUpload(f) \/ ExpireStalePending(f) \/ SoftDelete(f) \/ Restore(f)
      PROVE  Fresh'
  BY <1>1, <1>3 DEF UploadStep, CheckDirectory, CreatePending, VaultUpload, VaultUploadFails, MarkCommitted,
     MarkFailed, RequeueRetirement, RetainUploaded, ExpireStalePending, SoftDelete, Restore, Goto, tables,
     Committed, RowType, RequestPc, Fresh
<1>4. ASSUME SoftDeleteSubtree \/ RestoreSubtree PROVE Fresh'
  BY <1>1, <1>4 DEF SoftDeleteSubtree, RestoreSubtree, MarkFolder, RowType, Fresh
<1>5. ASSUME NEW d \in Deleters, CommitDelete(d) PROVE Fresh'
  BY <1>1, <1>5 DEF CommitDelete, NoRow, Fresh
<1>6. CASE Crash
  BY <1>1, <1>6 DEF Crash, tables, Fresh, RequestPc
<1>7. QED
  BY <1>2, <1>3, <1>4, <1>5, <1>6 DEF Next, Rest, PermanentDelete, PermanentDeleteSubtree, LockRows, DeleteStep,
     DeleteRows, Rollback, Claim, WorkerStep, CheckReferences, RetireCall, Recheck, RetainCall, Complete,
     MarkRetirementFailed, LeaseExpires, vars, tables

LEMMA FreshInvariant == Spec => []Fresh
<1>1. Init => Fresh
  BY DEF Init, Fresh, NoRow
<1>2. TypeInv /\ Fresh /\ [Next]_vars => Fresh'
  BY FreshStep
<1>3. QED
  BY <1>1, <1>2, TypeInvariant, PTL DEF Spec

\* The bytes that have not been uploaded into the folder.
RootManifests == {m \in Manifests : FilesOf(m) \cap FolderFiles = {}}

\* A transaction holds the lock of each of these that it deletes a reference of, no other holds
\* it, and after the DELETE it has queued the manifests with no reference left.
Locked(d) == \A f \in tx[d].files : ManifestOf[f] \in RootManifests => ManifestOf[f] \in tx[d].manifests
Exclusive == \A d, e \in Deleters : d # e => tx[d].manifests \cap tx[e].manifests = {}
Queues(d) ==
    tx[d].pc = "deleted" =>
        \A m \in tx[d].manifests \cap RootManifests :
            FilesOf(m) \cap Committed \subseteq tx[d].files => m \in tx[d].queue

LockInv ==
    /\ Exclusive
    /\ \A d \in Deleters : Locked(d) /\ Queues(d)
    /\ \A d \in Deleters : tx[d].pc = "idle" => tx[d].manifests = {} /\ tx[d].files = {}

LEMMA LockInit == Init => LockInv
BY DEF Init, LockInv, Exclusive, Locked, Queues, NoTx

\* Rows that are committed stay so in every step that is not a transaction's.
LEMMA CommittedStays ==
    ASSUME TypeInv, Fresh,
           \/ \E f \in Files : \/ UploadStep(f) \/ VaultUpload(f) \/ ExpireStalePending(f)
                               \/ SoftDelete(f) \/ Restore(f)
           \/ SoftDeleteSubtree \/ RestoreSubtree
           \/ \E w \in Workers : Claim(w) \/ WorkerStep(w)
           \/ \E m \in Manifests : LeaseExpires(m)
    PROVE  UNCHANGED tx /\ \A f \in Files : row[f].status = "committed" => row'[f].status = "committed"
<1>1. row \in [Files -> RowType]
  BY TypeParts DEF TypeInv
<1>2. CASE row' = row
  BY <1>2 DEF UploadStep, CheckDirectory, CreatePending, VaultUpload, VaultUploadFails, MarkCommitted,
     MarkFailed, RequeueRetirement, RetainUploaded, ExpireStalePending, SoftDelete, Restore,
     SoftDeleteSubtree, RestoreSubtree, MarkFolder, Claim, WorkerStep, CheckReferences, RetireCall,
     Recheck, RetainCall, Complete, MarkRetirementFailed, LeaseExpires, tables
<1>3. ASSUME NEW f \in Files, CreatePending(f) \/ MarkCommitted(f) \/ MarkFailed(f) \/ ExpireStalePending(f)
      PROVE  UNCHANGED tx /\ \A g \in Files : row[g].status = "committed" => row'[g].status = "committed"
  BY <1>1, <1>3 DEF CreatePending, MarkCommitted, MarkFailed, ExpireStalePending, RowType, Fresh
<1>4. ASSUME NEW f \in Files, SoftDelete(f) \/ Restore(f)
      PROVE  UNCHANGED tx /\ \A g \in Files : row[g].status = "committed" => row'[g].status = "committed"
  BY <1>1, <1>4 DEF SoftDelete, Restore, RowType
<1>5. ASSUME SoftDeleteSubtree \/ RestoreSubtree
      PROVE  UNCHANGED tx /\ \A g \in Files : row[g].status = "committed" => row'[g].status = "committed"
  BY <1>1, <1>5 DEF SoftDeleteSubtree, RestoreSubtree, MarkFolder, RowType
<1>6. QED
  BY <1>2, <1>3, <1>4, <1>5 DEF UploadStep, CheckDirectory, VaultUpload, VaultUploadFails,
     RequeueRetirement, RetainUploaded, Claim, WorkerStep, CheckReferences, RetireCall, Recheck,
     RetainCall, Complete, MarkRetirementFailed, LeaseExpires, tables

LEMMA LockKept ==
    ASSUME LockInv, UNCHANGED tx,
           \A f \in Files : row[f].status = "committed" => row'[f].status = "committed"
    PROVE  LockInv'
<1>1. /\ Exclusive'
      /\ \A d \in Deleters : Locked(d)'
      /\ \A d \in Deleters : tx'[d].pc = "idle" => tx'[d].manifests = {} /\ tx'[d].files = {}
  BY DEF LockInv, Exclusive, Locked
<1>2. ASSUME NEW d \in Deleters PROVE Queues(d)'
  BY DEF LockInv, Queues, Committed
<1>3. QED
  BY <1>1, <1>2 DEF LockInv

LEMMA LockDelete ==
    ASSUME TypeInv, LockInv, NEW d \in Deleters,
           \/ \E f \in Files : PermanentDelete(d, f)
           \/ PermanentDeleteSubtree(d) \/ DeleteStep(d)
    PROVE  LockInv'
<1>1. tx \in [Deleters -> TxType] /\ row \in [Files -> RowType]
  BY TypeParts DEF TypeInv
<1>2. ASSUME NEW files, NEW b, LockRows(d, files, b) PROVE LockInv'
  <2> DEFINE held == {ManifestOf[f] : f \in files}
  <2>1. /\ tx' = [tx EXCEPT ![d] = [pc |-> "locked", files |-> files, manifests |-> held,
                                    queue |-> {}, folder |-> b]]
        /\ row' = row
    BY <1>2 DEF LockRows, tables
  <2>2. \A e \in Deleters \ {d} : tx[e].manifests \cap held = {}
    BY <1>2 DEF LockRows, ManifestLocked, OpenTx, LockInv
  <2>3. /\ tx'[d].pc = "locked" /\ tx'[d].files = files /\ tx'[d].manifests = held
        /\ \A e \in Deleters \ {d} : tx'[e] = tx[e]
    BY <1>1, <2>1
  <2>4. Exclusive'
    BY <2>2, <2>3 DEF LockInv, Exclusive
  <2>5. ASSUME NEW e \in Deleters
        PROVE  Locked(e)' /\ Queues(e)' /\ (tx'[e].pc = "idle" => tx'[e].manifests = {} /\ tx'[e].files = {})
    <3>1. CASE e = d
      BY <2>3, <3>1 DEF Locked, Queues
    <3>2. CASE e # d
      BY <2>1, <2>3, <3>2 DEF LockInv, Locked, Queues, Committed
    <3>3. QED
      BY <3>1, <3>2
  <2>6. QED
    BY <2>4, <2>5 DEF LockInv
<1>3. CASE DeleteRows(d)
  <2>1. /\ tx' = [tx EXCEPT ![d] = [tx[d] EXCEPT !.pc = "deleted", !.files = Doomed(d), !.queue = Unreferenced(d)]]
        /\ row' = row /\ tx[d].pc = "locked"
    BY <1>1, <1>3 DEF DeleteRows, tables, TxType
  <2>2. /\ tx'[d].pc = "deleted" /\ tx'[d].files = Doomed(d) /\ tx'[d].queue = Unreferenced(d)
        /\ tx'[d].manifests = tx[d].manifests
        /\ \A e \in Deleters \ {d} : tx'[e] = tx[e]
    BY <1>1, <2>1 DEF TxType
  <2>3. \A f \in Doomed(d) : f \in tx[d].files \/ ManifestOf[f] \notin RootManifests
    <3>1. \A f \in FolderRows : f \in Files /\ f \in FolderFiles
      BY FolderAssumption DEF FolderRows
    <3>2. \A f \in FolderRows : ManifestOf[f] \notin RootManifests
      BY <3>1 DEF RootManifests, FilesOf
    <3>3. QED
      BY <3>2 DEF Doomed
  <2>4. Exclusive'
    BY <2>2 DEF LockInv, Exclusive
  <2>5. ASSUME NEW e \in Deleters
        PROVE  Locked(e)' /\ Queues(e)' /\ (tx'[e].pc = "idle" => tx'[e].manifests = {} /\ tx'[e].files = {})
    <3>1. CASE e = d
      BY <2>1, <2>2, <2>3, <3>1 DEF Locked, Queues, LockInv, Unreferenced, Committed
    <3>2. CASE e # d
      BY <2>1, <2>2, <3>2 DEF LockInv, Locked, Queues, Committed
    <3>3. QED
      BY <3>1, <3>2
  <2>6. QED
    BY <2>4, <2>5 DEF LockInv
<1>4. CASE CommitDelete(d) \/ Rollback(d)
  <2>1. tx' = [tx EXCEPT ![d] = NoTx]
    BY <1>4 DEF CommitDelete, Rollback
  <2>2. tx'[d] = NoTx /\ \A e \in Deleters \ {d} : tx'[e] = tx[e]
    BY <1>1, <2>1
  <2>3. \A f \in Files : row[f].status = "committed" =>
            row'[f].status = "committed" \/ f \in tx[d].files
    BY <1>1, <1>4 DEF CommitDelete, Rollback, tables
  <2>4. Exclusive'
    BY <2>2 DEF LockInv, Exclusive, NoTx
  <2>5. ASSUME NEW e \in Deleters
        PROVE  Locked(e)' /\ Queues(e)' /\ (tx'[e].pc = "idle" => tx'[e].manifests = {} /\ tx'[e].files = {})
    <3>1. CASE e = d
      BY <2>2, <3>1 DEF Locked, Queues, NoTx
    <3>2. CASE e # d
      <4>1. ASSUME NEW m \in tx[e].manifests \cap RootManifests, NEW f \in FilesOf(m), f \in Committed
            PROVE  f \in Committed'
        <5>1. m \notin tx[d].manifests
          BY <3>2, <4>1 DEF LockInv, Exclusive
        <5>2. f \notin tx[d].files
          BY <4>1, <5>1 DEF LockInv, Locked, FilesOf
        <5>3. QED
          BY <2>3, <4>1, <5>2 DEF Committed
      <4>2. Queues(e)'
        BY <2>2, <3>2, <4>1 DEF LockInv, Queues
      <4>3. QED
        BY <2>2, <3>2, <4>2 DEF LockInv, Locked
    <3>3. QED
      BY <3>1, <3>2
  <2>6. QED
    BY <2>4, <2>5 DEF LockInv
<1>5. QED
  BY <1>2, <1>3, <1>4 DEF PermanentDelete, PermanentDeleteSubtree, DeleteStep

LEMMA LockStep ==
    ASSUME TypeInv, Fresh, LockInv, [Next]_vars
    PROVE  LockInv'
<1>1. CASE UNCHANGED vars
  BY <1>1, LockKept DEF vars, tables
<1>2. CASE Crash
  <2>1. \A d \in Deleters : tx'[d] = NoTx
    BY <1>2 DEF Crash
  <2>2. QED
    BY <2>1 DEF LockInv, Exclusive, Locked, Queues, NoTx
<1>3. QED
  BY <1>1, <1>2, CommittedStays, LockKept, LockDelete DEF Next, Rest

\* The transaction that takes away the last reference to bytes that were never uploaded into the
\* folder has the retirement written (queueManifestRetirements), also when references of one
\* manifest are deleted side by side, by hand or with the folder.
THEOREM RootReferenceQueued ==
    Spec => [][\A m \in RootManifests : Referenced(m) /\ ~Referenced(m)' => outbox'[m].status = "pending"]_vars
<1>1. Init => LockInv
  BY LockInit
<1>2. TypeInv /\ Fresh /\ LockInv /\ [Next]_vars => LockInv'
  BY LockStep
<1>3. ASSUME TypeInv, Fresh, LockInv, [Next]_vars
      PROVE  [\A m \in RootManifests : Referenced(m) /\ ~Referenced(m)' => outbox'[m].status = "pending"]_vars
  <2> SUFFICES ASSUME Next, NEW m \in RootManifests, Referenced(m), ~Referenced(m)'
               PROVE  outbox'[m].status = "pending"
    BY <1>3
  <2>1. PICK f \in FilesOf(m) : f \in Committed
    BY DEF Referenced
  <2>2. \A g \in FilesOf(m) : g \in Files /\ g \notin Committed'
    BY DEF Referenced, FilesOf
  <2>3. ~ \A g \in Files : row[g].status = "committed" => row'[g].status = "committed"
    BY <2>1, <2>2 DEF Committed
  <2>4. ~UNCHANGED row
    BY <2>3
  <2>5. PICK d \in Deleters : CommitDelete(d)
    BY <1>3, <2>3, <2>4, CommittedStays DEF Next, Rest, PermanentDelete, PermanentDeleteSubtree, LockRows, DeleteStep,
       DeleteRows, Rollback, Crash, tables
  <2>6. FilesOf(m) \cap Committed \subseteq tx[d].files
    BY <1>3, <2>2, <2>5, TypeParts DEF CommitDelete, Committed, TypeInv, RowType
  <2>7. m \in tx[d].queue
    <3>1. ManifestOf[f] = m /\ f \in tx[d].files /\ tx[d].pc = "deleted"
      BY <2>1, <2>5, <2>6 DEF CommitDelete, FilesOf
    <3>2. Locked(d) /\ Queues(d)
      BY <1>3 DEF LockInv
    <3>3. QED
      BY <2>6, <3>1, <3>2 DEF Locked, Queues
  <2>8. QED
    BY <1>3, <2>5, <2>7 DEF CommitDelete, RootManifests
<1>4. QED
  BY <1>1, <1>2, <1>3, TypeInvariant, FreshInvariant, PTL DEF Spec

\* So the last reference of any manifest is queued as long as no file is in a folder.
THEOREM LastReferenceQueued ==
    ASSUME FolderFiles = {}
    PROVE  Spec => LastDeleteQueues
<1>1. \A m \in Manifests : m \in RootManifests
  BY DEF RootManifests
<1>2. [\A m \in RootManifests : Referenced(m) /\ ~Referenced(m)' => outbox'[m].status = "pending"]_vars
      => [\A m \in Manifests : Referenced(m) /\ ~Referenced(m)' => outbox'[m].status = "pending"]_vars
  BY <1>1
<1>3. QED
  BY <1>2, RootReferenceQueued, PTL DEF LastDeleteQueues

-----------------------------------------------------------------------------
(* A committed file keeps an active manifest, or somebody who will retain it *)

\* Without faults and crashes the outbox is not needed for it: whoever retires a manifest, or commits
\* a file, still has the step ahead that makes it active.
Attending(w, m) == WorkingOn(w, m) /\ wk[w].pc \in {"recheck", "retain"}
Finishing(f) == req[f] \in {"requeue", "retain"}

AttendedAt(m) ==
    Referenced(m) /\ vault[m] # "active" =>
        (\E w \in Workers : Attending(w, m)) \/ (\E f \in FilesOf(m) : Finishing(f))

Attended == \A m \in Manifests : AttendedAt(m)

LEMMA AttendedInit == Init => Attended
BY DEF Init, Attended, AttendedAt, Referenced, Committed, NoRow

\* A step that commits nothing and retires nothing, and after which whoever had to retain still has to.
LEMMA StillAttended ==
    ASSUME Attended, NEW m \in Manifests,
           Referenced(m)' => Referenced(m),
           vault[m] = "active" => vault'[m] = "active",
           vault'[m] = "active"
           \/ /\ \A w \in Workers : Attending(w, m) => Attending(w, m)' \/ ~Referenced(m)'
              /\ \A f \in FilesOf(m) : Finishing(f) => Finishing(f)'
    PROVE  AttendedAt(m)'
BY DEF Attended, AttendedAt, FilesOf

LEMMA AttendedUpload ==
    ASSUME MaxFaults = 0, TypeInv, Attended, NEW f \in Files,
           UploadStep(f) \/ VaultUpload(f) \/ ExpireStalePending(f),
           NEW m \in Manifests
    PROVE  AttendedAt(m)'
<1>1. /\ row \in [Files -> RowType] /\ req \in [Files -> RequestPc]
      /\ vault \in [Manifests -> {"absent", "active", "retired"}] /\ ManifestOf[f] \in Manifests
  BY TypeParts, ManifestAssumption DEF TypeInv
<1>2. ~Fault
  BY DEF Fault, TypeInv, TypeOK
<1>3. UNCHANGED wk
  BY DEF UploadStep, CheckDirectory, CreatePending, VaultUpload, VaultUploadFails,
     MarkCommitted, MarkFailed, RequeueRetirement, RetainUploaded, ExpireStalePending
<1>4. \A w \in Workers : Attending(w, m) => Attending(w, m)'
  BY <1>3 DEF Attending, WorkingOn, Current
<1>5. CASE MarkCommitted(f) /\ row[f].status = "pending"
  <2>1. /\ vault' = vault /\ req' = [req EXCEPT ![f] = "requeue"]
        /\ row' = [row EXCEPT ![f].status = "committed"]
    BY <1>2, <1>5 DEF MarkCommitted, Goto
  <2>2. CASE ManifestOf[f] = m
    <3>1. f \in FilesOf(m) /\ Finishing(f)'
      BY <1>1, <2>1, <2>2 DEF FilesOf, Finishing
    <3>2. QED
      BY <3>1 DEF AttendedAt
  <2>3. CASE ManifestOf[f] # m
    <3>1. Referenced(m)' => Referenced(m)
      BY <1>1, <2>1, <2>3 DEF Referenced, FilesOf, Committed, RowType
    <3>2. \A g \in FilesOf(m) : Finishing(g) => Finishing(g)'
      BY <1>1, <2>1 DEF FilesOf, Finishing
    <3>3. QED
      BY <1>4, <2>1, <3>1, <3>2, StillAttended
  <2>4. QED
    BY <2>2, <2>3
<1>6. CASE RetainUploaded(f) /\ ManifestOf[f] = m
  BY <1>1, <1>2, <1>6 DEF RetainUploaded, Retain, AttendedAt
<1>7. CASE ~(MarkCommitted(f) /\ row[f].status = "pending") /\ ~(RetainUploaded(f) /\ ManifestOf[f] = m)
  <2>1. Referenced(m)' => Referenced(m)
    <3>1. \A g \in Files : row'[g].status = "committed" => row[g].status = "committed"
      BY <1>1, <1>2, <1>7 DEF UploadStep, CheckDirectory, CreatePending, VaultUpload, VaultUploadFails,
         MarkCommitted, MarkFailed, RequeueRetirement, RetainUploaded, ExpireStalePending, RowType, tables
    <3>2. QED
      BY <3>1 DEF Referenced, FilesOf, Committed
  <2>2. vault[m] = "active" => vault'[m] = "active"
    BY <1>1 DEF UploadStep, CheckDirectory, CreatePending, VaultUpload, VaultUploadFails,
       MarkCommitted, MarkFailed, RequeueRetirement, RetainUploaded, ExpireStalePending, Retain
  <2>3. ASSUME NEW g \in FilesOf(m), Finishing(g) PROVE Finishing(g)'
    <3>1. g \in Files /\ ManifestOf[g] = m
      BY DEF FilesOf
    <3>2. g = f => ~MarkCommitted(f)
      BY <2>3, <1>1 DEF MarkCommitted, Finishing
    <3>3. QED
      BY <1>1, <1>2, <1>7, <2>3, <3>1, <3>2 DEF UploadStep, CheckDirectory, CreatePending, VaultUpload,
         VaultUploadFails, MarkCommitted, MarkFailed, RequeueRetirement, RetainUploaded,
         ExpireStalePending, Goto, Finishing
  <2>4. QED
    BY <1>4, <2>1, <2>2, <2>3, StillAttended
<1>8. QED
  BY <1>5, <1>6, <1>7

\* The trash, and the transactions, which only take references away.
LEMMA AttendedRows ==
    ASSUME TypeInv, Attended, NEW m \in Manifests,
           \/ \E f \in Files : SoftDelete(f) \/ Restore(f)
           \/ SoftDeleteSubtree \/ RestoreSubtree
           \/ \E d \in Deleters : \/ \E f \in Files : PermanentDelete(d, f)
                                  \/ PermanentDeleteSubtree(d) \/ DeleteStep(d)
           \/ \E n \in Manifests : LeaseExpires(n)
    PROVE  AttendedAt(m)'
<1>1. row \in [Files -> RowType]
  BY TypeParts DEF TypeInv
<1>2. UNCHANGED <<vault, req, wk>>
  BY DEF SoftDelete, Restore, SoftDeleteSubtree, RestoreSubtree, MarkFolder, PermanentDelete,
     PermanentDeleteSubtree, LockRows, DeleteStep, DeleteRows, CommitDelete, Rollback, LeaseExpires
<1>3. ASSUME NEW f \in Files PROVE row'[f].status = "committed" => row[f].status = "committed"
  <2>1. CASE row' = row
    BY <2>1
  <2>2. ASSUME NEW g \in Files, SoftDelete(g) \/ Restore(g)
        PROVE  row'[f].status = "committed" => row[f].status = "committed"
    BY <1>1, <2>2 DEF SoftDelete, Restore, RowType
  <2>3. ASSUME SoftDeleteSubtree \/ RestoreSubtree
        PROVE  row'[f].status = "committed" => row[f].status = "committed"
    BY <1>1, <2>3 DEF SoftDeleteSubtree, RestoreSubtree, MarkFolder, RowType
  <2>4. ASSUME NEW d \in Deleters, CommitDelete(d)
        PROVE  row'[f].status = "committed" => row[f].status = "committed"
    BY <1>1, <2>4 DEF CommitDelete, NoRow
  <2>5. QED
    BY <2>1, <2>2, <2>3, <2>4 DEF PermanentDelete, PermanentDeleteSubtree, LockRows, DeleteStep, DeleteRows,
       Rollback, LeaseExpires, tables
<1>4. Referenced(m)' => Referenced(m)
  BY <1>3 DEF Referenced, FilesOf, Committed
<1>5. \A w \in Workers : Attending(w, m) => Attending(w, m)'
  BY <1>2 DEF Attending, WorkingOn, Current
<1>6. QED
  BY <1>2, <1>4, <1>5, StillAttended DEF Finishing

LEMMA AttendedWorker ==
    ASSUME MaxFaults = 0, TypeInv, Attended, NEW w \in Workers, Claim(w) \/ WorkerStep(w),
           NEW m \in Manifests
    PROVE  AttendedAt(m)'
<1>1. /\ wk \in [Workers -> WorkType] /\ Busy
      /\ vault \in [Manifests -> {"absent", "active", "retired"}]
  BY TypeParts DEF TypeInv
<1>2. ~Fault
  BY DEF Fault, TypeInv, TypeOK
<1>3. UNCHANGED <<row, req>>
  BY DEF Claim, WorkerStep, CheckReferences, RetireCall, Recheck, RetainCall, Complete, MarkRetirementFailed,
     tables
<1>4. Referenced(m)' = Referenced(m) /\ \A f \in FilesOf(m) : Finishing(f) => Finishing(f)'
  BY <1>3 DEF Referenced, FilesOf, Committed, Finishing
<1>5. \A v \in Workers \ {w} : wk'[v] = wk[v]
  BY <1>1 DEF Claim, WorkerStep, CheckReferences, RetireCall, Recheck, RetainCall, Complete,
     MarkRetirementFailed, WorkerGoto, NextInBatch
<1>6. \A v \in Workers \ {w} : Attending(v, m) => Attending(v, m)'
  BY <1>5 DEF Attending, WorkingOn, Current
<1>7. CASE wk[w].pc \notin {"recheck", "retain"} /\ ~RetireCall(w)
  <2>1. vault' = vault
    BY <1>7 DEF Claim, WorkerStep, CheckReferences, RetainCall, Recheck, Complete, MarkRetirementFailed
  <2>2. QED
    BY <1>4, <1>6, <1>7, <2>1, StillAttended DEF Attending
<1>8. CASE RetireCall(w)
  <2>1. vault' = [vault EXCEPT ![Current(w)] = IF vault[Current(w)] = "active" THEN "retired" ELSE vault[Current(w)]]
    BY <1>2, <1>8 DEF RetireCall, Retire
  <2>2. wk' = [wk EXCEPT ![w].pc = "recheck"] /\ wk[w].pc = "retire"
    BY <1>2, <1>8 DEF RetireCall, WorkerGoto
  <2>3. CASE Current(w) = m
    <3>1. wk'[w].batch = wk[w].batch /\ wk'[w].pc = "recheck" /\ wk[w].batch # {}
      BY <1>1, <2>2 DEF Busy, WorkType
    <3>2. Attending(w, m)'
      BY <2>3, <3>1 DEF Attending, WorkingOn, Current
    <3>3. QED
      BY <3>2 DEF AttendedAt
  <2>4. CASE Current(w) # m
    <3>1. vault'[m] = vault[m]
      BY <1>1, <2>1, <2>4
    <3>2. ~Attending(w, m)
      BY <2>2 DEF Attending
    <3>3. QED
      BY <1>4, <1>6, <3>1, <3>2, StillAttended
  <2>5. QED
    BY <2>3, <2>4
<1>9. CASE Recheck(w)
  <2>1. /\ vault' = vault
        /\ wk' = [wk EXCEPT ![w].pc = IF Referenced(Current(w)) THEN "retain" ELSE "complete"]
    BY <1>2, <1>9 DEF Recheck, WorkerGoto
  <2>2. Attending(w, m) /\ Referenced(m) => Attending(w, m)'
    <3>1. wk'[w].batch = wk[w].batch
      BY <1>1, <2>1 DEF WorkType
    <3>2. Referenced(Current(w)) => wk'[w].pc = "retain"
      BY <1>1, <2>1 DEF WorkType
    <3>3. QED
      BY <3>1, <3>2 DEF Attending, WorkingOn, Current
  <2>3. QED
    BY <1>4, <1>6, <2>1, <2>2, StillAttended
<1>10. CASE RetainCall(w)
  <2>1. vault' = [vault EXCEPT ![Current(w)] = "active"]
    BY <1>2, <1>10 DEF RetainCall, Retain
  <2>2. CASE Current(w) = m
    BY <1>1, <2>1, <2>2 DEF AttendedAt
  <2>3. CASE Current(w) # m
    BY <1>1, <1>4, <1>6, <2>1, <2>3, StillAttended DEF Attending, WorkingOn
  <2>4. QED
    BY <2>2, <2>3
<1>11. QED
  BY <1>7, <1>8, <1>9, <1>10 DEF WorkerStep, Claim, CheckReferences, Complete, MarkRetirementFailed

LEMMA AttendedStep ==
    ASSUME MaxFaults = 0, MaxCrashes = 0, TypeInv, Attended, [Next]_vars
    PROVE  Attended'
<1>1. ~Crash
  BY DEF Crash, TypeInv, TypeOK
<1>2. CASE UNCHANGED vars
  BY <1>2 DEF vars, tables, Attended, AttendedAt, Attending, Finishing, Referenced, Committed, WorkingOn, Current,
     FilesOf
<1>3. CASE Next
  <2> SUFFICES ASSUME NEW m \in Manifests PROVE AttendedAt(m)'
    BY DEF Attended
  <2>1. QED
    BY <1>1, <1>3, AttendedUpload, AttendedRows, AttendedWorker DEF Next, Rest
<1>4. QED
  BY <1>2, <1>3

\* Without faults and crashes, a committed file has an active manifest or somebody who is about to
\* retain it, whatever uploads, deletes and workers overlap.
THEOREM CommittedAttended ==
    ASSUME MaxFaults = 0, MaxCrashes = 0
    PROVE  Spec => []CommittedStaysActive
<1>1. Init => Attended
  BY AttendedInit
<1>2. TypeInv /\ Attended /\ [Next]_vars => Attended'
  BY AttendedStep
<1>3. Attended => CommittedStaysActive
  BY DEF Attended, AttendedAt, Attending, Finishing, CommittedStaysActive
<1>4. QED
  BY <1>1, <1>2, <1>3, TypeInvariant, PTL DEF Spec

-----------------------------------------------------------------------------
(* What the collector may take *)

\* A manifest whose grace period is over has no committed file and no upload about to commit one, and
\* the service stops only while nothing is under way.
ReadInv ==
    /\ down => Quiet
    /\ \A m \in Manifests : Referenced(m) => m \in bytes /\ m \notin aged
    /\ \A f \in Files : req[f] = "commit" => ManifestOf[f] \in bytes /\ ManifestOf[f] \notin aged

LEMMA ReadInit == SystemInit => ReadInv
BY DEF SystemInit, Init, ReadInv, Referenced, Committed, NoRow

\* Only MarkCommitted makes a file committed, and only the vault's answer leads to it.
LEMMA RestCommits ==
    ASSUME TypeInv, Rest, NEW f \in Files
    PROVE  /\ row'[f].status = "committed" => row[f].status = "committed" \/ req[f] = "commit"
           /\ req'[f] = "commit" => req[f] = "commit"
<1>1. row \in [Files -> RowType] /\ req \in [Files -> RequestPc]
  BY TypeParts DEF TypeInv
<1>2. CASE row' = row /\ req' = req
  BY <1>2
<1>3. ASSUME NEW g \in Files, UploadStep(g) \/ ExpireStalePending(g) \/ SoftDelete(g) \/ Restore(g)
      PROVE  /\ row'[f].status = "committed" => row[f].status = "committed" \/ req[f] = "commit"
             /\ req'[f] = "commit" => req[f] = "commit"
  BY <1>1, <1>3 DEF UploadStep, CheckDirectory, CreatePending, VaultUploadFails, MarkCommitted, MarkFailed,
     RequeueRetirement, RetainUploaded, ExpireStalePending, SoftDelete, Restore, Goto, tables, RowType, RequestPc
<1>4. ASSUME SoftDeleteSubtree \/ RestoreSubtree
      PROVE  /\ row'[f].status = "committed" => row[f].status = "committed"
             /\ req' = req
  BY <1>1, <1>4 DEF SoftDeleteSubtree, RestoreSubtree, MarkFolder, RowType
<1>5. ASSUME NEW d \in Deleters, CommitDelete(d)
      PROVE  /\ row'[f].status = "committed" => row[f].status = "committed"
             /\ req' = req
  BY <1>1, <1>5 DEF CommitDelete, NoRow
<1>6. CASE Crash
  BY <1>1, <1>6 DEF Crash, tables, RequestPc
<1>7. QED
  BY <1>2, <1>3, <1>4, <1>5, <1>6 DEF Rest, PermanentDelete, PermanentDeleteSubtree, LockRows, DeleteStep,
     DeleteRows, Rollback, Claim, WorkerStep, CheckReferences, RetireCall, Recheck, RetainCall, Complete,
     MarkRetirementFailed, LeaseExpires, tables

LEMMA ReadService ==
    ASSUME MaxCrashes = 0, TypeInv, ReadInv, Service
    PROVE  ReadInv'
<1>1. /\ vault \in [Manifests -> {"absent", "active", "retired"}] /\ req \in [Files -> RequestPc]
      /\ ManifestOf \in [Files -> Manifests]
  BY TypeParts, ManifestAssumption DEF TypeInv
<1>2. crashes' = crashes
  <2>1. ~Crash
    BY DEF Crash, TypeInv, TypeOK
  <2>2. ASSUME NEW f \in Files, UploadStep(f) \/ VaultUpload(f) \/ ExpireStalePending(f) \/ SoftDelete(f) \/ Restore(f)
        PROVE  crashes' = crashes
    BY <2>2 DEF UploadStep, CheckDirectory, CreatePending, VaultUpload, VaultUploadFails, MarkCommitted,
       MarkFailed, RequeueRetirement, RetainUploaded, ExpireStalePending, SoftDelete, Restore, bounds
  <2>3. ASSUME NEW d \in Deleters,
               (\E f \in Files : PermanentDelete(d, f)) \/ PermanentDeleteSubtree(d) \/ DeleteStep(d)
        PROVE  crashes' = crashes
    BY <2>3 DEF PermanentDelete, PermanentDeleteSubtree, LockRows, DeleteStep, DeleteRows, CommitDelete,
       Rollback, bounds
  <2>4. ASSUME SoftDeleteSubtree \/ RestoreSubtree PROVE crashes' = crashes
    BY <2>4 DEF SoftDeleteSubtree, RestoreSubtree, MarkFolder, bounds
  <2>5. ASSUME NEW w \in Workers, Claim(w) \/ WorkerStep(w) PROVE crashes' = crashes
    BY <2>5 DEF Claim, WorkerStep, CheckReferences, RetireCall, Recheck, RetainCall, Complete,
       MarkRetirementFailed, bounds
  <2>6. ASSUME NEW m \in Manifests, LeaseExpires(m) PROVE crashes' = crashes
    BY <2>6 DEF LeaseExpires, bounds
  <2>7. QED
    BY <2>1, <2>2, <2>3, <2>4, <2>5, <2>6 DEF Service, Rest
<1>3. ~down'
  BY <1>2 DEF Service
<1>4. aged' \subseteq aged /\ \A m \in aged' : vault'[m] = "retired"
  BY DEF Service, StillRetired
<1>5. CASE Rest /\ UNCHANGED bytes
  <2>1. ASSUME NEW m \in Manifests, Referenced(m)' PROVE m \in bytes' /\ m \notin aged'
    <3>1. PICK f \in Files : ManifestOf[f] = m /\ row'[f].status = "committed"
      BY <2>1 DEF Referenced, FilesOf, Committed
    <3>2. row[f].status = "committed" \/ req[f] = "commit"
      BY <1>5, <3>1, RestCommits
    <3>3. row[f].status = "committed" => Referenced(m)
      BY <3>1 DEF Referenced, FilesOf, Committed
    <3>4. QED
      BY <1>4, <1>5, <3>1, <3>2, <3>3 DEF ReadInv
  <2>2. ASSUME NEW f \in Files, req'[f] = "commit"
        PROVE  ManifestOf[f] \in bytes' /\ ManifestOf[f] \notin aged'
    BY <1>4, <1>5, <2>2, RestCommits DEF ReadInv
  <2>3. QED
    BY <1>3, <2>1, <2>2 DEF ReadInv
<1>6. ASSUME NEW f \in Files, VaultUpload(f), bytes' = bytes \cup {ManifestOf[f]} PROVE ReadInv'
  <2>1. /\ row' = row /\ vault' = [vault EXCEPT ![ManifestOf[f]] = "active"]
        /\ \A g \in Files \ {f} : req'[g] = req[g]
    BY <1>1, <1>6 DEF VaultUpload, Goto, tables
  <2>2. ManifestOf[f] \in bytes' /\ ManifestOf[f] \notin aged'
    BY <1>1, <1>4, <1>6, <2>1
  <2>3. \A m \in Manifests : Referenced(m)' => m \in bytes' /\ m \notin aged'
    BY <1>4, <1>6, <2>1 DEF ReadInv, Referenced, FilesOf, Committed
  <2>4. \A g \in Files : req'[g] = "commit" => ManifestOf[g] \in bytes' /\ ManifestOf[g] \notin aged'
    BY <1>4, <1>6, <2>1, <2>2 DEF ReadInv
  <2>5. QED
    BY <1>3, <2>3, <2>4 DEF ReadInv
<1>7. QED
  BY <1>5, <1>6 DEF Service

\* The grace period of a manifest ends while nobody is at work: then no committed file has it.
LEMMA ReadGrace ==
    ASSUME TypeInv, Attended, ReadInv, NEW m \in Manifests, GraceEnds(m)
    PROVE  ReadInv'
<1>1. Quiet /\ vault[m] = "retired"
  BY DEF GraceEnds, Idle, ReadInv
<1>2. ~Referenced(m)
  BY <1>1 DEF Quiet, Attended, AttendedAt, Attending, Finishing, FilesOf
<1>3. \A f \in Files : req[f] # "commit"
  BY <1>1 DEF Quiet
<1>4. UNCHANGED <<vars, bytes, down>> /\ aged' = aged \cup {m}
  BY DEF GraceEnds
<1>5. QED
  BY <1>2, <1>3, <1>4 DEF ReadInv, Quiet, Referenced, FilesOf, Committed, vars, tables

LEMMA ReadStep ==
    ASSUME MaxFaults = 0, MaxCrashes = 0, TypeInv, Attended, ReadInv, [SystemNext]_system
    PROVE  ReadInv'
<1> USE DEF Quiet, Referenced, FilesOf, Committed, vars, tables
<1>1. CASE UNCHANGED system
  BY <1>1 DEF system, ReadInv
<1>2. CASE Stop \/ Restart
  BY <1>2 DEF Stop, Restart, ReadInv
<1>3. ASSUME NEW m \in Manifests, Collect(m) PROVE ReadInv'
  BY <1>3 DEF Collect, ReadInv
<1>4. QED
  BY <1>1, <1>2, <1>3, ReadService, ReadGrace DEF SystemNext

\* Without faults and crashes, every committed file can be read back: the collector takes nothing that a
\* file has or that an upload is about to commit.
THEOREM CommittedFilesReadable ==
    ASSUME MaxFaults = 0, MaxCrashes = 0
    PROVE  SystemSpec => []CommittedReadable
<1>1. SystemInit => ReadInv
  BY ReadInit
<1>2. SystemSpec => [](TypeInv /\ Attended)
  <2>1. Init => Attended
    BY AttendedInit
  <2>2. TypeInv /\ Attended /\ [Next]_vars => Attended'
    BY AttendedStep
  <2>3. QED
    BY <2>1, <2>2, TypeInvariant, SystemRefines, PTL DEF Spec
<1>3. TypeInv /\ Attended /\ ReadInv /\ [SystemNext]_system => ReadInv'
  BY ReadStep
<1>4. ReadInv => CommittedReadable
  BY DEF ReadInv, CommittedReadable
<1>5. QED
  BY <1>1, <1>2, <1>3, <1>4, PTL DEF SystemSpec
-----------------------------------------------------------------------------
(* The service and the collector use the vault as it promises *)

\* Whatever still names a manifest names one the vault has taken.
Known(m) == vault[m] # "absent"

KnownInv ==
    /\ \A m \in Manifests : outbox[m].status # "none" => Known(m)
    /\ \A f \in Files : row[f].status = "committed" \/ req[f] \in {"commit", "requeue", "retain"} =>
           Known(ManifestOf[f])
    /\ \A d \in Deleters : tx[d].queue \subseteq tx[d].manifests /\ \A m \in tx[d].manifests : Known(m)
    /\ \A w \in Workers : \A m \in wk[w].batch : Known(m)

LEMMA KnownInit == Init => KnownInv
BY DEF Init, KnownInv, NoRow, NoRequest, NoTx, NoWork

\* What a step other than an upload's call does to the vault: a retire, a retain, or nothing.
LEMMA RestVault ==
    ASSUME TypeInv, KnownInv, Rest
    PROVE  \/ \E m \in Manifests : vault[m] = "active" /\ Retire(m)
           \/ \E m \in Manifests : vault[m] = "retired" /\ Retain(m)
           \/ UNCHANGED vault
<1>1. vault \in [Manifests -> {"absent", "active", "retired"}] /\ ManifestOf \in [Files -> Manifests]
  BY TypeParts, ManifestAssumption DEF TypeInv
<1>2. ASSUME NEW m \in Manifests, Retire(m)
      PROVE  (vault[m] = "active" /\ Retire(m)) \/ UNCHANGED vault
  BY <1>1, <1>2 DEF Retire
<1>3. ASSUME NEW m \in Manifests, Known(m), Retain(m)
      PROVE  (vault[m] = "retired" /\ Retain(m)) \/ UNCHANGED vault
  BY <1>1, <1>3 DEF Retain, Known
<1>4. ASSUME NEW f \in Files, RetainUploaded(f)
      PROVE  (\E m \in Manifests : vault[m] = "retired" /\ Retain(m)) \/ UNCHANGED vault
  <2>1. Known(ManifestOf[f])
    BY <1>4 DEF RetainUploaded, KnownInv
  <2>2. Retain(ManifestOf[f]) \/ UNCHANGED vault
    BY <1>4 DEF RetainUploaded
  <2>3. QED
    BY <1>1, <1>3, <2>1, <2>2
<1>5. ASSUME NEW w \in Workers, RetireCall(w) \/ RetainCall(w)
      PROVE  \/ \E m \in Manifests : vault[m] = "active" /\ Retire(m)
             \/ \E m \in Manifests : vault[m] = "retired" /\ Retain(m)
             \/ UNCHANGED vault
  <2>1. Current(w) \in Manifests /\ Known(Current(w))
    BY <1>5, CurrentInBatch DEF RetireCall, RetainCall, KnownInv
  <2>2. Retire(Current(w)) \/ Retain(Current(w)) \/ UNCHANGED vault
    BY <1>5 DEF RetireCall, RetainCall
  <2>3. QED
    BY <1>2, <1>3, <2>1, <2>2
<1>6. CASE UNCHANGED vault
  BY <1>6
<1>7. QED
  BY <1>4, <1>5, <1>6 DEF Rest, UploadStep, CheckDirectory, CreatePending, VaultUploadFails, MarkCommitted,
     MarkFailed, RequeueRetirement, ExpireStalePending, SoftDelete, Restore, SoftDeleteSubtree,
     RestoreSubtree, MarkFolder, PermanentDelete, PermanentDeleteSubtree, LockRows, DeleteStep, DeleteRows,
     CommitDelete, Rollback, Claim, WorkerStep, CheckReferences, Recheck, Complete, MarkRetirementFailed,
     LeaseExpires, Crash

\* A manifest the vault has taken is never forgotten.
LEMMA KnownForGood ==
    ASSUME TypeInv, KnownInv, [Next]_vars, NEW m \in Manifests, Known(m)
    PROVE  Known(m)'
<1>1. vault \in [Manifests -> {"absent", "active", "retired"}] /\ ManifestOf \in [Files -> Manifests]
  BY TypeParts, ManifestAssumption DEF TypeInv
<1>2. QED
  BY <1>1, RestVault DEF Known, VaultUpload, Retire, Retain, Next, vars

LEMMA KnownOutbox ==
    ASSUME TypeInv, KnownInv, [Next]_vars, NEW m \in Manifests, outbox'[m].status # "none"
    PROVE  Known(m)
<1>1. outbox \in [Manifests -> RequestType] /\ wk \in [Workers -> WorkType]
  BY TypeParts DEF TypeInv
<1>2. CASE outbox'[m].status # "none" => outbox[m].status # "none"
  BY <1>2 DEF KnownInv
<1>3. ASSUME NEW d \in Deleters, CommitDelete(d) PROVE Known(m)
  BY <1>1, <1>3 DEF CommitDelete, KnownInv
<1>4. ASSUME NEW f \in Files, RequeueRetirement(f) PROVE Known(m)
  BY <1>1, <1>4 DEF RequeueRetirement, Requeue, KnownInv
<1>5. ASSUME NEW w \in Workers, Complete(w) \/ MarkRetirementFailed(w) PROVE Known(m)
  <2>1. Current(w) \in wk[w].batch
    BY <1>5, CurrentInBatch DEF Complete, MarkRetirementFailed
  <2>2. CASE m = Current(w)
    BY <2>1, <2>2 DEF KnownInv
  <2>3. CASE m # Current(w)
    BY <1>1, <1>5, <2>3 DEF Complete, MarkRetirementFailed, KnownInv
  <2>4. QED
    BY <2>2, <2>3
<1>6. ASSUME NEW w \in Workers, Claim(w) PROVE Known(m)
  BY <1>1, <1>6 DEF Claim, KnownInv, RequestType
<1>7. ASSUME NEW n \in Manifests, LeaseExpires(n) PROVE Known(m)
  BY <1>1, <1>7 DEF LeaseExpires, KnownInv, RequestType
<1>8. QED
  BY <1>2, <1>3, <1>4, <1>5, <1>6, <1>7 DEF Next, Rest, UploadStep, CheckDirectory, CreatePending, VaultUpload,
     VaultUploadFails, MarkCommitted, MarkFailed, RetainUploaded, ExpireStalePending, SoftDelete, Restore,
     SoftDeleteSubtree, RestoreSubtree, MarkFolder, PermanentDelete, PermanentDeleteSubtree, LockRows,
     DeleteStep, DeleteRows, Rollback, WorkerStep, CheckReferences, RetireCall, Recheck, RetainCall, Crash,
     vars, tables

LEMMA RestFinishes ==
    ASSUME TypeInv, Rest, NEW f \in Files, req'[f] \in {"requeue", "retain"}
    PROVE  req[f] \in {"commit", "requeue", "retain"}
<1>1. req \in [Files -> RequestPc]
  BY TypeParts DEF TypeInv
<1>2. CASE req' = req
  BY <1>2
<1>3. ASSUME NEW g \in Files, UploadStep(g) PROVE req[f] \in {"commit", "requeue", "retain"}
  BY <1>1, <1>3 DEF UploadStep, CheckDirectory, CreatePending, VaultUploadFails, MarkCommitted, MarkFailed,
     RequeueRetirement, RetainUploaded, Goto, RequestPc
<1>4. CASE Crash
  BY <1>1, <1>4 DEF Crash, RequestPc
<1>5. QED
  BY <1>2, <1>3, <1>4 DEF Rest, ExpireStalePending, SoftDelete, Restore, SoftDeleteSubtree, RestoreSubtree,
     MarkFolder, PermanentDelete, PermanentDeleteSubtree, LockRows, DeleteStep, DeleteRows, CommitDelete,
     Rollback, Claim, WorkerStep, CheckReferences, RetireCall, Recheck, RetainCall, Complete,
     MarkRetirementFailed, LeaseExpires

\* The vault's answer comes before everything an upload does next.
LEMMA KnownFiles ==
    ASSUME TypeInv, KnownInv, [Next]_vars, NEW f \in Files,
           row'[f].status = "committed" \/ req'[f] \in {"commit", "requeue", "retain"}
    PROVE  Known(ManifestOf[f])'
<1>1. /\ row \in [Files -> RowType] /\ req \in [Files -> RequestPc] /\ ManifestOf \in [Files -> Manifests]
      /\ vault \in [Manifests -> {"absent", "active", "retired"}]
  BY TypeParts, ManifestAssumption DEF TypeInv
<1>2. CASE row[f].status = "committed" \/ req[f] \in {"commit", "requeue", "retain"}
  BY <1>1, <1>2, KnownForGood DEF KnownInv
<1>3. CASE VaultUpload(f)
  BY <1>1, <1>3 DEF VaultUpload, Known
<1>4. CASE ~VaultUpload(f) /\ row[f].status # "committed" /\ req[f] \notin {"commit", "requeue", "retain"}
  <2>1. CASE row' = row /\ req' = req
    BY <1>4, <2>1
  <2>2. ASSUME NEW g \in Files, VaultUpload(g)
        PROVE  row' = row /\ req'[f] = req[f]
    BY <1>1, <1>4, <2>2 DEF VaultUpload, Goto, tables
  <2>3. CASE Rest
    BY <1>1, <1>4, <2>3, RestCommits, RestFinishes
  <2>4. QED
    BY <1>4, <2>1, <2>2, <2>3 DEF Next, vars, tables
<1>5. QED
  BY <1>2, <1>3, <1>4

LEMMA KnownTx ==
    ASSUME TypeInv, KnownInv, [Next]_vars, NEW d \in Deleters
    PROVE  tx'[d].queue \subseteq tx'[d].manifests /\ \A m \in tx'[d].manifests : Known(m)'
<1>1. tx \in [Deleters -> TxType] /\ ManifestOf \in [Files -> Manifests]
  BY TypeParts, ManifestAssumption DEF TypeInv
<1>2. ASSUME tx'[d].manifests \subseteq tx[d].manifests, tx'[d].queue \subseteq tx'[d].manifests
      PROVE  tx'[d].queue \subseteq tx'[d].manifests /\ \A m \in tx'[d].manifests : Known(m)'
  BY <1>1, <1>2, KnownForGood DEF KnownInv, TxType
<1>3. CASE tx'[d] = tx[d]
  BY <1>2, <1>3 DEF KnownInv
<1>4. CASE tx'[d] = NoTx
  BY <1>4 DEF NoTx
<1>5. ASSUME NEW files \in SUBSET Committed, NEW b, LockRows(d, files, b)
      PROVE  tx'[d].queue \subseteq tx'[d].manifests /\ \A m \in tx'[d].manifests : Known(m)'
  <2>1. tx'[d].manifests = {ManifestOf[f] : f \in files} /\ tx'[d].queue = {}
    BY <1>1, <1>5 DEF LockRows
  <2>2. ASSUME NEW f \in files PROVE Known(ManifestOf[f])'
    <3>1. f \in Files /\ row[f].status = "committed"
      BY DEF Committed
    <3>2. ManifestOf[f] \in Manifests /\ Known(ManifestOf[f])
      BY <1>1, <3>1 DEF KnownInv
    <3>3. QED
      BY <3>2, KnownForGood
  <2>3. QED
    BY <2>1, <2>2
<1>6. CASE DeleteRows(d)
  <2>1. tx'[d].manifests = tx[d].manifests /\ tx'[d].queue = Unreferenced(d)
    BY <1>1, <1>6 DEF DeleteRows, TxType
  <2>2. QED
    BY <1>2, <2>1 DEF Unreferenced
<1>7. ASSUME NEW e \in Deleters,
             (\E f \in Files : PermanentDelete(e, f)) \/ PermanentDeleteSubtree(e) \/ DeleteStep(e)
      PROVE  tx'[d].queue \subseteq tx'[d].manifests /\ \A m \in tx'[d].manifests : Known(m)'
  <2>1. CASE e # d
    <3>1. tx'[d] = tx[d]
      BY <1>1, <1>7, <2>1 DEF PermanentDelete, PermanentDeleteSubtree, LockRows, DeleteStep, DeleteRows,
         CommitDelete, Rollback
    <3>2. QED
      BY <1>3, <3>1
  <2>2. CASE e = d
    <3>1. CASE CommitDelete(d) \/ Rollback(d)
      BY <1>1, <1>4, <3>1 DEF CommitDelete, Rollback
    <3>2. ASSUME NEW f \in Files, PermanentDelete(d, f)
          PROVE  tx'[d].queue \subseteq tx'[d].manifests /\ \A m \in tx'[d].manifests : Known(m)'
      BY <1>5, <3>2 DEF PermanentDelete
    <3>3. CASE PermanentDeleteSubtree(d)
      BY <1>5, <3>3 DEF PermanentDeleteSubtree
    <3>4. QED
      BY <1>6, <1>7, <2>2, <3>1, <3>2, <3>3 DEF DeleteStep
  <2>3. QED
    BY <2>1, <2>2
<1>8. CASE Crash
  BY <1>4, <1>8 DEF Crash
<1>9. CASE UNCHANGED tx
  BY <1>3, <1>9
<1>10. QED
  BY <1>7, <1>8, <1>9 DEF Next, Rest, UploadStep, CheckDirectory, CreatePending, VaultUpload,
     VaultUploadFails, MarkCommitted, MarkFailed, RequeueRetirement, RetainUploaded, ExpireStalePending,
     SoftDelete, Restore, SoftDeleteSubtree, RestoreSubtree, MarkFolder, Claim, WorkerStep, CheckReferences,
     RetireCall, Recheck, RetainCall, Complete, MarkRetirementFailed, LeaseExpires, vars

LEMMA KnownWork ==
    ASSUME TypeInv, KnownInv, [Next]_vars, NEW w \in Workers, NEW m \in wk'[w].batch
    PROVE  Known(m)'
<1>1. wk \in [Workers -> WorkType]
  BY TypeParts DEF TypeInv
<1>2. CASE m \in wk[w].batch
  BY <1>1, <1>2, KnownForGood DEF KnownInv, WorkType
<1>3. CASE Claim(w)
  <2>1. m \in Manifests /\ outbox[m].status = "pending"
    BY <1>1, <1>3 DEF Claim, Due
  <2>2. QED
    BY <2>1, KnownForGood DEF KnownInv
<1>4. ASSUME NEW v \in Workers, Claim(v) \/ WorkerStep(v), ~(v = w /\ Claim(v))
      PROVE  m \in wk[w].batch
  BY <1>1, <1>4 DEF Claim, WorkerStep, CheckReferences, RetireCall, Recheck, RetainCall, Complete,
     MarkRetirementFailed, WorkerGoto, NextInBatch, NoWork, WorkType
<1>5. CASE Crash
  BY <1>5 DEF Crash, NoWork
<1>6. CASE UNCHANGED wk
  BY <1>2, <1>6
<1>7. QED
  BY <1>2, <1>3, <1>4, <1>5, <1>6 DEF Next, Rest, UploadStep, CheckDirectory, CreatePending, VaultUpload,
     VaultUploadFails, MarkCommitted, MarkFailed, RequeueRetirement, RetainUploaded, ExpireStalePending,
     SoftDelete, Restore, SoftDeleteSubtree, RestoreSubtree, MarkFolder, PermanentDelete,
     PermanentDeleteSubtree, LockRows, DeleteStep, DeleteRows, CommitDelete, Rollback, LeaseExpires, vars

LEMMA KnownStep == TypeInv /\ KnownInv /\ [Next]_vars => KnownInv'
<1> SUFFICES ASSUME TypeInv, KnownInv, [Next]_vars PROVE KnownInv'
  OBVIOUS
<1>1. \A m \in Manifests : outbox'[m].status # "none" => Known(m)'
  BY KnownOutbox, KnownForGood
<1>2. QED
  BY <1>1, KnownFiles, KnownTx, KnownWork DEF KnownInv

\* Every step of the service and of the collector is one the vault offers, or not visible to it.
LEMMA ContractStep ==
    ASSUME TypeInv, KnownInv, [SystemNext]_system
    PROVE  [Vault!Next]_(Vault!vars)
<1>1. ManifestOf \in [Files -> Manifests]
  BY ManifestAssumption
<1>2. CASE UNCHANGED <<vault, bytes>>
  BY <1>2 DEF Vault!vars
<1>3. CASE Service
  <2>1. ASSUME NEW f \in Files, VaultUpload(f), bytes' = bytes \cup {ManifestOf[f]} PROVE Vault!Next
    <3>1. Vault!Put(ManifestOf[f])
      BY <2>1 DEF VaultUpload, Vault!Put
    <3>2. QED
      BY <1>1, <3>1 DEF Vault!Next
  <2>2. ASSUME Rest, UNCHANGED bytes PROVE Vault!Next \/ UNCHANGED <<vault, bytes>>
    <3>1. ASSUME NEW m \in Manifests, vault[m] = "active", Retire(m) PROVE Vault!Retire(m)
      <4>1. vault' = [vault EXCEPT ![m] = "retired"]
        BY <3>1 DEF Retire
      <4>2. QED
        BY <2>2, <3>1, <4>1 DEF Vault!Retire
    <3>2. ASSUME NEW m \in Manifests, vault[m] = "retired", Retain(m) PROVE Vault!Retain(m)
      BY <2>2, <3>2 DEF Retain, Vault!Retain
    <3>3. QED
      BY <2>2, <3>1, <3>2, RestVault DEF Vault!Next
  <2>3. QED
    BY <1>2, <1>3, <2>1, <2>2 DEF Service
<1>4. ASSUME NEW m \in Manifests, Collect(m) PROVE Vault!Next
  <2>1. Vault!Reclaim({m})
    BY <1>4 DEF Collect, Vault!Reclaim, Vault!RetiredSet, vars
  <2>2. QED
    BY <2>1 DEF Vault!Next
<1>5. QED
  BY <1>2, <1>3, <1>4 DEF SystemNext, Stop, Restart, GraceEnds, vars, system

\* Whatever fails or crashes, the service puts, retires and retains manifests and the collector reclaims
\* retired ones as ContentStore allows: none is retained that the vault has never taken.
THEOREM ServiceKeepsContract == SystemSpec => VaultContract
<1>1. SystemInit => Vault!Init
  BY DEF SystemInit, Init, Vault!Init
<1>2. Spec => [](TypeInv /\ KnownInv)
  BY KnownInit, KnownStep, TypeInvariant, PTL DEF Spec
<1>3. TypeInv /\ KnownInv /\ [SystemNext]_system => [Vault!Next]_(Vault!vars)
  BY ContractStep
<1>4. QED
  BY <1>1, <1>2, <1>3, SystemRefines, PTL DEF SystemSpec, VaultContract, Vault!Spec
-----------------------------------------------------------------------------
(* What no fault and no crash can lose *)

Asked(m) == outbox[m].status # "none"

\* Workers only have what has been queued.
AskedInv == \A w \in Workers : \A m \in wk[w].batch : Asked(m)

\* A request is queued by a permanent delete, and never taken out of the outbox again.
LEMMA AskedOnce ==
    ASSUME TypeInv, AskedInv, [Next]_vars, NEW m \in Manifests
    PROVE  /\ Asked(m) => Asked(m)'
           /\ Asked(m)' => Asked(m) \/ \E d \in Deleters : CommitDelete(d) /\ m \in tx[d].queue
<1>1. outbox \in [Manifests -> RequestType]
  BY TypeParts DEF TypeInv
<1>2. CASE Asked(m)' <=> Asked(m)
  BY <1>2
<1>3. ASSUME NEW d \in Deleters, CommitDelete(d)
      PROVE  /\ Asked(m) => Asked(m)'
             /\ Asked(m)' => Asked(m) \/ m \in tx[d].queue
  BY <1>1, <1>3 DEF CommitDelete, Asked
<1>4. ASSUME NEW f \in Files, RequeueRetirement(f) PROVE Asked(m)' <=> Asked(m)
  BY <1>1, <1>4 DEF RequeueRetirement, Requeue, Asked
<1>5. ASSUME NEW w \in Workers, Complete(w) \/ MarkRetirementFailed(w) PROVE Asked(m)' <=> Asked(m)
  <2>1. Asked(Current(w))
    BY <1>5, CurrentInBatch DEF Complete, MarkRetirementFailed, AskedInv
  <2>2. m # Current(w) => outbox'[m] = outbox[m]
    BY <1>1, <1>5 DEF Complete, MarkRetirementFailed
  <2>3. m = Current(w) => outbox'[m].status \in {outbox[m].status, "completed", "pending"}
    BY <1>1, <1>5 DEF Complete, MarkRetirementFailed, RequestType
  <2>4. QED
    BY <2>1, <2>2, <2>3 DEF Asked
<1>6. ASSUME NEW w \in Workers, Claim(w) PROVE Asked(m)' <=> Asked(m)
  BY <1>1, <1>6 DEF Claim, Asked, RequestType
<1>7. ASSUME NEW n \in Manifests, LeaseExpires(n) PROVE Asked(m)' <=> Asked(m)
  BY <1>1, <1>7 DEF LeaseExpires, Asked, RequestType
<1>8. CASE UNCHANGED outbox
  BY <1>8 DEF Asked
<1>9. QED
  BY <1>3, <1>4, <1>5, <1>6, <1>7, <1>8 DEF Next, Rest, UploadStep, CheckDirectory, CreatePending,
     VaultUpload, VaultUploadFails, MarkCommitted, MarkFailed, RetainUploaded, ExpireStalePending, SoftDelete,
     Restore, SoftDeleteSubtree, RestoreSubtree, MarkFolder, PermanentDelete, PermanentDeleteSubtree, LockRows,
     DeleteStep, DeleteRows, Rollback, WorkerStep, CheckReferences, RetireCall, Recheck, RetainCall, Crash,
     vars, tables

LEMMA BatchFrom ==
    ASSUME TypeInv, [Next]_vars, NEW w \in Workers, NEW m \in wk'[w].batch
    PROVE  m \in wk[w].batch \/ (m \in Manifests /\ Asked(m))
<1>1. wk \in [Workers -> WorkType]
  BY TypeParts DEF TypeInv
<1>2. CASE Claim(w)
  BY <1>1, <1>2 DEF Claim, Due, Asked
<1>3. ASSUME NEW v \in Workers, Claim(v) \/ WorkerStep(v), ~(v = w /\ Claim(v))
      PROVE  m \in wk[w].batch
  BY <1>1, <1>3 DEF Claim, WorkerStep, CheckReferences, RetireCall, Recheck, RetainCall, Complete,
     MarkRetirementFailed, WorkerGoto, NextInBatch, NoWork, WorkType
<1>4. CASE Crash
  BY <1>4 DEF Crash, NoWork
<1>5. CASE UNCHANGED wk
  BY <1>5
<1>6. QED
  BY <1>2, <1>3, <1>4, <1>5 DEF Next, Rest, UploadStep, CheckDirectory, CreatePending, VaultUpload,
     VaultUploadFails, MarkCommitted, MarkFailed, RequeueRetirement, RetainUploaded, ExpireStalePending,
     SoftDelete, Restore, SoftDeleteSubtree, RestoreSubtree, MarkFolder, PermanentDelete,
     PermanentDeleteSubtree, LockRows, DeleteStep, DeleteRows, CommitDelete, Rollback, LeaseExpires, vars

LEMMA AskedAlways == Spec => []AskedInv
<1>1. Init => AskedInv
  BY DEF Init, AskedInv, NoWork
<1>2. ASSUME TypeInv, AskedInv, [Next]_vars PROVE AskedInv'
  <2> SUFFICES ASSUME NEW w \in Workers, NEW m \in wk'[w].batch PROVE Asked(m)'
    BY DEF AskedInv
  <2>1. wk[w].batch \subseteq Manifests
    BY <1>2, TypeParts DEF TypeInv, WorkType
  <2>2. m \in Manifests /\ Asked(m)
    BY <1>2, <2>1, BatchFrom DEF AskedInv
  <2>3. QED
    BY <1>2, <2>2, AskedOnce
<1>3. QED
  BY <1>1, <1>2, TypeInvariant, PTL DEF Spec

\* Only a worker retires.
LEMMA RetiredBy ==
    ASSUME TypeInv, [Next]_vars, NEW m \in Manifests, vault[m] # "retired", vault'[m] = "retired"
    PROVE  \E w \in Workers : m \in wk[w].batch
<1>1. vault \in [Manifests -> {"absent", "active", "retired"}]
  BY TypeParts DEF TypeInv
<1>2. ASSUME NEW w \in Workers, RetireCall(w) PROVE m \in wk[w].batch
  <2>1. Current(w) \in wk[w].batch
    BY <1>2, CurrentInBatch DEF RetireCall
  <2>2. Retire(Current(w)) \/ UNCHANGED vault
    BY <1>2 DEF RetireCall
  <2>3. QED
    BY <1>1, <2>1, <2>2 DEF Retire
<1>3. ASSUME NEW f \in Files, UploadStep(f) \/ VaultUpload(f) PROVE FALSE
  BY <1>1, <1>3 DEF UploadStep, CheckDirectory, CreatePending, VaultUpload, VaultUploadFails,
     MarkCommitted, MarkFailed, RequeueRetirement, RetainUploaded, Retain
<1>4. ASSUME NEW w \in Workers, RetainCall(w) PROVE FALSE
  BY <1>1, <1>4 DEF RetainCall, Retain
<1>5. QED
  BY <1>2, <1>3, <1>4 DEF Next, Rest, ExpireStalePending, SoftDelete, Restore, SoftDeleteSubtree,
     RestoreSubtree, MarkFolder, PermanentDelete, PermanentDeleteSubtree, LockRows, DeleteStep, DeleteRows,
     CommitDelete, Rollback, Claim, WorkerStep, CheckReferences, Recheck, Complete, MarkRetirementFailed,
     LeaseExpires, Crash, vars

\* As long as no retirement has been queued, the vault has the manifest as it was put.
UnaskedInv ==
    \A m \in Manifests : ~Asked(m) => vault[m] # "retired" /\ (vault[m] = "active" => m \in bytes)

LEMMA UnaskedStep ==
    ASSUME TypeInv, KnownInv, AskedInv, UnaskedInv, [SystemNext]_system
    PROVE  UnaskedInv'
<1> SUFFICES ASSUME NEW m \in Manifests, ~Asked(m)'
             PROVE  vault'[m] # "retired" /\ (vault'[m] = "active" => m \in bytes')
  BY DEF UnaskedInv
<1>1. [Next]_vars
  BY DEF SystemNext, Service, Next, Stop, Restart, GraceEnds, Collect, system
<1>2. ~Asked(m)
  BY <1>1, AskedOnce
<1>3. vault[m] # "retired" /\ (vault[m] = "active" => m \in bytes)
  BY <1>2 DEF UnaskedInv
<1>4. vault'[m] # "retired"
  BY <1>1, <1>2, <1>3, RetiredBy DEF AskedInv
<1>5. vault \in [Manifests -> {"absent", "active", "retired"}] /\ ManifestOf \in [Files -> Manifests]
  BY TypeParts, ManifestAssumption DEF TypeInv
<1>6. CASE Rest /\ UNCHANGED bytes
  <2>1. vault'[m] = "active" => vault[m] = "active"
    BY <1>3, <1>5, <1>6, RestVault DEF Retire, Retain
  <2>2. QED
    BY <1>3, <1>4, <1>6, <2>1
<1>7. ASSUME NEW f \in Files, VaultUpload(f), bytes' = bytes \cup {ManifestOf[f]}
      PROVE  vault'[m] = "active" => m \in bytes'
  BY <1>3, <1>5, <1>7 DEF VaultUpload
<1>8. ASSUME NEW n \in Manifests, Collect(n) PROVE vault'[m] = "active" => m \in bytes'
  BY <1>3, <1>8 DEF Collect, vars
<1>9. CASE UNCHANGED <<vault, bytes>>
  BY <1>3, <1>9
<1>10. QED
  BY <1>4, <1>6, <1>7, <1>8, <1>9 DEF SystemNext, Service, Stop, Restart, GraceEnds, vars, system

LEMMA UnaskedAlways == SystemSpec => [](TypeInv /\ KnownInv /\ AskedInv /\ UnaskedInv)
<1>1. Spec => [](TypeInv /\ KnownInv /\ AskedInv)
  BY KnownInit, KnownStep, TypeInvariant, AskedAlways, PTL DEF Spec
<1>2. SystemInit => UnaskedInv
  BY DEF SystemInit, Init, UnaskedInv
<1>3. TypeInv /\ KnownInv /\ AskedInv /\ UnaskedInv /\ [SystemNext]_system => UnaskedInv'
  BY UnaskedStep
<1>4. QED
  BY <1>1, <1>2, <1>3, SystemRefines, PTL DEF SystemSpec

\* Readable: the vault holds the manifest as active, and its content.
Readable(m) == vault[m] = "active" /\ m \in bytes

\* Before the first permanent delete of a last reference queues a retirement, nothing that fails or dies
\* takes content away from a committed file, however many uploads share it: not a stale upload's expiry,
\* a lost answer, a crash, the workers or the collector.
THEOREM UndeletedKept ==
    SystemSpec => [](\A f \in Committed : ~Asked(ManifestOf[f]) => Readable(ManifestOf[f]))
<1>1. TypeInv /\ KnownInv /\ UnaskedInv =>
        \A f \in Committed : ~Asked(ManifestOf[f]) => Readable(ManifestOf[f])
  <2> SUFFICES ASSUME TypeInv, KnownInv, UnaskedInv, NEW f \in Committed, ~Asked(ManifestOf[f])
               PROVE  Readable(ManifestOf[f])
    OBVIOUS
  <2>1. f \in Files /\ row[f].status = "committed" /\ ManifestOf[f] \in Manifests
    BY ManifestAssumption DEF Committed
  <2>2. vault[ManifestOf[f]] # "absent"
    BY <2>1 DEF KnownInv, Known
  <2>3. QED
    BY <2>1, <2>2, TypeParts DEF UnaskedInv, Readable, TypeInv
<1>2. QED
  BY <1>1, UnaskedAlways, PTL

\* The uploads whose bytes no other upload has.
Sole == {f \in Files : \A g \in Files : ManifestOf[g] = ManifestOf[f] => g = f}

\* The upload has committed its row, or ended: it will not commit it any more.
Passed(f) == req[f] \in {"requeue", "retain", "done"}
Settled(f) == Passed(f) /\ row[f].status \in {"none", "committed"}
Gone(f) == Passed(f) /\ row[f].status = "none"

\* Bytes of a single upload are queued for retirement with its row gone for good.
SoleInv ==
    /\ \A f \in Committed : Passed(f)
    /\ \A f \in Sole :
        /\ \A d \in Deleters :
            /\ ManifestOf[f] \in tx[d].manifests => Settled(f)
            /\ ManifestOf[f] \in tx[d].queue /\ f \in Committed => f \in tx[d].files
        /\ Asked(ManifestOf[f]) => Gone(f)

\* What is committed has passed, and a row that is settled can only go.
LEMMA RowStep ==
    ASSUME TypeInv, [Next]_vars, NEW f \in Files
    PROVE  /\ Passed(f) => Passed(f)'
           /\ row'[f].status = "committed" => row[f].status = "committed" \/ Passed(f)'
           /\ Settled(f) => row'[f].status \in {"none", row[f].status}
<1>1. row \in [Files -> RowType] /\ req \in [Files -> RequestPc]
  BY TypeParts DEF TypeInv
<1>2. CASE UNCHANGED <<row, req>>
  BY <1>2 DEF Passed
<1>3. ASSUME NEW g \in Files, UploadStep(g) \/ VaultUpload(g) \/ ExpireStalePending(g) \/ SoftDelete(g) \/ Restore(g)
      PROVE  /\ Passed(f) => Passed(f)'
             /\ row'[f].status = "committed" => row[f].status = "committed" \/ Passed(f)'
             /\ Settled(f) => row'[f].status \in {"none", row[f].status}
  BY <1>1, <1>3 DEF UploadStep, CheckDirectory, CreatePending, VaultUpload, VaultUploadFails, MarkCommitted,
     MarkFailed, RequeueRetirement, RetainUploaded, ExpireStalePending, SoftDelete, Restore, Goto, tables,
     RowType, RequestPc, Passed, Settled
<1>4. ASSUME SoftDeleteSubtree \/ RestoreSubtree
      PROVE  row'[f].status = row[f].status /\ req' = req
  BY <1>1, <1>4 DEF SoftDeleteSubtree, RestoreSubtree, MarkFolder, RowType
<1>5. ASSUME NEW d \in Deleters, CommitDelete(d)
      PROVE  row'[f].status \in {"none", row[f].status} /\ req' = req
  BY <1>1, <1>5 DEF CommitDelete, NoRow
<1>6. CASE Crash
  BY <1>1, <1>6 DEF Crash, tables, RequestPc, Passed
<1>7. QED
  BY <1>2, <1>3, <1>4, <1>5, <1>6 DEF Next, Rest, PermanentDelete, PermanentDeleteSubtree, LockRows, DeleteStep,
     DeleteRows, Rollback, Claim, WorkerStep, CheckReferences, RetireCall, Recheck, RetainCall, Complete,
     MarkRetirementFailed, LeaseExpires, vars, tables, Passed

\* How a transaction comes to have what it has.
LEMMA TxStep ==
    ASSUME TypeInv, [Next]_vars, NEW d \in Deleters
    PROVE  \/ tx'[d] = tx[d] \/ tx'[d] = NoTx
           \/ \E files \in SUBSET Committed : /\ tx'[d].manifests = {ManifestOf[f] : f \in files}
                                              /\ tx'[d].queue = {}
           \/ /\ tx'[d].manifests = tx[d].manifests /\ tx'[d].queue = Unreferenced(d)
              /\ tx'[d].files = Doomed(d)
              /\ UNCHANGED row
<1>1. tx \in [Deleters -> TxType]
  BY TypeParts DEF TypeInv
<1>2. ASSUME NEW files \in SUBSET Committed, NEW b, LockRows(d, files, b)
      PROVE  tx'[d].manifests = {ManifestOf[f] : f \in files} /\ tx'[d].queue = {}
  BY <1>1, <1>2 DEF LockRows
<1>3. CASE DeleteRows(d)
  BY <1>1, <1>3 DEF DeleteRows, TxType, tables
<1>4. CASE CommitDelete(d) \/ Rollback(d)
  BY <1>1, <1>4 DEF CommitDelete, Rollback
<1>5. ASSUME NEW f \in Files, PermanentDelete(d, f) PROVE LockRows(d, {f}, FALSE) /\ {f} \in SUBSET Committed
  BY <1>5 DEF PermanentDelete
<1>6. ASSUME PermanentDeleteSubtree(d)
      PROVE  LockRows(d, FolderRows \cap Committed, TRUE) /\ FolderRows \cap Committed \in SUBSET Committed
  BY <1>6 DEF PermanentDeleteSubtree
<1>7. ASSUME NEW e \in Deleters, e # d,
             (\E f \in Files : PermanentDelete(e, f)) \/ PermanentDeleteSubtree(e) \/ DeleteStep(e)
      PROVE  tx'[d] = tx[d]
  BY <1>1, <1>7 DEF PermanentDelete, PermanentDeleteSubtree, LockRows, DeleteStep, DeleteRows,
     CommitDelete, Rollback
<1>8. CASE Crash
  BY <1>8 DEF Crash
<1>9. CASE UNCHANGED tx
  BY <1>9
<1>10. QED
  BY <1>2, <1>3, <1>4, <1>5, <1>6, <1>7, <1>8, <1>9 DEF Next, Rest, DeleteStep, UploadStep, CheckDirectory,
     CreatePending, VaultUpload, VaultUploadFails, MarkCommitted, MarkFailed, RequeueRetirement, RetainUploaded,
     ExpireStalePending, SoftDelete, Restore, SoftDeleteSubtree, RestoreSubtree, MarkFolder, Claim, WorkerStep,
     CheckReferences, RetireCall, Recheck, RetainCall, Complete, MarkRetirementFailed, LeaseExpires, vars

LEMMA SoleStep ==
    ASSUME TypeInv, KnownInv, AskedInv, SoleInv, [Next]_vars
    PROVE  SoleInv'
<1>1. \A f \in Committed' : Passed(f)'
  BY RowStep DEF SoleInv, Committed
<1>2. ASSUME NEW f \in Sole, Settled(f)
      PROVE  Settled(f)' /\ (f \in Committed' => f \in Committed)
  BY <1>2, RowStep DEF Settled, Sole, Committed
<1>3. ASSUME NEW f \in Sole, NEW d \in Deleters
      PROVE  /\ ManifestOf[f] \in tx'[d].manifests => Settled(f)'
             /\ ManifestOf[f] \in tx'[d].queue /\ f \in Committed' => f \in tx'[d].files
  <2>1. CASE tx'[d] = tx[d]
    <3>1. ManifestOf[f] \in tx[d].queue => ManifestOf[f] \in tx[d].manifests
      BY DEF KnownInv
    <3>2. QED
      BY <1>2, <2>1, <3>1 DEF SoleInv
  <2>2. CASE tx'[d] = NoTx
    BY <2>2 DEF NoTx
  <2>3. ASSUME NEW files \in SUBSET Committed, tx'[d].manifests = {ManifestOf[g] : g \in files},
               tx'[d].queue = {}, ManifestOf[f] \in tx'[d].manifests
        PROVE  Settled(f)'
    <3>1. PICK g \in files : ManifestOf[f] = ManifestOf[g]
      BY <2>3
    <3>2. f \in Committed
      BY <3>1 DEF Sole, Committed
    <3>3. QED
      BY <1>2, <3>2 DEF SoleInv, Settled, Committed
  <2>4. CASE /\ tx'[d].manifests = tx[d].manifests /\ tx'[d].queue = Unreferenced(d)
             /\ tx'[d].files = Doomed(d) /\ UNCHANGED row
    <3>1. ManifestOf[f] \in Unreferenced(d) /\ f \in Committed => f \in Doomed(d)
      BY DEF Unreferenced, FilesOf, Committed
    <3>2. QED
      BY <1>2, <2>4, <3>1 DEF SoleInv, Committed
  <2>5. QED
    BY <2>1, <2>2, <2>3, <2>4, TxStep
<1>4. ASSUME NEW f \in Sole, Asked(ManifestOf[f])' PROVE Gone(f)'
  <2>1. f \in Files /\ ManifestOf[f] \in Manifests
    BY ManifestAssumption DEF Sole
  <2>2. CASE Asked(ManifestOf[f])
    BY <2>1, <2>2, RowStep DEF SoleInv, Gone, Settled
  <2>3. ASSUME NEW d \in Deleters, CommitDelete(d), ManifestOf[f] \in tx[d].queue PROVE Gone(f)'
    <3>1. Settled(f) /\ (f \in Committed => f \in tx[d].files)
      BY <2>3 DEF SoleInv, KnownInv
    <3>2. row'[f].status = "none"
      BY <2>1, <2>3, <3>1 DEF CommitDelete, NoRow, Settled, Committed
    <3>3. QED
      BY <1>2, <3>1, <3>2 DEF Gone, Settled
  <2>4. QED
    BY <1>4, <2>1, <2>2, <2>3, AskedOnce
<1>5. QED
  BY <1>1, <1>3, <1>4 DEF SoleInv, Sole

LEMMA SoleAlways == Spec => []SoleInv
<1>1. Init => SoleInv
  BY ManifestAssumption DEF Init, SoleInv, Sole, Committed, NoRow, NoTx, NoRequest, Asked
<1>2. TypeInv /\ KnownInv /\ AskedInv /\ SoleInv /\ [Next]_vars => SoleInv'
  BY SoleStep
<1>3. Spec => [](TypeInv /\ KnownInv /\ AskedInv)
  BY KnownInit, KnownStep, TypeInvariant, AskedAlways, PTL DEF Spec
<1>4. QED
  BY <1>1, <1>2, <1>3, PTL DEF Spec

\* A committed file whose bytes no other upload has stays readable whatever fails, whenever the service
\* dies and however long it stays down, in folders and out of them: only files that share their bytes
\* with an upload before or after them can be lost.
THEOREM OwnBytesKept ==
    SystemSpec => [](\A f \in Committed \cap Sole : Readable(ManifestOf[f]))
<1>1. /\ SoleInv
      /\ \A f \in Committed : ~Asked(ManifestOf[f]) => Readable(ManifestOf[f])
      => \A f \in Committed \cap Sole : Readable(ManifestOf[f])
  BY DEF SoleInv, Gone, Committed
<1>2. QED
  BY <1>1, SoleAlways, SystemRefines, UndeletedKept, PTL
=============================================================================
