# Formal models of PUI

PUI is a file locker in two environments. *Environment A* holds a web client and an API
service (Go, PostgreSQL); it is assumed to be exposed. *Environment B* holds Vault Core (Go,
Badger), which stores content as deduplicated, immutable chunks and manifests and offers the API
service nothing but a Unix socket. This directory models the parts in which many actors share
state, checks them with TLC and proves the main results with TLAPS.

## Inventory

| Component | State | Operations | What is hard |
|---|---|---|---|
| **Content store** `vault-core/internal/cas/store.go` | Badger: manifests, chunk records with reference counts, upload sessions; the chunk directory; in memory a lifecycle RW lock and a registry of active uploads | `ProcessUpload` (`touchChunk`, `writeChunkIfMissing`, `commitManifestAndChunkRefs`), `RetireManifest`, `RetainManifest`, `CleanupExpiredUploadSessions`, readers | uploads that share chunks, crashes between file, record and manifest, lock and registry per `Store` value |
| **Garbage collector** `cas/garbage_collector.go`, `cmd/vault-core/main.go` | the decisions of one sweep | `CollectGarbage`: lock, snapshot, scan, walk, remove file, remove record, orphans | decisions that get stale, failed removals, a process with two `Store`s |
| **Chunker** `internal/fastcdc` | none | `Validate`, `Split`, `shouldCut`, masks | boundaries of chunk sizes |
| **UDS server** `internal/uds/server.go` | none of its own | routes to the store, refusal of destructive operations, read proxy, peer credentials | a second `Store`, errors after the response has started |
| **File metadata** `api-service/internal/{service,repository}/file_*` | table `files` | upload (pending, committed, failed), trash, restore, permanent delete, reaper | three systems updated one after the other without a common transaction |
| **Retirement outbox** `manifest_retirement_*` | table `manifest_retirement_requests`, advisory locks, leases | queue at a delete, requeue at an upload, claim, retire or retain, complete, fail | workers that race uploads, deletes and each other |
| **Directories** `directory_*` | tables `directories`, `directory_closure` | create, trash, restore and delete a subtree, star | names unique by a check and not by an index, rows that appear during a subtree operation |
| **Accounts and sessions** `auth_*` | users, sessions, password reset tokens | login, register, reset, logout, profile | one-time tokens used twice, sessions that outlive a password |
| **Rate limiter** `middleware/rate_limit.go` | counters per client and window | `Allow`, eviction | window boundaries, table limit |
| **Security monitor** `security_monitor_service.go`, `security_event_bridge.go` | event table, subscriber queues | record, broadcast, subscribe, purge, bridge from Vault Core | bounded queues, closing while sending |
| **Security lab** `securitylab_service.go` | a run's scenarios | `Run` | streaming and cleanup |
| **Web client: session** `web-client/src/{app,pages/auth}`, `shared/{lib/tokenStorage,api/http}` | token in localStorage and in the tab, the `/auth/me` query, location, cached answers | guards and redirects, login, logout, forms, profile, other tabs, reload, history | answers for a session that has been left, token and tab that differ, redirects that chase each other |
| **Web client: page of files** `useFilesWorkspace`, `useDirectoryTree`, `UserDashboardLayout` | folder in the URL, cached tree and lists, selection and modal | navigate, select, upload, delete, restore, create; the effects and refetches these cause | the folder of then and of now, effects that correct the URL, fetches that are joined or replaced |
| **Web client: actions** `useDashboard{File,Directory,Bulk}Actions`, `ConfirmDialogProvider`, trash, starred, folder detail | the question on the screen, what is under way, selection, lists | ask, accept, dismiss; requests side by side; invalidation; notices | one dialog for all, `Promise.all`, waits for lists that nobody looks at |
| **Web client: the rest** landing, activity, insights, administration | filters and pages in the URL | one query each | formatting only |

Uploads call Vault Core over UDS in the middle of two PostgreSQL statements; permanent deletes
write the outbox in their own transaction; workers of the outbox call Vault Core's retire and
retain; Vault Core's collector reclaims what retired manifests leave behind. Each arrow of that
loop may fail, be repeated or be overtaken. The web client reads all of this through cached
answers, which its mutations make stale one by one, and through the stream of the security
monitor; other tabs and the history move under it.

## Modules

```
                 ContentStore  (what the vault promises)
                  ^        ^
     implements   |        |  used according to
                  |        |
 VaultStoreRefinement   StorageLifecycle
          |                 |
      VaultStore        Retirement          DirectoryTree   Accounts   SecurityMonitor
          |
      VaultReads        WebSession          FilesPage       WorkspaceActions
```

The modules of the first two rows share state and are composed. The others meet only in the
answers of requests: each of the three modules of the web client has the part of the API service
it asks inside it, cut down to what the answers depend on.

### VaultStore: uploads, retirement and the collector

`cas/store.go`, `cas/garbage_collector.go`. The database is `manifest`, `chunk`, `session`; the
chunk directory is `file`; the memory of each `cas.Store` value is `mu` (its `lifecycleMu`) and
`active` (its `activeUploads`). A Badger transaction is one step, a file system call is one step,
and the steps of the goroutines interleave wherever the code lets them.

| Code | Actions |
|---|---|
| `ProcessUpload`, `createUploadSession`, `registerActiveUpload` | `BeginUpload` |
| `touchChunk`, `writeChunkIfMissing`, `markActiveUploadChunk` | `TouchLookup`, then `TouchReuse`, or `TouchPersist` and `TouchRecord` |
| `commitManifestAndChunkRefs` | `Commit` (`CommitNew`, `CommitExisting`) |
| the session record at the end, `unregisterActiveUpload` | `MarkCommitted`, `MarkFailed`, `Unregister` |
| any error return of an upload | `FailUpload` |
| `RetireManifest`, `RetainManifest` | the same names |
| `CleanupExpiredUploadSessions` | the same name |
| `CollectGarbage` with `scanGarbageCollection` | `GcStart`, `GcLock`, `GcScan`, `GcWalk`, `GcRemoveFile`, `GcDeleteMetadata`, `GcSkip`, `GcRemoveOrphan`, `GcSkipOrphan`, `GcEnd` |
| the process dies and comes back | `Crash` |

`HandlerStore` and `GcStore` are parameters, because the process builds two `Store` values on
one database (`uds/server.go:41` and `cmd/vault-core/main.go:32`). With the same value for both,
the module is the design the comments describe; with two, it is the program as it is wired.

A chunk is a model value: what identifies it is its hash, and its bytes and boundaries play no
part. `hollow` is a history variable: the manifests that `RetainManifest` has made active again
after the collector had taken their bytes, which the code allows and reports as success.

### VaultReads: readers

`OpenObject`, `openObjectStrict` and `openObjectStream` beside all of `VaultStore`. A reader holds
no lock, so the collector can remove a file between its pre-flight check and its turn.

| Code | Actions |
|---|---|
| `GetManifest` at the start of `OpenObject` | `OpenManifest` |
| the check that every chunk file exists, the choice of the mode | `Preflight` |
| a round of either loop: open, copy, compare the hash | `Copy` |
| the end of either loop | `FinishRead` |
| a stored chunk file goes bad | `Rot` |
| any step of the store | `StoreStep` |

`kept` is history: the manifest was whole when the reader looked it up and has owed its bytes
(active, or retired and in its grace period) since.

### ContentStore and VaultStoreRefinement

`ContentStore` is the vault as the API service sees it: `Put`, `Retire`, `Retain`, `Regain`,
`Reclaim` on whole objects. `VaultStoreRefinement` maps `status` to the state of the manifest
record and `readable` to the stored manifests all of whose chunks have a record and a file.
`Regain` is the one action a reader may not expect: uploading an object that shares chunks with a
reclaimed one may bring the other's bytes back.

### Retirement: file metadata and the outbox

`file_service.go`, `file_repository.go`, `manifest_retirement_repository.go`,
`manifest_retirement_worker.go` and the subtree statements of `directory_repository.go` that
touch files. `row` is the table `files`, `outbox` the table `manifest_retirement_requests`,
`vault` the state of each manifest in Vault Core; `req`, `tx` and `wk` are the goroutines of the
upload requests, the open permanent delete transactions and the workers.

| Code | Actions |
|---|---|
| `FileService.Upload` | `CheckDirectory`, `CreatePending`, `VaultUpload`/`VaultUploadFails`, `MarkCommitted`, `MarkFailed`, `RequeueRetirement`, `RetainUploaded` |
| `ExpireStalePending` | the same name |
| soft delete and restore, of files and of the folder | `SoftDelete`, `Restore`, `SoftDeleteSubtree`, `RestoreSubtree` |
| `PermanentDelete`, `PermanentDeleteSubtree`, `queueManifestRetirements` | `LockRows`, `DeleteRows`, `CommitDelete`, `Rollback` |
| the worker | `Claim`, `CheckReferences`, `RetireCall`, `Recheck`, `RetainCall`, `Complete`, `MarkRetirementFailed` |
| a lease runs out, the service dies | `LeaseExpires`, `Crash` |

A transaction is as many steps as it has statements that others can tell apart; its writes
appear at its commit; a row or advisory lock is a guard of those who wait for it. A statement or
vault call can fail (`Fault`), and a failed vault call may have had its effect.

### StorageLifecycle: the whole loop

`Retirement` with a collector in place of the vault's inside: `bytes` are the manifests the vault
can still read, `GraceEnds` and `Collect` are the passing of the grace period and a sweep. Thirty
minutes of grace are far longer than a request or a worker's pass over one manifest, so
`GraceEnds` is enabled only while the service is down, or quiet with nothing left in the outbox. The vault's side of the loop is checked against
`ContentStore` (`VaultContract`), the same promise that `VaultStore` is proved to keep: the two
halves meet there.

### DirectoryTree: folders

`directory_service.go`, `directory_repository.go` and the statements on files that depend on a
folder. `dir`, `closure` and `file` are the three tables of one user; `req` holds what a request
has read in one statement and uses in a later one. `CheckCreate`/`InsertDirectory` are `Create`;
`SoftDeleteSubtree` and `RestoreSubtree` are single transactions of set statements;
`CheckTrashed`, `CollectSubtree`, `DeleteFiles`, `DeleteDirectories`, `RollBackDelete` are
`PermanentDeleteSubtree`, which asks whether the folder is in the trash once, without a lock, and
deletes what it has collected whether it still is or not. Two history variables name the two ways
in which something comes to lie beside the usual order: `late`, placed below a folder that is on
its way out, and `apart`, restored below a folder in the trash. A third, `lost`, has the kinds of
all that a permanent delete took while it was in use: `late`, `apart`, `back` (the folder itself
was restored after `CheckTrashed`) or `plain`, which is everything else. Properties that exclude
some of these say so.

### Accounts

`auth_service.go`, `auth_repository.go`. One action per SQL statement; the two transactions
(`CreatePasswordResetToken`, `CompletePasswordReset`) are
`StartSupersede`/`Supersede`/`InsertToken` and `CompleteReset`. PostgreSQL runs them READ
COMMITTED: the UPDATE that supersedes takes its snapshot when it begins (`StartSupersede`, which
keeps it in `marking`), waits for the rows of it that another transaction has locked, asks of
those again whether they are unused, and does not see a link that was inserted meanwhile. `overlapped` records
the users two of whose transactions ran side by side, waiting ones included. The password itself is not a value: what the properties need is whether it has
changed since a session's login was checked (`stale`), and whether the code is past the point
where it would have revoked that session (`kept`). `Fail` ends a request at any statement.

### SecurityMonitor

From `SecurityMonitoringService.Record` through the broadcaster, the SSE handler and the page's
hooks to what the page shows. The page refetches when an event arrives, after 250 ms without
another one; the model has the timer, the effect that sets and clears it, and the way TanStack
Query joins a fetch that is already under way. The two queries of the page do not affect each
other, so a behaviour follows one of them.

### WebSession: who is signed in

The state of one tab: the token React has read, the router's location and the one that is
rendered, the data and the request of the `/auth/me` query, the forms under way, the cached files.
`storage` is localStorage, which other tabs change; `owner` and `live` are the API service's
sessions.

| Code | Actions |
|---|---|
| `PublicOnly`, `RequireAuth`, `RequireRole`, `RoleIndexRedirect`, `<Navigate>` | `Redirects`, `Redirect`; `Render` shows the new location in a transition |
| `useAuthSession`, `AuthSessionProvider` | `AskMe`, `MeArrives`, `MeFails` |
| login, registration, forgotten and reset password | `SubmitLogin`, `LoginSucceeds`, `LoginFails`, `SubmitForm`, `Registered`, `PasswordReset`, `FormStays` |
| logout and profile | `StartLogout`, `LogoutEnds`, `SaveProfile`, `ProfileSaved`, `SaveFails` |
| a page's own query | `Fetch`, `Arrives`, `FetchFails` |
| links, history, a URL that is opened | `Move`, `Back`, `Open` |
| sessions that end, other tabs | `Expire`, `OtherSignsIn`, `OtherSignsOut` |

`http.ts` takes the token of a request from localStorage (`Bearer`), while the tab shows the user
of the token it has read: the module is about what happens when they differ. All pages of a role
are one page; a page of files with a folder in its query string is another, since the way back
after a login drops the query. Two histories: `mixed`, another tab (or a second login in this one)
has changed the storage, and `late`, an answer for an earlier session has been stored.

### FilesPage: what the page of files shows

`tab.url` is the folder in the query string, `request` and `directory` what `useDirectoryTree` has
resolved, `tree`/`treeFetch` and `list`/`fetch` the cached answers and the fetches under way,
`op` the mutation under way. React's effects run after each rendering until nothing changes:
`Becomes` applies them to every change of the tab, in the order of the components
(`Resolve`, `RedirectUnknown`, `Observe`, `Reselect`). `InvalidateTree` and `InvalidateFiles` are
`invalidateQueries` with what TanStack Query does: an observed list is fetched anew, in place of a
fetch under way, except that the first fetch of all is joined; one that is not observed is fetched
when it comes to be. `Start`, `Serve`, `Answered`, `AfterTree` are a mutation's request, its
effect on the server, and the stages of its `onSuccess`. The server answers a fetch with what is
there when it is sent, the worst moment there is. The modal is opened by a row of the page, a row
of the trash or of the starred items, and a result of the search (`SelectFile`,
`SelectFileElsewhere`, `SelectSearchResult`); all three go through `OpenFile`, which notes the
file in `chosen`. `astray` notes that the effect on the records (`Reselect`) has found that file
missing since.

### WorkspaceActions: what a user does to items

`dialog` is the one confirmation dialog (the call that asked, the kind of action and the items), `calls` what has been set going and where each of its
requests is, `pending` the button of the detail page that is off, `cache` the lists of the trash
and of the starred items.

| Code | Actions |
|---|---|
| a row's buttons, the bulk toolbar, the header of a detail page | `StartFile`, `StartFolder`, `StartBulk`, `StartNothing`, `StartDetail` |
| `ConfirmDialogProvider` | `Ask` (within a start), `Accept`, `Dismiss` |
| the requests of a call, side by side | `Serve`, `Rejected`, `Breaks` |
| `onSuccess` of a mutation: trash, then starred, each awaited while observed | `Answered`, `Continue`, `Settle` |
| `Promise.all` and the notice | `Succeeds`, `Fails`, `Forgotten` |
| the selection | `Toggle`, `ToggleAll`, `ClearSelection`, pruning in `Arrives` and `Serve` |
| pages | `Navigate`, `Arrives`, `FetchFails` |

An item that one call takes from the list on the screen can be put back and taken again by two
others before its notice is out; the list then still shows it, and `NoticeIsTrue` excepts that
(`Untold`). It takes three calls and two moves, more than the run has room for.

The dialog covers the page but traps no focus, so that a second question can be asked while the
first is on the screen: `Replaced` makes the first call `Forsaken`.

### Names shared by the modules

`MC*` modules give the constants that a configuration cannot write (functions, symmetry sets). A
definition commented *Faulty variant* is a plausible mistake in the code: no action uses it, and
it documents what the property that `PROJECT.json` pairs it with would catch.

## Runs

Every run explores its whole state space; the bounds are constants in the configurations.

| Run | Question | Bounds and why they are enough |
|---|---|---|
| `vault_reads` | do concurrent uploads, retire/retain and sweeps ever take content that is needed? can a reader without a lock lose its content? does bad content reach a client? | 2 uploads of any of 2 files that share a chunk and repeat it (`<<a>>`, `<<a, a>>`), 1 store, times 0..1, grace 0, 1 reader, 1 chunk that goes bad. Each upload chooses its file, so both the same and different files meet; the chunk has two manifests, so its last retirement differs from its first; with grace 0 one tick separates a retirement from a sweep that honours it. One file is read strictly and one streamed |
| `vault_crash` | the same with a restart at any step, and what happens in the long run | the same files, times 0..1, uploads one after the other (a slot is used again when its session record has expired), session TTL 1, 1 restart, with fairness: `UploadsEnd`, `GarbageReclaimed` and the refinement `KeepsPromise` |
| `vault_two_stores` | the process as it is wired, with two `Store` values | 2 uploads of one file `<<a, a>>`, times 0..2; **violated**, see below |
| `retirement` | is every queued retirement completed? | 2 uploads of the same bytes (one into a folder), 1 deleter, 1 worker, 1 failed statement or call, 1 restart, with fairness |
| `storage` | do two workers, two deletes and two identical uploads ever lose a committed file? | 2 uploads, 2 deleters, 2 workers, stops of the quiet service, no failures; all bytes are equal, since races are about one manifest |
| `storage_crash` | the same with a crash | 1 deleter, 1 worker, 1 restart; **violated**, see below |
| `directories` | is the closure table the tree of the parents, the trash closed downwards, and what is deleted for good only trash? | 3 folders (a chain of three, or a fork), 1 file, 2 overlapping requests: three folders are an outer one, one inside it that is restored or created meanwhile, and one inside that |
| `accounts` | unique addresses, dead links, revoked sessions | 2 users, 2 addresses, 2 sessions, 2 links, 2 requests at a time: each property speaks of at most two rows and two requests |
| `monitor` | does the page show in the end what was streamed? | 2 events through a channel of capacity 1 (so one is dropped), 2 streams (so it reconnects), 2 disturbances by the user or the network |
| `web_session` | is what a tab shows its own user's? do the guards come to rest? | a user and an administrator (so that guards and homes differ), 2 tokens (so that one session follows another, or another tab's), one request besides `/auth/me` under way (what is left behind meets one new session), with fairness; the history and the address bar lead to a user's page with a query and to one of both roles |
| `files_page` | does the page show what its folder has? | the root and 1 folder, which may not exist yet, 2 files, 2 events: changes one after the other (the second begins while the lists are still to come), or a change and an answer that never comes; refusals are not bounded. No deadlock: the user can always move |
| `workspace_actions` | do dialogs, notices, lists and buttons tell the truth, and does nothing get stuck? | a folder and the file in it (a bulk action has two requests, one of which includes the other), 2 calls, 1 event: a change of page or a lost answer (with it, `CatchesUp` says nothing any more); refusals are not bounded. `Apart` leaves out that a deletion and an unstarring are under way together: both take from the starred items only, which each does with every other kind |

`CHECK_DEADLOCK FALSE` appears where the modelled work ends: all uploads are used up, all rows
exist, the events have all occurred, or the calls have been made. `accounts`, `web_session` and
`files_page` are checked for deadlock.

### What the passing runs show

*Content store.* With one shared `Store`, a committed object keeps the record and the file of
every chunk (`ActiveManifestIntact`), and so does everything a running upload has touched
(`TouchedChunksKept`), however old the chunk it reuses. A chunk is deleted only after the latest
retirement of any manifest that contains it has aged (`RetirementGrace`), the collector's branch
for a positive reference count without a manifest is never taken (`RefCountBacked`), uploads end
and garbage goes (`UploadsEnd`, `GarbageReclaimed`). A read of an object that is owed to its
reader is answered in full, although it holds no lock (`OwedReadsServed`), and a chunk that has
gone bad ends the read that meets it (`BadBytesStop`).

*Outbox.* Without a crash or a fault, a committed file always has an active manifest or a step
that will retain it (`CommittedStaysActive`), the delete of the last reference queues the
retirement, also when two references are deleted at once (`LastDeleteQueues`), and a committed
file stays readable through the collector (`CommittedReadable`). Every request is completed, also
one whose worker died (`OutboxDrains`).

*Folders.* The closure table is the tree of the parents under overlapping creations and deletes
(`ClosureIsTree`); what lies below a folder in the trash is in the trash and can be found there
(`TrashIsWhole`), and a permanent delete takes only trash (`OnlyStraysLost`), each up to `late`
and `apart`; and, for the delete, up to a folder that is restored while its delete is under way,
which is destroyed.

*Accounts.* The unique index closes the gap between the query and the insert. A reset link that
has been read as valid by several requests resets one password. A user has one valid link, unless
two of his reset requests overlapped (`OneValidLink`): then two remain. Sessions outlive a password in
three cases only, which `OldSessionsRevoked` lists.

*Monitoring.* What the page shows catches up with what was published to its stream, in spite of
dropped events, unless the last refresh was lost in one of the ways that `missed` records.

*Web client.* Whoever a tab shows, and whose files, is the owner of the tab's token, although
answers of a session that was left still arrive (`ShownIsOwn`, which speaks of the queries that
`clearSession` removes), and unless another tab interferes
that token is the one requests carry (`TokenIsStored`); guards and redirects come to rest
(`Settles`). When nothing is under way, the page of files shows its folder as it is
(`ShowsWhatIs`, up to the fetches that `late` names). The modal goes on showing the file that was
clicked, on whatever page, while each list of records that becomes the page's has it
(`ClickedIsShown`); `astray` excepts the cases in which one has not, listed below. A dialog does
what it asks, to the items it asks about (`AnswersItsQuestion`), success is announced when
it is one (`NoticeIsTrue`, up to what another call has moved once more and has not shown yet), the trash and the starred items catch up (`CatchesUp`), and neither
the buttons of a detail page nor a call is stuck (`DetailIsFreed`, `CallsCanGoOn`).

### Disagreements between the code and its documents

1. `vault_two_stores`, `ActiveManifestIntact`. The handlers and the collector have a `Store`
   each, so the lifecycle lock and the registry of active uploads, which belong to the value,
   protect nothing: an upload reuses an old unreferenced chunk, the sweep picks that chunk, the
   upload commits, and the sweep removes the file of a committed object.
2. `storage_crash`, `CommittedReadable`. The worker's retire takes effect before its second
   reference check, and an upload's requeue comes after its commit. If the service dies between
   them and stays down for the grace period, a committed file loses its content.
Met while modelling, without a run of their own:

- A folder that was restored from inside a folder in the trash is destroyed with the outer one:
  trash `A` with `B` inside, restore `B` (`directory_repository.go:413` clears the mark of `B`'s
  subtree alone and leaves its closure rows to `A`), delete `A` for good. `PermanentDeleteSubtree`
  asks only whether `A` is in the trash (490) and takes the whole subtree, `B` and its files
  included. The variable `apart` records `B`, and the properties of `DirectoryTree` except it.
- A folder that is restored while its permanent delete is under way is destroyed:
  `PermanentDeleteSubtree` asks whether it is in the trash without a lock
  (`directory_repository.go:490`), the user's `RestoreSubtree` commits, and the deletes (527-536)
  go by the ids collected before and do not look at `dihapus_pada` again. Both requests succeed,
  while `swagger.yaml:1246` speaks of a subtree "dari Sampah". `lost` counts it as `back`.
- A folder whose older deleted file has a newer namesake cannot be restored: trash a file, upload
  another of its name, trash the folder, restore the folder. `RestoreSubtree` (447) clears the
  mark of every file of the subtree, both files would be active under one name, and the unique
  index refuses the statement. The folder stays in the trash; only deleting it for good is left,
  as a file inside a folder in the trash cannot be deleted by itself.
- `MarkManifestRetirementCompleted` (`manifest_retirement_repository.go:196`) does not look at
  what has been written to the row since the claim. A worker claims a request, an upload of the
  same bytes commits, the worker finds the reference and retains; the file is deleted again,
  which queues the request anew, and the worker's completion overwrites it. The manifest stays
  active with no reference, and nothing retires it.
- `PermanentDeleteSubtree` (`directory_repository.go:506`) collects the committed rows and then
  deletes all; a row that commits in between is deleted without a request. This is why the run
  `storage` has no folder files: with one, `LastDeleteQueues` fails.
- A streamed answer whose last chunk is bad has sent all the bytes that `Content-Length`
  announced before the hash is compared, so the client cannot see that it was cut.
- A requeue or retain that fails at the end of an upload is only logged; with a fault there,
  `CommittedStaysActive` fails, which is why `storage` has none.
- A login that has checked the old password can insert its session after a reset
  (`auth_service.go:52`), and a failed `RevokeOtherSessions` leaves the others
  (`auth_service.go:269`); `reset-password/page.tsx:71` says "Reset password mencabut sesi lama".
- Two overlapping reset requests of one user leave two valid links: the UPDATE of
  `auth_repository.go:106` that waits for the other transaction keeps its snapshot and does not
  see the link the other has inserted, although the statement is there to "expire previous
  password reset tokens" (114).
- A profile save that changes only the name writes the address the middleware had read, and so
  can undo an address change made meanwhile, without a password.
- On the monitoring page, turning to another page within 250 ms of an event loses the summary's
  refresh; a refresh of the history may join a fetch that was read before the event; events that
  occur while the stream reconnects show with the next event or fetch.
- An upload whose answer from the vault is lost is marked as failed and leaves an active manifest
  with no file; nothing retires it.
- *Session.* After a login the page comes back by its path only (`login/page.tsx` takes
  `from.pathname`): the folder in the query is dropped, while the web client's README (111-112)
  says that opening such a URL leads to its folder again. A logout whose tab has another
  token than localStorage ends the session in localStorage. A profile form with changes asks
  before the redirects that the code itself makes, so the user can stay on it without a session.
  `clearSession` (`useAuthSession.ts:37-46`) does not remove the query of the insights page,
  whose key names no user (`queryKeys.ts:24-26`): the next user of the tab may see the former's
  insights until his own have been fetched. The model has no insights page.
- *Files.* A list that is fetched for the first time while a file is added to it keeps the answer
  of before, since `invalidateQueries` joins that fetch. Deleting or restoring a folder makes no
  list of files stale (`useDirectoryTree.ts:51`), so a folder that comes back shows its files as
  they were. An upload that is started before the tree has been loaded goes to the root, whatever
  the URL says. `directories.detail` is never made stale. A click does not always show its file,
  as the selection is moved to the first record, or to none, whenever the records do not have it
  (`useFilesWorkspace.ts:112-125`): a result of the search goes to the file's folder
  (`UserDashboardLayout.tsx:144-152`), and while that folder's list is not there the modal is
  empty; then it has the folder's first file, whichever was clicked; on the trash, the starred items and the detail pages the records are those of the
  root, so that with the root's list not loaded the modal opens empty, and the arrival of that
  list moves it to a file nobody clicked; going back, or a deletion that ends, under an open modal
  does the same.
- *Actions.* A second question replaces the first, whose promise is never settled
  (`ConfirmDialogProvider.tsx:16`): a detail page that asked first keeps its buttons off until it
  is left. A detail page goes to its source when its action ends, also when the user has gone
  elsewhere meanwhile (`folder-detail/page.tsx:81`).

### Fairness

- `VaultStore`: strong fairness for an upload's steps and for the sweep's lock. Go's `RWMutex`
  admits the readers that wait when a writer leaves, and a waiting writer when the readers it
  found have left, so whoever waits for the lock gets it although others keep coming. The
  collector's ticker never stops (weak fairness of `GcStart`, `Tick`). Strong fairness of the
  scan and of the removals says that errors are transient: a step that is retried in every sweep
  succeeds at last. Uploads, retire and retain are never owed.
- `Retirement`: a request, transaction or worker that runs goes on; the worker's ticker claims
  what is due; a lease of a minute runs out. The reaper, users and faults owe nothing.
- `SecurityMonitor`: a running goroutine, a set timer and a fetch go on. Connecting, user moves
  and closing are never owed.

## Proofs

Proved with TLAPS, for all values of the constants that satisfy the modules' assumptions:

| Theorem | Statement |
|---|---|
| `VaultStoreProofs!TypeCorrect` | `Spec => []TypeOK` |
| `VaultStoreProofs!CountsBacked` | `Spec => []RefCountBacked` |
| `VaultStoreProofs!CommittedContentKept` | `HandlerStore = GcStore` gives `Spec => []ActiveManifestIntact` |
| `VaultStoreProofs!UploadContentKept` | the same for `TouchedChunksKept` |
| `VaultStoreProofs!StoreImplementsPromise` | the same for `KeepsPromise`: the chunk store implements `ContentStore` |
| `AccountsProofs!TypeCorrect` | `Spec => []TypeOK` |
| `AccountsProofs!AddressesUnique` | `Spec => []EmailsUnique` |
| `AccountsProofs!AddressChangesVerified` | `Spec => EmailChangeVerified` |
| `AccountsProofs!SessionsRevoked` | `Spec => []OldSessionsRevoked` |
| `AccountsProofs!LinksUsedOnce` | `Spec => UsedLinksAreDead` |
| `AccountsProofs!OneLink` | `Spec => []OneValidLink` |
| `AccountsProofs!LinkServesItsUser` | `Spec => [](ResetOnce /\ OwnLink) /\ ResetEndsSessions` |
| `VaultStoreProofs!RemovalsAged` | `HandlerStore = GcStore` gives `Spec => RetirementGrace` |
| `VaultStoreProofs!BadBytesNoticed` | `ReadSpec => []BadBytesStop` |
| `VaultStoreProofs!OwedReadsAnswered` | `HandlerStore = GcStore` gives `ReadSpec => []OwedReadsServed` |
| `VaultStoreProofs!ContentKeptBetweenSweeps` | `Spec => []UnchosenBefore /\ KeptBetweenSweeps`, whatever the wiring of the Stores |
| `VaultStoreProofs!WorkComesToEnd` | `Spec => []WorkIsOver /\ WorkShrinks`, whatever the wiring |
| `VaultStoreProofs!NobodyStuck` | `HandlerStore = GcStore` gives `Spec => []NeverStuck` |
| `VaultStoreProofs!SweepOverlooksNothing` | the same gives `Spec => []SnapshotInv /\ OverdueFound` |
| `StorageLifecycleProofs!TypeCorrect` | `Spec => []TypeOK` |
| `StorageLifecycleProofs!RootReferenceQueued` | the same as `LastDeleteQueues` for the manifests that no file of the folder has, without an assumption |
| `StorageLifecycleProofs!LastReferenceQueued` | `FolderFiles = {}` gives `Spec => LastDeleteQueues` |
| `StorageLifecycleProofs!CommittedAttended` | `MaxFaults = 0` and `MaxCrashes = 0` give `Spec => []CommittedStaysActive` |
| `StorageLifecycleProofs!CommittedFilesReadable` | the same assumptions give `SystemSpec => []CommittedReadable` |
| `StorageLifecycleProofs!UndeletedKept` | with any faults and crashes, a committed file whose manifest was never queued for retirement stays active and readable |
| `StorageLifecycleProofs!OwnBytesKept` | the same for a committed file whose bytes no other upload has |
| `StorageLifecycleProofs!ServiceKeepsContract` | `SystemSpec => VaultContract`: the service with the collector implements `ContentStore` |
| `DirectoryTreeProofs!TypeCorrect` | `Spec => []TypeOK` |
| `DirectoryTreeProofs!ClosureTree` | `Spec => []ClosureIsTree` |
| `DirectoryTreeProofs!TrashWhole` | `Spec => []TrashIsWhole` |
| `DirectoryTreeProofs!NothingInUseLost` | `Spec => []OnlyStraysLost` |
| `WebSessionProofs!TypeCorrect` | `Spec => []TypeOK` |
| `WebSessionProofs!TokenStored` | `Spec => []TokenIsStored` |
| `WebSessionProofs!NobodyElseShown` | `Spec => []ShownIsOwn` |
| `WebSessionProofs!PagesGuarded` | `Spec => []OnlyWhoMay`: a private page on the screen is one the token's owner may see |
| `WebSessionProofs!TabComesToRest` | `Spec => []WorkIsRest /\ WorkEnds` |
| `SecurityMonitorProofs!TypeCorrect` | `Spec => []TypeOK`, which counts the closings of a channel |
| `SecurityMonitorProofs!LatestQueued` | `Spec => []QueueIsLatest` |
| `SecurityMonitorProofs!PageCatchesUp` | `Spec => []CatchesUp` |
| `SecurityMonitorProofs!PageComesToRest` | `Spec => []WorkIsRest /\ WorkEnds` |
| `FilesPageProofs!TypeCorrect` | `Spec => []TypeOK` |
| `FilesPageProofs!ClickedShown` | `Spec => []ClickedIsShown` |
| `FilesPageProofs!ShownAsIs` | `Spec => []ShowsWhatIs` |
| `WorkspaceActionsProofs!TypeCorrect` | `Spec => []TypeOK` |
| `WorkspaceActionsProofs!QuestionAnswered` | `Spec => []AnswersItsQuestion` |
| `WorkspaceActionsProofs!DetailFreed` | `Spec => []DetailIsFreed` |
| `WorkspaceActionsProofs!ListsCatchUp` | `Spec => []CatchesUp` |
| `WorkspaceActionsProofs!NoticeTrue` | `Spec => NoticeIsTrue` |
| `WorkspaceActionsProofs!CallNeverStuck` | `CallsCanGoOn` with the guards of `Progress` in the place of ENABLED |

*Safety of the content store.* Neither property is inductive: that a sweep may remove a chunk
follows from what it decided many steps before. `SafeInv` adds the missing parts. `LockInv` says
who holds the lifecycle lock, and that the sweep and the uploads inside `touchChunk` exclude each
other. `Registered` says that an upload has registered every chunk it has passed, `Midway` what it
has found or written inside `touchChunk`. `SweepInv` carries the sweep's decision: what it has
chosen is needed by no active manifest and no registered upload, and stays so while it holds the
write lock, because commits, touches and retains need the read lock. The commit step then needs
`Registered` with `TouchedChunksKept` (the chunks it commits are all there), and the removals need
`SweepInv`. The assumption `HandlerStore = GcStore` is used where `LockInv` speaks of both sides
at once; `vault_two_stores` shows that it cannot be dropped. What is left without it, in the
wiring of the program as it is, `ContentKeptBetweenSweeps` states: the damage comes from a scan
that an upload meets between its start and its commit, or a retain of what is gone already. An
upload that meets none leaves a whole object, because only a sweep removes files and records; a
whole object loses bytes only to a sweep that has chosen them, and none of its chunks is chosen
afterwards while it is active.

*Ends of uploads and sweeps.* `WorkOf` counts the steps an upload has left, three for each chunk
and four to commit and unregister: `WorkShrinks` says that each of its own takes some off and that
no step of anybody adds any, but a new upload. `NeverStuck` says that with one Store such a step
can be taken, with the guards written out (`Ready`). The commit is the one that needs the safety
invariant: it wants the records of all its chunks, which `Registered` and `TouchedChunksKept`
give, so it is the same argument that keeps content and that keeps uploads from failing at their
end. A sweep ends likewise: each step makes a decision or the sets it works off smaller. For
`OverdueFound`, a chunk is overdue if no active manifest and no registered upload has it and its
retirements, or its creation where it was never retired, lie before the start of the sweep by the
grace period; a file without a record by its own age. A scan chooses all of them: a chunk that no
active manifest has could still be spared for a positive count, were it not for `CountsBacked`.
`SnapshotInv` says that what the scan has read of the registry and of the retired manifests stays
true under the lock, so nothing it has found is given up between the scan and the removal.

*Refinement.* Under `SafeInv` each step maps to one of `ContentStore`'s: commits to `Put`
(an object is whole when it becomes active), retire and retain to their namesakes, file
and record writes to `Regain` of the objects they complete, removals to `Reclaim`, where
`SweepInv` gives that only retired objects lose bytes, and the rest to stuttering.

*Accounts.* Types alone are not inductive: `Owned` adds that whoever logs in, asks for a link or
holds a live session exists. Addresses are unique because the two writes ask the index again.
`SavedAddress` says that a save that was not asked for the password carries the address its
session was read with. For sessions, `RevokeDue` strengthens the property: a session left over by
a password change has a request that is still to revoke it *and that is not its own*, since
`RevokeOtherSessions` spares the session it runs in. For links, `LinkInv` says what holds within
`CreatePasswordResetToken`: unless requests of one user overlap, the transaction is alone, and
its snapshot, and then what it has marked, has all of the user's valid links. A used link is dead because
`CompletePasswordReset` asks for `used_at` in its own transaction; no invariant is needed. That a
reset is for the user the link was sent to does need one, `OwnLink`: the transaction writes by a
user id that was read before it, and a link that exists never changes hands (`LinkServesItsUser`).

*Age.* `RetirementGrace` speaks of the moment a chunk goes; the sweep has decided long before.
`GraceInv` carries the decision: the retirements of all holders of what the sweep has chosen
lie before its *start* by the grace period, and time only grows. Retire and retain cannot change
those manifests meanwhile, because they wait for the lock (`LockInv` of `SafeInv`).

*Readers.* `BadBytesStop` needs only what the loops know (`VerifyInv`): the mode follows from the
size, and a bad chunk is the last one sent, by a streamed read that has been cut. For
`OwedReadsServed`, `KeptInv` says that the manifest of a read with a claim still owes its bytes and
that all of them are there: what the collector takes has aged (`AgedInv`), and what a step of the
store leaves owed has not, so it takes no chunk of such a manifest.

*Outbox.* `Spec` of `Retirement` is what `SystemSpec` runs beside the collector (`SystemRefines`).
For `LastDeleteQueues`, `LockInv` says that a transaction holds the lock of every manifest it
deletes a reference of, that no other holds it, and that after its DELETE it has queued what has
no reference left: while the lock is held nobody else takes references away, and those that
MarkCommitted might add wait. A permanent delete of a folder also takes rows whose manifests it
has not locked (a hazard listed in `PROJECT.json`): `RootReferenceQueued` therefore speaks of the
manifests that no file of the folder has, and `FolderFiles = {}` makes these all manifests.
`CommittedStaysActive` mentions the outbox, but without faults and crashes it is not needed:
`Attended` says that whoever retires a manifest or commits a file still has the second reference
check or the retain ahead. `ReadInv` then follows a grace period: it ends while nobody is at work,
hence on a manifest that no committed file has, and whoever commits one later has put the bytes
again first. `storage_crash` shows that `MaxCrashes = 0` cannot be dropped, and with one fault TLC finds the same
loss: the last retain of an upload fails while a worker is between its second check and its
completion. What a fault or a crash cannot touch is proved without assumptions. The outbox only
grows (`AskedOnce`) and workers have only what is in it (`AskedInv`), so `UnaskedInv` keeps a
manifest that was never queued: `UndeletedKept`. `SoleInv` says that the bytes of a single upload
are queued only with its row gone for good, because a transaction locks committed rows and a
request that has committed never does so again: `OwnBytesKept`. A loss thus needs bytes that
several uploads share and whose retirement has been queued. The refinement holds
with faults and crashes: `KnownInv` says that what a row, the outbox, a transaction or a batch
names is a manifest the vault has taken, so no retain makes up one that is absent.

*Folders.* `TreeInv` joins four parts: `TypeOK`; `Requests`, what a request between two
statements may rely on (the id it is to create is new and its own, what it has collected exists or
has existed); `Forest`, the rows of the closure table taken one by one; and `Placed`, that files
are in folders that are there. `Forest` alone is inductive only with `Requests`, since
`InsertDirectory` copies the rows of a parent it has checked one statement earlier. `Paths` (no
gaps) then excepts the strays, as a permanent delete may cut the path of what came late. `Covers`
strengthens `TrashCovers`: a folder in use below one in the trash is a stray *and all its files
are*, without which a file restored by itself would break it. For `TrashListed`, `AllReached`
takes the farthest ancestor of a folder that is reached through trash alone. `Collected`
follows a permanent delete from the reading of the ids to the deletion of the rows: what it has
read is still below its folder, or a stray, or gone. Whatever of it is in use at the delete is
then a stray or in one, or the folder asked for has been restored since (`TakenInUse`): were that
folder still in the trash, so would be what is below it, by `Covers`.

*Session.* `ShownIsOwn` is not inductive, as answers are stored long after they were asked for.
`SessionInv` adds `OwnAnswers`: what is under way for `/auth/me` and for files was answered for
the owner of the token in the storage, unless another tab has interfered since; and `Blank`: with
no token there is nothing left to show. A logout or a failed `/auth/me` drops the queries with
their fetches, which is where `ClearedButFiles` would break it. `OnlyWhoMay` follows from the same
invariant at the moment of a rendering. `Settles` has the guards and the router in it: `Work`
counts what may still happen of the tab's own (an answer to `/auth/me`, the hops to a page the
user may see, the rendering). The hops are at most two, as the page a guard sends the user to, or
the one after it, is one where he may stay (`HopsFall`): `TabComesToRest`.

*Monitoring.* `QueueIsLatest` becomes inductive with the channels of the streams that have not
subscribed: they are empty (`Latest`). `CatchesUp` speaks of a page at rest and is not inductive.
`Queues` says that no channel holds an event twice and that each was published, `Told` that the
event the page has handled last does not wait in its channel any more. `Cover` then says, unless
`missed` has recorded a lost refresh, where the page's next refresh will come from: an event in
the channel, a set timer, a fetch that has been sent and not read, one that was read with all the
page was told of; or nothing is under way and the page shows all of it. `PageComesToRest` weighs
these: each event in the channel leads to a timer, a fetch and its reading at most, so `Work` is
at most `4 * Capacity + 5`, and an event that joins a full channel replaces another.

*Page of files.* The effects of a rendering run until nothing changes: the lemmas about `Resolve`,
`RedirectUnknown`, `Observe` and `Reselect` say what each leaves settled, and `Becomes` composes
them. `ClickedIsShown` is inductive with the types, since a rendering keeps the selection or
finds the file missing. `ShowsWhatIs` speaks of a page at rest; `Told`
says at every moment that the tree and the list of a folder are what the server has, are being
fetched with what it has, or are owed by the stage of `op` that is still to make them stale.

*Actions.* `Asks` (the dialog names the kind and the items of its call, one of which still waits for the answer)
makes `AnswersItsQuestion` inductive, `Freed` says that whoever has the buttons off runs, asks or is
forsaken. For `CatchesUp`, `Fetching` says that what is being fetched is what the
server has, and `Fresh` that, on the list on the screen when it is not being fetched, each item is
shown as the server has it or some request that has been served is still to make the list stale
(unless `late` or `lost` excepts it). `NoticeIsTrue` follows from the same invariant at the moment
of the notice. `CallsCanGoOn` says that an action is ENABLED, of which
the prover knows nothing; `CallNeverStuck` is the same with `GoesOn`, the guards of `Progress`.
Its invariant `Finished` says that a call whose success is out has ended, so that a call at work
has a request to go on with or a notice to give.

*Only model-checked.* Liveness (`UploadsEnd`, `GarbageReclaimed`, `OutboxDrains`, `ComesToRest`,
`Settles`) and ENABLED (in `CallsCanGoOn`) are out of the prover's reach. Of `UploadsEnd`,
`GarbageReclaimed`, `ComesToRest` and `Settles` the safety half is proved for all values: a
measure that every step of the party concerned lowers or a choice that is kept, and a guard that
holds until it is done. What stays with TLC is the use of fairness: that a step whose guard holds
is taken, and that a sweep comes and its removals succeed at last. `OutboxDrains` is only
model-checked. `CommittedReadable` and `ActiveManifestIntact` are proved under the assumptions
above and violated without them, as the two runs that expect a violation show.

## Not modelled, and why

- *Chunker, rate limiter, policy of the UDS server, security event bridge, security lab*: next on
  the plan below.
- *HTTP handlers, DTOs, activity log, reports, insights, administration lists, system status*:
  reads and formatting over tables whose writers are modelled, or single inserts.
- *Web client*: the pages that show the answer of one query and change nothing (landing, activity,
  insights, administration), and of the modelled pages what does not bear on the properties: paging
  and filters of the lists, previews, downloads, upload progress, notices other than of an end,
  the tour, and validation of forms.
- *Hashes and encodings*: a chunk or manifest is identified by its hash; collisions are left out.
- *Configuration, migrations, seeds, scripts*: used as the source of constants and indexes.
- *Names and stars*: `DirectoryTree` gives each row a fixed name, since the service has no
  rename. Starring touches one column that nothing else reads.

## Plan

The runs of the modelled parts leave room for what follows only by merging: each of these takes
its place beside the run whose question it continues.

1. *Rate limiter*: windows, the table limit and eviction, as an implementation of a limiter with
   unbounded memory, up to what eviction forgets.
2. *Chunker*: `Split` and `shouldCut` as a function over bounded inputs against a reference
   definition (the concatenation is the input, sizes within the bounds, cuts depend on the
   content after the last cut only).
3. *UDS policy and the bridge*: refused operations, events handed over with retries and bounded
   buffers on both sides.
4. *Security lab*: a run's streaming, cancellation and cleanup of what it created.
5. *Proofs*: the parts above, each with its theorems.
