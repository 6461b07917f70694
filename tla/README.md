# A TLA+ development of timich-agent

`timich-agent` is the gateway between paired client apps and a home media
library: it pairs devices, receives uploads, serves media over HTTP and WebRTC,
talks to a relay through an outbound stream, and indexes media in the
background. This directory holds TLA+ modules of the parts of it in which
several goroutines, two kinds of durable storage and failures meet, the TLC
configurations that check them on small instances, and proofs about most of
them for instances of every size.

Paths below are relative to the root of the repository (`internal/...` and
`cmd/...` are Go packages of the agent).

Contents

1. The system: its components, their state, what is hard about them
2. The plan
3. The modules, and how they correspond to the code
4. The runs: questions, bounds, fairness
5. What is proved
6. What is only model-checked, what is abstracted, what is not modelled
7. How to run it

## 1. The system

### 1.1 Overview

One process serves all of it. A request of an app arrives over the LAN
(`internal/mediaapi`), through the relay stream (`internal/controlplane`) or
inside a WebRTC data channel (`internal/webrtcmedia`); a request of the
administrator arrives at `internal/adminapi`. All of them end in methods of
`runtime.AgentRuntime` (`internal/runtime/agent_runtime.go`), which owns the
stores and the locks:

    mediaapi ----+                     +--> store: device-registry.json, profiles (files)
    controlplane +--> AgentRuntime ----+--> store: upload database (SQLite) + upload root (files)
    adminapi ----+      |     |        +--> catalog: catalog database (SQLite), indexes, caches
                        |     +--> webrtcmedia.Manager (sessions, leases, peers)
                        +--> background loops: discovery, mirror sync, scheduler,
                             upload maintenance, ONNX supervisor

Components interact by direct calls; by the lock tables of `upload_locks.go`
(one reader-writer lock per device for uploads, one per device for WebRTC, one
per upload session); by callbacks (the lease checker of WebRTC sessions is a
relay call, timers close sessions); and through what they store. Nothing
spans two of the stores: an upload commit touches a database and a directory, a
revocation the registry file, the WebRTC manager, the upload database, the
upload root and the profiles, one after the other, and the process may stop
between any two of them.

### 1.2 Components

For each component: its state, its operations, what is hard, what makes it
correct, and where it is modelled.

**Upload sessions, chunks and commit** (`internal/runtime/upload_runtime.go`,
`upload_sync.go`, `internal/store/upload_store.go`, `upload_ledger.go`).
State: tables `upload_sessions` and `uploaded_assets`, one ledger epoch per
device, temporary files named after the upload id, final files in the upload
root. Operations: StartUploadSession, AppendUploadChunk, CompleteUploadSession,
AbortUploadSession, CheckUploaded, UpdateDeviceUploadPolicy.
Hard: a commit is five effects in two stores; a crash anywhere in between must
be recoverable from what is found; two sessions may be created for one source
identity; other programs write to the same upload root; a chunk reaches the disk
before the offset that confirms it. Correct when: an acknowledged upload is in
the library byte for byte, once; no file is ever replaced; no last copy is lost;
evidence is withdrawn only with a new epoch; sessions and temporary files end.
Module `UploadCommit`, abstract specification `UploadPromise`.

**Upload reset and revocation of upload state**
(`internal/runtime/agent_runtime.go`, `internal/store/upload_store.go`,
`device_profile.go`). Operations: resetDeviceUploadState, RevokeDevice,
DeleteProfile. Hard: rows first and files later, in-flight uploads of the same
device, failure half way. Correct when: nothing of a revoked device comes back.
Modules `UploadCommit`, `DeviceRegistry`.

**Upload maintenance** (`internal/runtime/upload_maintenance.go`,
`internal/store/upload_cleanup.go`). A daily pass over candidate sessions and
orphaned temporary files, with lists that are stale when used, and try-locks
that skip what is busy. Correct when: what is in use survives and what is not is
collected in the end. Module `UploadCommit`.

**Upload lock tables** (`internal/runtime/upload_locks.go`). State: a map from an
identity to a lock object with a reference count. Hard: an entry is dropped by
reference count while others are about to wait for it; plans of several locks
must not wait for each other in a circle. Correct when: it is one reader-writer
lock per identity, it forgets unused entries, and everyone is answered. Modules
`UploadLocks` and, as its abstraction, `KeyedLock`.

**Device registry and pairing** (`internal/store/device_registry.go`,
`nearby_link.go`, `internal/pairing/service.go`, `internal/atomicfile/write.go`).
State: a registry in memory and its copy in a file: devices, pairing code,
Nearby Links, refresh token families; profiles in files of their own.
Operations: create, redeem, approve, deny, poll, rotate, rename, revoke, evict.
Hard: some operations change memory before the write and some after it; the
write may fail before or after the rename; a poll is two critical sections; an
app may lose the answer of a rotation; the limit of devices is shared by
ordinary and review devices. Correct when: one approval is worth one session,
guesses are bounded, token families neither fork nor get lost, the limit holds,
ordinary devices are never evicted, revoked ones are gone. Module
`DeviceRegistry`.

**WebRTC media sessions and leases** (`internal/webrtcmedia/authorization.go`,
`manager.go`, `shutdown.go`). State: sessions, leases by device, lease goroutines,
peers, timers. Operations: Prepare, AnswerOffer, Reauthorize, closeSession,
renewLease, applyLease, expireLease, revocation, Cancel, Wait. Hard: an offer
prepares a session in one critical section and gives it a peer in a later one; a
lease is shared by sessions that come and go; an answer of the checker may be
late; shutdown seals the group that owns peer closures. Correct when: nothing
stays open without authorization, a revoked device is silent, a lapsed lease
authorizes nothing again, shutdown ends and leaves nothing. Module
`MediaSessions`. The media requests served inside a session are not modelled.

**Work groups** (`internal/lifecycle/group.go`): admission counters that close.
The two groups of webrtcmedia are in `MediaSessions`, as phases of shutdown.

**Shutdown coordinator** (`cmd/timich-agent/shutdown.go`,
`internal/runtime/shutdown.go`): phases with deadlines, a watchdog, the order in
which admission closes, work is cancelled and databases are closed. Correct
when: no database is closed under admitted work unless the deadline forced it,
and shutdown ends. Not modelled (section 6), but for the part that
`webrtcmedia` has in it.

**Relay client** (`internal/controlplane/client.go`): one stream, a receiving
goroutine, two bounded pools of workers, `relay_busy` answers sent by the
receiver itself, one failed result upload cancels the stream, reconnects with
backoff. Correct when: every request is answered at most once, the receiver is
not blocked by full queues, and workers end with the stream. Not modelled
(section 6).

**Background worker scheduler** (`internal/runtime/scheduler_work_state.go`,
`semantic_candidate_backfill.go`, parts of `agent_runtime.go` and
`local_metadata_worker.go`). State: a summary of the work in the catalog with a
sequence number, workers taken by phase, retry times, the goroutine of the loop
and those of assignments, a wake channel. Operations: recompute, mark dirty,
reserve, report, release; launch, finish; configure, stop. Hard: the summary is
recomputed in several reads without its mutex while others change the catalog
and correct the summary; the loop sleeps up to half an hour on what the summary
says. Correct when: work is never forgotten by a summary that counts as fresh,
it is done without waiting for the half hour, and the table of workers agrees
with the goroutines. Module `BackgroundWork`.

**Foreground activity gate** (`internal/runtime/foreground_activity.go`). State: a
count of foreground requests, a quiet period, the cancel functions of background
work. Hard: background work begins between the check for quiet and the
registration of its cancel function. Correct when: after a request has begun
nothing cancellable goes on uncancelled. Module `BackgroundWork`.

**Datasource discovery, local scan and mirror sync**
(`internal/catalog/local_filesystem_scan.go`, `internal/runtime/local_scan.go`,
`mirror_sync.go`, `datasource_indexing.go`). State: the accepted root, its
generation and a pending reconciliation, directory mtimes, rows of files. Hard: a
scan takes minutes and writes in batches while files change, workers register
and uploads announce files. Correct when: a scan does not lose a file that is
there, and a reconciliation ends with what is on disk. Module `LocalMedia`; the
timers that start discovery and what it tells the scheduler are arrivals of
`BackgroundWork`. Mirror sync is not modelled.

**Local media jobs** (`internal/catalog/local_filesystem_metadata.go`,
`local_filesystem_jobs.go`, `local_media_root.go`). State: job rows of the root's
generation, claims, claims to be recovered. Operations: claim, hash, register,
resettle, fail, defer, requeue, repair, accept a root. Hard: a file is hashed
outside any transaction and may be another one when it is registered; a root is
replaced under workers; a claim survives its worker. Correct when: a row has one
job until it is registered, work under a root never writes for another, no job of
an older root is left. Module `LocalMedia`, for metadata jobs; thumbnail jobs
and content verification are not modelled as tables.

**Catalog store and gallery projection** (`internal/catalog/service.go`,
`catalog_*.go`): about 20,000 lines of SQL over one database. Data
transformation inside transactions, no protocol of its own; not modelled.

**Semantic index, model packs and runtime packs** (`internal/catalog/semantic_*`):
vector files, downloads and installs, numeric search. Not modelled: embeddings
and publications occur as phases of `BackgroundWork` only.

**ONNX runtime supervisor** (`internal/runtime/semantic_onnx_runtime.go`): child
processes with restart backoff, behind one mutex. Not modelled.

**Admin API and web UI** (`internal/adminapi`), **Media API**
(`internal/mediaapi`): parsing, authorization and formatting around the
operations of the runtime. The upload routes are the arrivals of `UploadCommit`;
what else changes state is an action of the module of the operation it calls.

**Immich connector**, **Configuration, agent state and tokens**: HTTP calls of an
external server, file reads, signatures; sequential, no shared state. Not
modelled.

**Resource and storage guards** (`internal/runtime/storage_guard.go`): a refusal
that an upload call may get at any time (`Fail` of `UploadCommit`); the
measurement is left out.

**Helper programs and packaging** (`media-helper`, `semantic-runtime`,
`cmd/timich-semantic-helper`, `tools`, `docker`, `packages/contracts`): separate
processes without shared state, build scripts, wire contracts. Not modelled.

The hazards of these components, each with the line where it bites and the
properties that would show it going wrong, are the list `hazards` of
`PROJECT.json`.

## 2. The plan

In order of importance to the users of the agent. All of it is done.

| | module | about | checks | theorems |
|---|---|---|---|---|
| 1 | `UploadCommit` | uploads, recovery, reset, revocation, maintenance | 3 runs | `UploadCommitProofs`, `UploadSafetyProofs` |
| 2 | `UploadPromise` | what an upload promises; refined by 1 | in the runs of 1 | `UploadSafetyProofs` |
| 3 | `DeviceRegistry` | pairing, tokens, the registry in memory and on disk | 2 runs | `DeviceRegistryProofs` |
| 4 | `KeyedLock`, `UploadLocks` | one reader-writer lock per identity | 1 run | `UploadLockProofs` |
| 5 | `MediaSessions` | offers, leases, revocation, shutdown of WebRTC | 1 run | `MediaSessionProofs` |
| 6 | `BackgroundWork` | the scheduler, its summary of work, the foreground gate | 3 runs | `BackgroundWorkProofs` |
| 7 | `LocalMedia` | scans, metadata jobs, roots of a Local datasource | 2 runs | `LocalMediaProofs`, `LocalScanProofs` |

Compositions: `UploadCommit`, `DeviceRegistry` and `MediaSessions` use the gates
of step 4 as atomic reader-writer locks. That `UploadLocks` implements
`KeyedLock` is what entitles them to it. `BackgroundWork` composes the scheduler
with the gate it yields to; `LocalMedia` composes scans, workers, uploads and
administrators over the tables they share.

Abstract specifications: `UploadPromise` and `KeyedLock`. For the others the
properties say directly what the component promises.


## 3. The modules, and how they correspond to the code

`PROJECT.json` maps every definition to the lines it stands for. The modules
share a few conventions.

- A handler (a request, the maintenance loop, an offer, a goroutine of a lease)
  is a record with a program counter and its locals; it stands between two calls
  that other code can observe, and every action makes one such call together
  with the code around it up to the next one.
- A critical section of a mutex, a transaction of SQLite (one connection, so
  transactions do not overlap) and a system call on a file are one action each.
- A lock held across calls follows from the program counter. `DEFER`ed releases
  are thereby part of whatever step ends the handler.
- Operators called "Broken variant" are not used by any module. Each is a defect
  that could plausibly be in the code; putting it in the place of the definition
  below it makes a property fail. They document what each property is able to
  see, and `PROJECT.json` lists them under `mutants`.

### UploadCommit

| variable | code |
|---|---|
| `paired` | the devices of the registry, as far as uploads look at them |
| `admits` | the profile of a device: which assets its upload policy lets in |
| `epoch` | `ledger_epoch` of a device |
| `session` | `upload_sessions`: status, confirmed offset, source identity, expired or not |
| `ledger` | `uploaded_assets`, at most one row per source identity |
| `temp` | temporary files by upload id: content, older than the orphan cutoff or not |
| `final` | the upload root: path, content, and which upload placed the file |
| `hand` | handlers |

| actions | code |
|---|---|
| `StartRead`, `StartLookup`, `StartCreate`, `RecoverLock` | StartUploadSession, in the calls it makes under the shared gate |
| `AppendWrite`, `AppendCommit`, `AppendUndo` | AppendUploadChunk: write and sync, UpdateSessionProgress, truncation after an error |
| `CompleteBegin`, `Reserve`, `ReserveRefused` | CompleteUploadSession up to ReserveUploadCommit |
| `LinkFinal`, `LinkConflict`, `UnlinkTemp`, `Mark` | the loop over suffixed paths, finalizeUploadFile (link, then remove), MarkUploaded |
| `RecoverDecide`, `RecoverMark`, `RemoveTemp` | recoverPendingUploadAssetLocked |
| `AbortSession`, `UpdatePolicy` | AbortUploadSession, UpdateDeviceUploadPolicy |
| `ResetDevice`, `RevokeDevice`, `RevokeReset`, `RemoveFile`, `FilesRemoved`, `DeleteProfile` | resetDeviceUploadState and RevokeDevice under the exclusive gate |
| `CleanupSession`, `LookupOrphan`, `RemoveOrphan` | RunUploadMaintenanceOnce under its try-locks; a file without a session is looked up and removed under the lock of its session and no gate |
| `Fail`, `Crash`, `ForeignFile`, `SessionAges`, `TempAges` | an error of the next call, death of the process, other programs, time |

`WriteThrough` deserves a word: a final file made by `os.Link` shares its inode
with the temporary file until that is removed, so that an append in between would
change the library. The model writes through the link, and `FinalNeverChanges`
shows that no append ever comes at that time.

### UploadPromise

Three variables (the contents of the library, what is acknowledged, the epochs)
and three steps: media is stored, a source identity is acknowledged with stored
content, acknowledgements are withdrawn together with a new epoch.
`UploadCommit` implements it with `Library == {f.data : f \in final}` and
`Acked[a]` the checksum of an uploaded row.

### DeviceRegistry

`mem` is `DeviceRegistryStore.registry`, `disk` is `device-registry.json`; both
are records of devices, review devices, token generations, remembered
predecessors, the code and its misses, links and their misses. A write has three
outcomes (`Outcome`): done, failed before the rename, failed after it. The two
ways in which operations treat a failure are two operators: `Swap` changes a
copy that becomes the registry only if the write went well; `InPlace` changes
memory whatever the write comes to. Which operation uses which is read from
`device_registry.go` and `nearby_link.go`, operation by operation. `profile` is
the set of profile files. The variables in `ghosts` record history that
properties speak of: which approval a device was created for, whose session was
answered, which token the app holds, who was asked to be revoked, which
revocations ended, how many wrong guesses were answered as wrong.

Requests of the runtime that take several calls are program counters: a new
device goes through `ensure`, `profile` and, when that fails, `undo` and
`unprofile`; a poll of a link goes through `approved`; a revocation through
`revoked`; a review device that makes room through `evict`. Actions bear the
names of the operations (`RedeemPairing`, `RedeemLink`, `CreateReview`,
`Rotate`, `Replay`, `Revoke`, ...). `CodeExpires`, `LinkExpires` and `GraceEnds` are
time, `Crash` replaces memory by the file. `Ops` selects what an instance
performs; every operation is performed in some run.

### KeyedLock and UploadLocks

`KeyedLock` is what a lock per identity promises: readers or one writer per key.
`UploadLocks` is `uploadLockRegistry`: `Ref` looks an entry up or makes it and
counts the reference, under the mutex of the table; `RLock`, `Announce`, `Drained`
and `TryLock` are the RWMutex of the entry (external code, modelled from its
documented behaviour: a waiting writer keeps new readers out, its unlock lets
waiting readers in); `Unref` drops the entry with its last reference. A process
follows a plan, the sequence of locks an operation takes:

| plan | code |
|---|---|
| `Upload` | lockUploadSession: shared device gate, then the session |
| `Maintain` | tryLockUploadSession: the same, trying |
| `Revoke` | RevokeDevice: exclusive upload gate, then exclusive WebRTC gate |
| `Offer` | AnswerWebRTCOffer: shared WebRTC gate |

Entries are made and dropped while others wait for them, and the refinement
`IsLock` maps whoever holds a lock object to the key of its plan.

### MediaSessions

| variable | code |
|---|---|
| `session` | `Manager.sessions`: open or gone, token valid, lease scope, peer |
| `scope` | lease scopes: context, deadline, renewal goroutine, reference count |
| `leases` | `Manager.leases` |
| `offer` | offers under way |
| `toClose` | ids that a closer collected under the mutex and closes one by one |
| `revoker`, `stop` | RevokeDevice by device, the phase of shutdown |

`Prepare` makes a local session, or a hosted one that shares or starts the lease of
its device; `LeaseReady`, `SetPeer` and `Activate` are the later critical sections of
AnswerOffer; `Denied`, `Granted`, `Unreached`, `Undated`, `Sleep`, `RenewAgain` and
`RenewReturns` are renewLease; `LeaseLapses` and `LeaseTimer` are the deadline and the
timer that notices it; `Close` is closeSession, wherever it is called from.

### BackgroundWork

One loop starts heavy work; what it starts next it decides on a summary of the
catalog.

| variable | code |
|---|---|
| `conf`, `admin` | local media and semantic settings, and a change of them under way (configMutationMu) |
| `todo`, `settling` | jobs of the catalog by phase: due, or not before a settling time |
| `cache`, `moved` | `schedulerWorkState`; whether its sequence number moved since the loop read it |
| `active`, `deferred` | `backgroundWorkerActive`, and the phases with a retry time |
| `loop`, `wake` | the goroutine of the loop with what it read so far, its wake channel |
| `work`, `waking` | the goroutine of an assignment, by phase; an ended one that is about to wake the loop |
| `front` | foreground requests |
| `notice` | somebody who changed the catalog and has not said so yet |
| `events` | bound |

| actions | code |
|---|---|
| `BeginCount`, `BeginCancel`, `EndRequest` | a foreground request is counted, then cancels what is registered; it ends with its quiet period |
| `Arrive`, `Notify` | discovery, uploads, schedules: the catalog changes, then the summary is marked, then the loop woken |
| `Settle`, `Lapse`, `RetryDue` | settling times, the age of a summary, retry times |
| `LoopWake`, `LoopLook`, `LoopGate`, `LoopRead`, `LoopReadFails`, `LoopInstall`, `LoopChoose` | the loop: sleep, use the summary or recompute it behind the gate, install it unless overtaken, choose and launch |
| `WorkGate`, `WorkClaim`, `WorkJob`, `WorkDefers`, `WorkReport`, `WorkFails` | batches of metadata and thumbnails |
| `EmbedLookup`, `Embed`, `EmbedReport`, `EmbedFails`, `PublishIndex`, `Verify`, `GatedFails` | embeddings, index publication, content verification |
| `WorkAfter`, `WorkFinish`, `WakeLoop` | what follows every assignment |
| `Configure`, `ConfigMark`, `ConfigSync`, `ConfigStop` | a change of configuration: limits, summary, then the loop is started, woken or stopped |

`cache.gap` and `work[p].replaced` are history the code does not keep: they say
why a summary may lack semantic work although it counts as fresh. The third is that
of an embedding run which a stop or a request cancelled: it returns at once, and
nothing marks the summary for the index job it may have left.

### LocalMedia

| variable | code |
|---|---|
| `disk`, `mounted` | the files of each volume, the volume at the configured path (external) |
| `root` | `local_scan_root_state`: accepted identity, generation, pending reconciliation |
| `clean` | directories whose stored mtime is still theirs |
| `locs`, `latest` | `local_asset_locations` by id; the row of a path that became missing last |
| `assets` | `local_assets` with `catalog_assets`: visibility, primary row |
| `jobs` | `local_scan_jobs` of kind metadata |
| `scan`, `upload`, `worker` | the scan, the announcement of an upload and the metadata workers under way |
| `remembered` | `localMetadataRecoveries`: claims that could not be given back |
| `steady` | ghost: paths whose file has not changed since their row was written |
| `stamped` | ghost: workers and the upload that may have read `updated_at` before the scan read its start time |
| `stray` | ghost: rows that returned just when a worker dropped the job of their absence |
| `budget` | bounds |

| actions | code |
|---|---|
| `BeginScan`, `StartScan`, `RefuseScan` | a scan reads the clock, then waits for the gate, then finds the volume it needs or does not |
| `EnterDirectory`, `VisitFile`, `FlushPath`, `FindMissing`, `MarkMissing`, `MarkBlocked`, `SaveDirectories`, `FinishScan`, `AbortScan` | the scan under the gate, to its last transaction |
| `OpenUpload`, `QueueUpload`, `UploadFails` | QueueCommittedLocalUpload |
| `StartJob`, `Claim`, `DropMissing`, `OpenFile`, `HashFile`, `Register`, `Resettle`, `MarkAbsent` | a metadata job: claimed, hashed outside any transaction, registered if nothing changed |
| `Break`, `FailJob`, `DeferClaim`, `RecoverClaims` | its errors and cancellations |
| `AcceptRoot`, `RequeueFailed`, `RepairMetadata`, `Restart`, `Settle` | administrators, a restart, settling times |
| `ChangeFile`, `Mount` | the world: files and volumes change at any time |

The transition gate of the root is the operator `Shared`: it is held from the
program counters of those who share it, and `AcceptRoot` requires it free.

Two times decide what a scan takes for old: its own start, which it reads before it
waits for the gate, and the `updated_at` of a row, which uploads and workers read
before their transaction. `Dates` lets a row written by one of `stamped` count as
written before the scan (`Untouch`) or since (`Touch`); all others are written since.

## 4. The runs

Every run uses model values and, where it checks no liveness, symmetry of the
interchangeable ones. Deadlock is checked except where an instance may come to
its end: identities of `DeviceRegistry` are drawn from finite sets, and the events
of `BackgroundWork` and the changes and errors of `LocalMedia` are bounded.

| run | question | instance | states |
|---|---|---|---|
| `upload_identity` | is anything lost, overwritten, stored twice or stored unconfirmed? does the protocol keep `UploadPromise`? | 2 sessions for 1 identity of 2 chunks, 2 requests and maintenance, a foreign file with the same bytes on the base path, 2 path attempts, 1 reset | 500 172 |
| `upload_collect` | do sessions and temporary files end? | 2 sessions of one identity, 1 request, 1 reset, fair | 103 526 |
| `upload_retry` | is every interrupted commit finished for a client that retries? | 2 sessions of one identity, 1 request, no reset, fair and retrying | 41 774 |
| `registry_pairing` | is an approval worth one session, are guesses bounded, do app and registry stay within one rotation? | 2 devices, 1 code, 1 link, 2 requests, 2 misses, 3 generations; revocation, rename, crashes | 683 878 |
| `registry_devices` | do limit, eviction and revocation hold together? | 3 devices for 2 slots, 2 requests; hosted, review, rename, revoke, crashes | 623 028 |
| `locks` | is the table a lock per identity, is everyone answered? | 3 processes, 4 plans over 3 keys, 5 lock objects, fair | 121 283 |
| `media` | does anything stay open that should not, does shutdown end? | 2 sessions, 1 scope, 1 device, 1 offer, fair | 234 146 |
| `background_summary` | is work forgotten, does background work yield, do slots leak? | local and semantic work on and off, 2 workers, batches of 2, jobs of metadata, thumbnails, verification and publication arriving, 1 request, 2 events | 3 916 231 |
| `background_served` | is work done without waiting for half an hour? | local work on and off, a location to verify or none, 1 request, 1 event, fair | 90 068 |
| `background_recount` | does a cancelled recount leave the summary as it was? (No.) | local and semantic work, one vector left over, 1 event | violation |
| `local_catalog` | does the catalog stay sound under all its writers? | 1 path, 2 versions of its file, 2 roots, 1 worker, 2 rows, 2 jobs, 2 generations, 2 changes, 1 error | 542 783 |
| `local_reconciled` | is a reconciliation the correctness boundary? (Not always.) | 1 path, 1 version, 1 root, 1 worker, 3 changes, no error | violation |

### What each property says

Uploads. `UploadedIsStored`: "uploaded" names a file with exactly the recorded
bytes. `CommitRecoverable`: a reservation has its session and, at its path or in
its temporary file, its bytes. `OnlyConfirmedCommitted`: what is reserved is the
confirmed, complete length, whatever tail a torn append left. `PlacedOnce` and
`OneUploadPerIdentity`: one file per upload, and of competing sessions of one
identity only the one named by the row has placed a file. `FinalNeverChanges`: no
file of the upload root is removed or rewritten. `EvidenceNeedsNewEpoch`: evidence
goes only with a new epoch. `LiveTempKept`: the temporary file of a session in
progress is removed only after its bytes are in the library. `RevokedStaysEmpty`:
a request under way brings nothing of a revoked device back. `CommitInvariant` is
the inductive invariant of section 5; checking it states, for every program
counter, what the handler relies on. `KeepsPromise` is the refinement.

Registry. `RegistryInvariant` is the candidate inductive invariant (what memory,
file and requests must agree on); `OneSessionPerApproval`, `GuessesBounded`,
`WithinLimit`, `OrdinaryStays`, `TokensTogether` and `RevokedForGood` are what it is
for. `OneSessionPerApproval` speaks of answered sessions: after a failed write in
place a device may exist for which nobody got tokens, and a restart may bring a
code back whose redemption was never answered. `TokensTogether` lets the registry
be one rotation ahead of the app, never two, and never behind, in both copies.

Locks. `OneEntryPerKey`: all who refer to an identity refer to the same lock
object, and an identity nobody refers to has none. `IsLock`: the refinement.

WebRTC. `RevokedSilent`: from the end of the WebRTC part of a revocation on, no
session of the device is open. `LeaseTracked`: a lease is listed exactly while
sessions hold it, and counts them. `StoppedQuiet`: when shutdown has waited,
nothing is open and no goroutine runs. `LapsedForGood`: a late answer revives no
lease that ended. `LapsedClosed` and `Stops` are the liveness properties.

Background work. `NothingForgotten`: a summary that counts as fresh, while nobody
is about to correct it, knows of every phase that has wanted work; for local
phases without exception, for semantic ones unless it has one of its three gaps
(a recount that a request cut, a report that replaced what a recount had found, a
scheduled embedding run cancelled after it stored vectors).
`Yields`: once a request has begun, whatever the gate can cancel is cancelled,
also what was being registered meanwhile. `SlotsHeld`: the table of workers and
the goroutines agree. `Served`: provided recounts succeed again and again, wanted
work gets done, and nobody counts on the half-hour timer for it.

Local media. `CatalogInvariant`: types; an asset is shown exactly while one of its
rows is active and served from such a row; a row has at most one live job before a
root was ever replaced. `GateHeld`: who works under a root keeps it, with its
generation, until the end. `CurrentJobs`: after the reconciliation that an accepted
root requires, no job of an older root is left. `KeptIfSteady`: a scan marks no
file missing that has not changed since its row was written; where the writer had read
the time before the scan did, no file may have changed since then either. (A version
that vanishes and comes back under such a row is marked, until the next scan.)
`QueuedUntilRegistered`: a row that waits for metadata has a job of the present
generation, or its directory will be read again by the next quick scan, unless it is
`stray`: it returned just when a worker dropped the job of its absence, or it was
written while a scan waited behind the acceptance of another root.
`ReconciledAlone`: a reconciliation that finds nobody at work when it reads its start
time, and since when no file changes, ends with exactly what is on disk.

### Two disagreements between code and documents

- `background_recount` shows `RecountDeferred` violated. A foreground request that
  cancels the context of a recount makes the semantic part of it come out empty;
  the recount succeeds all the same and its summary is installed as fresh. The
  quoted comment promises that a cancelled recount is deferred.
- `local_reconciled` shows `Reconciled` violated. A worker finds the file of a row
  absent, the file returns, a reconciliation sees it and ends, and then the worker
  writes what it found: the row is missing although the file is there, until the
  next scan of its directory. `README.md` calls reconciliation the correctness
  boundary.

Both are listed in `PROJECT.json` under `findings`, with the lines.

### Why the bounds are enough

- Two handlers and the maintenance loop: every conflict of the upload path is
  between two parties, one of which may have been interrupted before (its traces
  are in the tables and files, not in a third handler). The proofs of section 5
  remove this bound for the safety properties they cover.
- Two sessions per identity: the unique row has an owner and a competitor; a third
  session would be a second competitor.
- Two chunks are the smallest length with a confirmed offset strictly inside it;
  `MaxAttempts = 2` makes one conflict recoverable and the next one final;
  `MaxEpoch = 1` allows one reset, and the properties relate the states around
  one.
- Three devices for two slots: a full registry, and one more that must evict or be
  refused. Two misses: one that counts and one that ends the code. Three
  generations: one that was forgotten, its successor, the newest.
- Three processes on the lock table: a holder, a waiting writer and a reader that
  arrives after it. Five lock objects are more than can be referred to at once.
- Two sessions under one lease: one that closes and one that keeps the lease
  alive. That a second scope replaces one that ended is covered by the proofs; the
  safety properties were also checked offline with two scopes (2 451 091 states),
  which with the liveness properties takes too long to be repeated.
- One source identity in `upload_identity`: what two identities of one device could
  do to each other goes through paths and epochs, and the theorems `EvidenceKept` and
  `PromiseKept` hold for any number.
- Two workers: two phases at work at once. `background_served` has batches of one job,
  the smallest that end before their phase is empty; `background_summary` has batches
  of two, so that a thumbnail batch leaves enough vectors for an embedding run of its
  own next to the mixed ones. Two events: one that makes the summary wrong and one that
  comes between it and its correction. The proofs of section 5 remove these bounds.
- One path with two versions of its file, two roots: a file that changes, comes back
  and is replaced; a root that is replaced. `local_catalog` was also run offline with three
  changes (7 013 058 states), without a difference; it takes too long to be repeated. The
  proofs of section 5 remove the bounds.

### Fairness, and why the code justifies it

- `UploadCommit!Fairness`: `HandlersRun`, and maintenance and time: a handler that
  started makes its next call (its calls return, with or without an error: `Fail`
  is among the steps); maintenance comes round, by its ticker; sessions and files
  get old. Clients promise nothing. An error of the database ends a whole pass of the
  maintenance, whichever upload it concerns (`upload_maintenance.go:145-148`), and a
  pass takes the uploads one after the other. Fairness is therefore strong, not weak,
  for each upload (`Maintenance(u)`, `Removes(u)`): passes get to it again and again, and
  not all of its calls fail. Any number of passes may end before they get there. Of an
  upload that every pass is cut short of, nothing is claimed.
  Under it `SessionsEnd` and `TempsEnd` hold for what is not contended for ever:
  maintenance only tries locks, so that an endless stream of requests may keep it
  out, and the properties say so.
- `RetrySpec` is `HandlersRun` and `Retry`: a client that keeps calling
  StartUploadSession for its reservation, on an agent on which no call of the
  recovery fails every time. It is a strong fairness of each step of the recovery,
  since a failing call takes the handler back to the start. Calls may fail and the
  process may die any number of times in between, and what follows the link in a
  commit may fail for ever: the next recovery finds the file.
- `UploadLocks!Fairness`: goroutines run, work under a lock ends, and the mutex
  inside an RWMutex serves its writers in turn (strong fairness of `Announce`; Go's
  mutex hands over to the longest waiter in starvation mode).
- `MediaSessions!FairSpec`: goroutines that were started go on; the lease checker
  answers within its timeout; timers fire; peers close. Nothing is assumed of
  clients, of tokens (which a client may renew for ever), of administrators or of
  when shutdown begins. `LapsedClosed` therefore speaks of leases that had a
  deadline or were cancelled, and not of a lease whose first answer is still due.
- `BackgroundWork!Fairness`: goroutines of the loop, of assignments and of
  administrators run; naps of the short kind end, retry and settling times come;
  requests end. The half hour (of the long nap, and after which a summary is old)
  is never counted on. `Served` has the premise that the summary is fresh again and
  again: nothing in the code excludes that every recount is overtaken.
- `LocalMedia` states no fairness: what it promises in the end depends on scans
  that users configure and on files that stop changing.

`Stops` assumes that shutdown began and is given time: the deadline after which
`cmd/timich-agent` exits regardless is not modelled.

## 5. What is proved

### Uploads

Modules `UploadCommitProofs` (types, and the steps that disturb nothing) and
`UploadSafetyProofs` (the steps that do, what needs to know where bytes and sessions
come from, and the theorems) prove the following of `UploadCommit!Spec` for every
value of its constants: any number of devices, source identities, sessions, chunks
per upload, concurrent handlers, path attempts and foreign files.

| theorem | statement |
|---|---|
| `CommitInvariantHolds` | `Spec => []CommitInvariant` |
| `TypeCorrect` | `Spec => []TypeOK` |
| `UploadedStored` | `Spec => []UploadedIsStored` |
| `ReservationRecoverable` | `Spec => []CommitRecoverable` |
| `StoredOnce` | `Spec => [](PlacedOnce /\ OneUploadPerIdentity)` |
| `IdentityStoredOnce` | `Spec => []OneUploadPerIdentity` |
| `FinalKept` | `Spec => FinalNeverChanges` |
| `EvidenceKept` | `Spec => EvidenceNeedsNewEpoch` |
| `PromiseKept` | `Spec => KeepsPromise`, the refinement of `UploadPromise` |
| `ProvenanceHolds` | `Spec => []ProvenanceInvariant` |
| `ConfirmedCommitted` | `Spec => []OnlyConfirmedCommitted` |
| `LiveTempStays` | `Spec => LiveTempKept` |
| `RevokedEmpty` | `Spec => RevokedStaysEmpty` |

Assumptions are the named `ASSUME`s of `UploadCommit` and nothing else: there is a
device and an asset; `Owner`, `Size`, `BasePath` and `Foreign` have their types;
`MaxAttempts` is at least one; the maintenance loop is not a request; `NoUpload`
and `NoFile` are none of the values they stand apart from. TLC evaluates them in
every run of the module.

The inductive invariant. None of the properties is inductive by itself. That
"uploaded" names a stored file depends on what a handler at `mark` knows about
the file; that depends on nobody else having moved the row, which depends on the
session lock, the gate, and what every other handler may do under its own.
`CommitInvariant` therefore says:

- `SessionsLocked`, `DevicesGated`: the locks exclude;
- `WorkingOK(h)`: what the handler relies on at its counter. At `append`, the
  session is active and the file is one chunk ahead of the offset; at `reserve` and
  `link`, the file holds the checked bytes and the upload has placed nothing; from
  `link` on, the reservation is pending and its own; at `unlink`, `mark` and
  `rmark`, the reserved file is there; at `rtemp` and `rmfiles`, the session no
  longer needs its file;
- `RowOK(a)`, `SessionOK(u)`, `FileOK(f)`: what rows, sessions and files say of
  each other between the steps;
- `PlacedOnce`, and `TypeOK`.

The argument distinguishes three kinds of steps. A *quiet* step changes no
status, no row and no byte of a live upload (`QuietKeeps`); locks aside, only the
counter of one handler has to be looked at. A step that *works on one upload*
does so under its lock or before it was born, so that every other handler, row
and file keeps what the invariant says of it (`OthersKeep`), and only that upload's
own row, session and files are left to check, action by action. A *reset* changes
many rows at once; it holds the gate of its device exclusively, so that no handler
that relies on one of them is under way (`ResetSteps`). `StepInvariant` puts the
steps together, and the last lines of the temporal theorems are propositional.

For the two action properties and the refinement, `LedgerSteps` classifies every
step as one that leaves acknowledgements alone, one that acknowledges an asset
with stored bytes, or one that forgets some together with a new epoch; these are
the steps of `UploadPromise`.

`CommitInvariant` does not say that the bytes of a reservation were confirmed, nor
that a session being created is of a paired device. `ProvenanceInvariant` adds it:
a handler at `reserve` holds bytes of the confirmed, complete length
(`ConfirmedAt`), the temporary file of a pending reservation still has the reserved
bytes (`TempMatches`), a handler at `unlink` placed the file (`PlacedAt`), one that
creates a session works for a device of the registry (`PairedAt`).
`SessionSteps`, `RowSteps`, `TempSteps`, `HandSteps` and `PairedSteps` say once for
all actions what a step may do to each variable; the three theorems follow from
these summaries. In `RevokedEmpty`, say, a trace can only come from a reservation,
whose session would have been a trace already, or from a new session, whose device
`PairedAt` puts in the registry.

### Device registry

Module `DeviceRegistryProofs` proves of `DeviceRegistry!Spec`, for any number of
devices, codes, links and requests, any limit and any number of allowed misses:

| theorem | statement |
|---|---|
| `RegistrySound` | `Spec => []RegistryInvariant` |
| `LimitKept` | `Spec => []WithinLimit` |
| `ApprovalSpentOnce` | `Spec => []OneSessionPerApproval` |
| `TokensAgree` | `Spec => []TokensTogether` |
| `RevocationFinal` | `Spec => []RevokedForGood` |
| `GuessesLimited` | `Spec => []GuessesBounded` |
| `OrdinaryKept` | `Spec => []OrdinaryStays` |

Assumptions: there is a limit of at least one device, of at least one miss and of at
least one generation; the set of identities of devices is finite (the limit counts
them); `NoDevice`, `NoCode` and `NoLink` are none of the values they stand apart
from; a code is not a link, and neither is the word "hosted" or "review".

The properties speak of the copy in memory, of the copy in the file, or of what an
app was told, and none of them is inductive: a failed write leaves the copies
apart, and a restart makes the file the only one. `RegistryInvariant` therefore says
of each copy by itself what a restart needs of it, and of the two together only
this: whatever the file has and anyone knows of is in memory (`Known`), and memory
is not ahead of the file in any token family (`TokensOK`). The proof follows that
division. `DevOK` and `PairOK` are what the invariant says of the devices and of
the codes and links of one copy, `Agree` what it says of both, `Outside` what it
says of the apps; `Parts` and `Assembled` take the invariant apart and put it
together. A write that fails anywhere leaves each copy as it was or as it was meant
to be, so that it suffices to look at the new copy once for every action and at no
interleaving of failures. `HandOK` is kept by `HandMoved`, whatever one request does
to its own state, because nobody else answers, revokes or takes back its device.
`ApprovalsKept` says that a step that brings no device closer to its answer spends
no approval; the four actions that do create a device are `AdmitKeeps`.

### Lock tables

Module `UploadLockProofs` proves of `UploadLocks!Spec`, for any number of goroutines
and identities and any set of plans:

| theorem | statement |
|---|---|
| `LocksSound` | `Spec => []LockInvariant` |
| `EntriesSound` | `Spec => []OneEntryPerKey` |
| `RegistryIsLock` | `Spec => IsLock`, the refinement of `KeyedLock` |

Assumptions: a plan is a non-empty sequence of locks and has no identity twice
(`acquire` is called for a device gate, a session and a WebRTC device, in tables of
their own); there are finitely many goroutines; the heap always has another lock
object than those in the table.

`OneEntryPerKey` is not inductive: whether an entry may be dropped depends on its
count, and the count on where every process is in its plan. A process says of a lock
object that it refers to it (`Uses`), holds it shared or exclusively (`Shares`,
`Excludes`), or waits at it (`Awaits`, `Drains`), and all of this is read off its
program counter and its stack. `LockInvariant` says that the count of an entry is the
number of its users, that its readers and its writer are those that say so, and that
the table has exactly the entries with users, each once. Two frames carry the proof.
A step at a lock object changes no reference and no other lock object
(`MoveInvariant`), so that each of them is only looked at where it happens, with
what it does to the claims of the one process (`TakenAt`, `UntakenAt`, `GivenAt`). A
step at the table changes no lock object (`LocksStill`), and what it adds or drops
nobody else has (`Unreferenced`, `TableMoves`). `HoldersAre` then says that the
holders of an identity are what its lock object says, from which each step maps to
`Read`, `Hand`, `Leave`, `Write` or a stutter.

### WebRTC sessions

Module `MediaSessionProofs` proves of `MediaSessions!Spec`, for any number of
sessions, leases, devices and offers:

| theorem | statement |
|---|---|
| `SessionsSound` | `Spec => []SessionInvariant` |
| `RevocationSilences` | `Spec => []RevokedSilent` |
| `LeasesTracked` | `Spec => []LeaseTracked` |
| `ShutdownQuiet` | `Spec => []StoppedQuiet` |
| `LapsedStaysOver` | `Spec => LapsedForGood` |

Assumptions: `NoneAssumption` (`None` is no session, lease or device) and
`CloserAssumption` (a device, a lease and the shutdown, which all close sessions,
are told apart). `SessionInvariant` adds to the properties: `RevokerOK(d)`, that a
revocation which cut the sessions has left none open and none is being offered that
looked the device up before; `ScopeOK(k)`, what goroutine, deadline and reference
count of a lease say of each other; `StopOK`, what each phase of shutdown may still
find open. Every action comes down to a few kinds of change: a session is born, a
session is closed (`CloseEffect`), a lease moves on without changing its holders, an
offer moves on; each part of the invariant has a lemma for each kind.

### Background work

Module `BackgroundWorkProofs` proves of `BackgroundWork!Spec`, for any batch size, any
backlog, any set of configurations, requests and arrivals, and any bound:

| theorem | statement |
|---|---|
| `TypesHold` | `Spec => []TypeOK` |
| `SlotsAgree` | `Spec => []SlotsHeld` |
| `BackgroundYields` | `Spec => []Yields` |
| `NoWorkForgotten` | `Spec => []NothingForgotten` |

Assumptions: `ConfigAssumption`, `BoundAssumption`, `ArrivingAssumption` and
`BacklogAssumption`, which give the constants their types and say that a batch has at
least one job and that some configuration and some backlog exist.

`NothingForgotten` speaks of the moments in which nobody corrects the summary, and
what makes it true happens in all the others. The inductive invariant
`BookKeeping` keeps accounts at every moment. A batch of a phase has jobs it may
still take (`Remaining`) and jobs it found for other phases and has not announced;
a usable summary, plus both, counts at least the jobs of the catalog (`CacheInv`).
It need not while `Owing`: somebody is under way who will mark the summary, who
arrived, changes the configuration, failed, or must defer. The same accounts are
kept for a summary that is being read, from each read on (`ReadInv`): they hold as
long as the sequence number stands still, which is what the check at the
installation relies on. `ReportInv` follows an embedding run, whose report
replaces counts by a status read earlier: the thumbnail hints it will subtract are
still in the summary, unless a recount replaced them. `Places` and `Ends` say in
which states a goroutine has a plan, and that contexts end for good only when
nothing is configured.

Two lemmas carry the steps. A step that leaves the summary alone, or corrects it by
what the worker took and found, carries the accounts over (`CarriedBooks`, with
`LocalCarry`, `SemanticCarry` and `ReportCarry` for their parts); a step that marks
the summary settles them all (`MarkedBooks`). What is left is one lemma each for
the reads of the loop, the installation, the launch of an assignment, the report of a
batch, the lookup and the status of an embedding run, and its silent end, where only
the gap `stored` keeps the accounts. The proof needs the third gap: without it, TLC shows a
fresh summary that lacks the index job of a cancelled run.

### Local media

Modules `LocalMediaProofs` (the gate and the tables) and `LocalScanProofs` (what a scan
makes of them) prove of `LocalMedia!Spec`, for any files, contents, rows, jobs,
workers, roots and acceptances, and any number of errors and changes:

| theorem | statement |
|---|---|
| `GateSound` | `Spec => []GateInvariant` |
| `PromotionWaits` | `Spec => []GateHeld` |
| `OldJobsGone` | `Spec => []CurrentJobs` |
| `CatalogHolds` | `Spec => []CatalogInvariant` |
| `NoRowForgotten` | `Spec => []QueuedUntilRegistered` |
| `SteadyFilesKept` | `Spec => KeptIfSteady` |
| `ReconciliationReconciles` | `Spec => ReconciledAlone` |

The assumptions are `MediaAssumption` and `BoundAssumption`, which give the constants
their types and keep `NoFile`, `NoRoot` and `NoAsset` apart from the values they stand for.

The gate. `GateInvariant` adds to the two properties the shapes of the records, that
mounted roots exist, and `JobsHeld`: under a root without a pending reconciliation, a
job and whoever will write one have its generation. Steps that neither begin nor end
work under the gate nor accept a root keep all of it for one reason, that `root` and
the program counters do not change; what remains are the steps that queue jobs, those
that begin and finish a scan, and the acceptance, which needs the gate free and
leaves a pending reconciliation.

The tables. `CatalogSound` is inductive: the types of every table and of what scans,
uploads and workers remember (`Types`), with the uniqueness of the row of a path that
is not missing, and with every identity being the one its version has; assets shown as
their rows demand; the gate; `Claims`, that a job whose claim a worker or the memory of
refused recoveries holds is theirs alone; and `Unique`, at most one job to be done per
row while the root was never replaced. For rows and assets it is enough that every writer recomputes the assets
its rows had or get (`ReassessKeeps`). For jobs, `Onward` says what a step may do to those
it does not hold: each operation on the table (inserting, queueing, regenerating,
deleting, reopening after failures, repairing) has a lemma with what it keeps.

Rows that wait. Rows that are `stray` aside, no step but the acceptance of a root leaves
a row waiting without a job of the present generation (`Serving`, `UntendedBefore`).
`NoRowForgotten` then needs to know of such a row that its directory has no stored
mtime, and that a scan under way will not store one without having met the file. That
is `Attended`: until then the path is in the list or the batch of the scan, or its
directory is blocked or still to be judged, or the row is among those to be marked.

Scans. `Written` and `ScanWrites` describe in one form what four writers do: flushing a
path, announcing an upload, registering and resettling, and marking an absent file. For
`SteadyFilesKept`, every steady path is `Accounted` for during the walk: a row of it was
touched, or the path was seen or is still to be seen, or is not to be judged. A row
whose writer was `stamped` need not count as touched; `steady` then takes its path in
only while no file has changed since the scan began, and such a scan surveys every file
there is (`CalmWalk`) and is about to mark the rows of none (`CalmMark`). For
`ReconciliationReconciles`, these facts hold of a reconciliation that began
alone and has stayed calm (`Truthful`): what workers, uploads and its batch have seen
is still so (`SightsHold`), and nobody was `stamped`; whoever begins later, while it
waits or under the gate, looks at the mounted root (`AtHome`); what
it has listed is there; and each path is `Reached`: the row of a file is the
true one and was touched, or the file is still to be read or written, and a row without
file is untouched and is going to be marked.

## 6. What is only checked, abstracted, or not modelled

### Only model-checked

- All liveness properties (`SessionsEnd`, `TempsEnd`, `ReservationsFinish`,
  `Answered`, `LapsedClosed`, `Stops`, `Served`): fairness and ENABLED are out of the reach of
  the provers used. Every safety property that a passing run checks is proved.

### Abstractions

Uploads

- A file's content is its sequence of chunks and stands for its own SHA-1; there
  are no collisions. The size an app declares is a constant of the source
  identity, in chunks, and so is the path rendered from the template, because
  capture time and name belong to the identity.
- A chunk is written as a whole or not at all. A tail shorter than a chunk
  behaves as a whole one: only the length is compared with the offset.
- One upload root; a missing or unwritable root, a full disk and an interrupted
  context are an error of the next call (`Fail`).
- A crash ends the process and loses what it held in memory. Completed calls on
  files and committed transactions survive; loss of power between a call and its
  sync is not modelled.
- Other programs add files to the upload root and do not delete or change those
  of the agent; if they did, "uploaded" could promise nothing.
- The status `failed` of the schema is never written and is left out, and so are
  audit events nobody reads.
- Gates and session locks are taken in one step. Waiting, the preference of
  writers and the life of lock objects are in `UploadLocks`, which shows that the
  table is such a lock.

Registry

- A refresh token is its generation: a successor is computed from its
  predecessor, so that repeated rotations of one token give one successor. A
  family that expired is refused, which changes nothing and is no step.
- The review device that makes room is any one instead of the least recently
  used: properties hold for every choice.
- Misses at a link that is already denied decide nothing and are left out, and so
  are reads and the minting of access tokens.
- The upload state that a revocation removes is in `UploadCommit`, the sessions it
  cuts are in `MediaSessions`; here these calls are one that may fail.

WebRTC

- Tokens and leases end when time says so; renewing one early only makes it end
  later, which is why Reauthorize is the absence of an expiry.
- What a session serves (requests, windows, frames) is not modelled, nor SDP
  and ICE. Cancelling of the manager may happen at any time after shutdown began,
  since it comes from a forced cancellation or from the closing of resources.

Background work

- Phases have a number of jobs due, not jobs; priorities among equals are a choice.
  Whether a publication is urgent, and which of several ready phases goes first, is
  nondeterministic where it depends on data.
- "Discovery is active" holds semantic work back exactly while somebody has changed
  the catalog and not yet said so; then both answers are possible (`Choices`).
- One `waking` flag stands for the ended assignments that are about to wake the loop:
  tokens of the channel do not add up either.
- The quiet period after a request is part of `EndRequest`. The limit of workers is
  the one of the settings each time it is looked at. The semantic runtime is ready and
  packs are installed; a failure of either is a failed assignment.
- The status of thumbnails whose embedding was refused is left out, so that a `hint`
  is only ever too high, which the code tolerates.
- `MaxEvents` bounds arrivals, requests, failures, ages and configurations together.

Local media

- One root, one scan at a time (the catalog serialises them), one upload announced at
  a time. The paths of a batch are written
  one at a time, which is finer than the transaction that writes them; nothing reads
  between them that could tell.
- A version of a file is its size, mtime and inode, and holds one content: what a file
  with equal size, mtime and inode may hold otherwise is beyond the program.
- A directory that cannot be read is an error of `EnterDirectory`; directories do not
  disappear, their files do.
- Settling is a Boolean; which of several rows is the primary one of an asset is a
  choice; `catalog_assets` has the visibility of `local_assets`. A quick scan recomputes
  visibilities or not.
- A job is selected together with the acquisition of the root and the reading of its
  row; the claim comes after. Ids of jobs are drawn again only when nobody remembers
  them, as with ids that never come back.
- Reading capture date and duration of an asset that is known is the registration of
  the same version.
- The first half of `OneLiveJob` speaks of the first generation only: a repair between
  the acceptance of a root and its reconciliation may leave two jobs of a row, one of
  which finds nothing to do. The two exceptions of `QueuedUntilRegistered` are real and
  are stated with it.

### Not modelled

- *Relay client*. A call of the receiving goroutine may block for as long as the
  server takes, and what the server does with unanswered requests is not in this
  repository; what repeated and unanswered requests do to uploads and to the registry
  is modelled where they arrive.
- *Shutdown coordinator*. Its phases are deadlines, and a process that misses them
  exits; the part in which order matters without a clock, that of
  `webrtcmedia`, is in `MediaSessions`.
- *Thumbnail jobs, content verification, mirror sync*: as phases with counts only.
- *Catalog store, gallery projection, semantic index*: transformation of data inside
  transactions. *ONNX supervisor*: one mutex around one child process.
- *Admin pages, connectors, configuration, helper programs*: no state of their own.

Hazards without a property are listed with the reason in `PROJECT.json`. Among
those of what is modelled: a review device evicted just before a crash leaves upload
rows and a profile that nothing collects, which nothing in the code promises to; a
frame that passed its authorization check may still be sent while a revocation closes
the peer; recounts may be overtaken for ever; RunSemanticIndexing synchronises the
scheduler outside the mutex of configuration changes, which the model does not let it.

## 7. How to run it

With `tla2tools`, the community modules and TLAPS on the path:

    tlc -workers 2 -config MCUploadCommit_identity.cfg MCUploadCommit
    tlapm UploadSafetyProofs.tla

The name of a configuration is that of its module, with an underscore and the rest
where a module has several. Run times on two workers are from half a minute
(`upload_retry`) to a minute and a half (`upload_collect`, `background_summary`). The proofs of a module take
up to five minutes from nothing.
