----------------------------- MODULE LocalMedia -----------------------------
(***************************************************************************)
(* The catalog of a Local datasource: what is known of the files of a      *)
(* media root, and how it comes to be known.                               *)
(*                                                                         *)
(* Four writers share four tables.  A scan walks the root and writes one   *)
(* transaction per batch; metadata workers hash one file at a time outside *)
(* any transaction; a committed upload announces its own file; and an      *)
(* administrator accepts a root that was replaced.  The files change under *)
(* all of them.                                                            *)
(***************************************************************************)
EXTENDS Naturals, Sequences, FiniteSets

CONSTANTS Path,        \* supported media paths below the root
          Dir,         \* the directory of each path
          File,        \* versions of a file: size, mtime and inode together
          Content,     \* what a file holds, which is the identity of an asset
          ContentOf,   \* what each version holds
          Root,        \* volumes that may be mounted at the configured path
          Worker,      \* goroutines of the metadata batch
          NoFile, NoRoot, NoAsset,
          FlushSize,   \* localPhase0WriteBatchSize
          MaxLocation, \* bounds: rows, jobs, acceptances,
          MaxJob,
          MaxGeneration,
          MaxChange,   \* changes of files and of the mounted volume,
          MaxError     \* failures, cancellations, restarts and repairs

ASSUME MediaAssumption ==
    /\ ContentOf \in [File -> Content] /\ DOMAIN Dir = Path
    /\ NoFile \notin File /\ NoRoot \notin Root /\ NoAsset \notin Content
ASSUME BoundAssumption ==
    /\ FlushSize \in Nat \ {0} /\ MaxLocation \in Nat /\ MaxJob \in Nat
    /\ MaxGeneration \in Nat /\ MaxChange \in Nat /\ MaxError \in Nat

VARIABLES disk,       \* the files of each volume
          mounted,    \* the volume at the configured path
          root,       \* local_scan_root_state
          clean,      \* directories whose stored mtime is still theirs
          locs,       \* local_asset_locations, by id
          latest,     \* the row of a path that became missing last, or 0
          assets,     \* local_assets, with catalog_assets
          jobs,       \* local_scan_jobs of kind metadata
          scan,       \* the scan under way
          upload,     \* the committed upload being announced
          worker,
          remembered, \* localMetadataRecoveries
          stamped,    \* who may have read the updated_at of a row before the scan
                      \* under way read the time of its start
          steady,     \* ghost: paths unchanged since their row was written
          stray,      \* ghost: rows whose job is lost (DropMissing, StartScan)
          budget

vars == <<disk, mounted, root, clean, locs, latest, assets, jobs, scan, upload,
          worker, remembered, stamped, steady, stray, budget>>
files == <<disk, mounted>>
catalog == <<root, clean, locs, latest, assets, jobs>>
history == <<stamped, steady, stray>>

Dirs == {Dir[p] : p \in Path}
Status == {"discovered", "active", "missing", "permission_blocked"}
Location == [path : Path, file : File, asset : Content \cup {NoAsset},
             status : Status, settling : BOOLEAN]
Job == [loc : Nat, gen : Nat, status : {"queued", "running", "failed"}]

NoScan == [pc |-> "idle", begun |-> FALSE, mode |-> "quick", root |-> NoRoot, gen |-> 0,
           pending |-> FALSE, prev |-> NoRoot, todo |-> {}, list |-> {}, seen |-> {},
           batch |-> {}, found |-> FALSE, checked |-> {}, fresh |-> {}, retry |-> {},
           blocked |-> {}, missing |-> {}, barred |-> {}, touched |-> {},
           calm |-> FALSE, alone |-> FALSE]
NoUpload == [pc |-> "idle", path |-> CHOOSE p \in Path : TRUE, file |-> NoFile,
             gen |-> 0, root |-> NoRoot]
Unborn == [path |-> CHOOSE p \in Path : TRUE, file |-> NoFile,
           asset |-> NoAsset, status |-> "missing", settling |-> FALSE]
Resting == [pc |-> "idle", job |-> 0, loc |-> 0, gen |-> 0, snap |-> Unborn,
            file |-> NoFile, root |-> NoRoot]

Init ==
    /\ disk \in [Root -> [Path -> {NoFile}]]
    /\ mounted \in Root
    /\ root = [identity |-> NoRoot, generation |-> 1, pending |-> FALSE]
    /\ clean = {}
    /\ locs = << >>
    /\ latest = [p \in Path |-> 0]
    /\ assets = [c \in Content |-> [visibility |-> "none", primary |-> 0]]
    /\ jobs = [j \in {} |-> 0]
    /\ scan = NoScan
    /\ upload = NoUpload
    /\ worker = [w \in Worker |-> Resting]
    /\ remembered = {}
    /\ stamped = {} /\ steady = {} /\ stray = {}
    /\ budget = [changes |-> 0, errors |-> 0]

-----------------------------------------------------------------------------
(* The transition gate of the root: scans, workers and uploads share it,   *)
(* and the acceptance of a root takes all of it.                           *)

\* Broken variant: workers do not take the gate.
SharedByScans == scan.pc # "idle" \/ upload.pc # "idle"
Working == {"read", "claimed", "hashing", "changed", "absent", "hashed"}
Shared == scan.pc # "idle" \/ upload.pc # "idle" \/ \E w \in Worker : worker[w].pc \in Working

\* The root that discovery established or an administrator accepted is there.
Trusted == root.identity # NoRoot /\ root.identity = mounted

Fault == budget.errors < MaxError /\ budget' = [budget EXCEPT !.errors = @ + 1]

-----------------------------------------------------------------------------
(* Tables                                                                  *)

Current(p) == {l \in DOMAIN locs : locs[l].path = p /\ locs[l].status # "missing"}
Existing(p) == IF Current(p) # {} THEN CHOOSE l \in Current(p) : TRUE ELSE latest[p]
Discovered(p, f, wait) ==
    [path |-> p, file |-> f, asset |-> NoAsset, status |-> "discovered", settling |-> wait]

\* The row that an observation of version f at path p leaves, and whether it
\* needs a metadata job.
Upsert(p, f, wait) ==
    LET l == Existing(p)
        was == IF l = 0 THEN "none" ELSE locs[l].status
        same == l # 0 /\ locs[l].file = f
    IN  CASE same /\ was \in {"active", "discovered"} ->
               [loc |-> l, row |-> locs[l], needs |-> was = "discovered"]
          [] same /\ was \in {"missing", "permission_blocked"} /\ locs[l].asset # NoAsset ->
               [loc |-> l, row |-> [locs[l] EXCEPT !.status = "active"], needs |-> FALSE]
          [] l = 0 \/ (~same /\ was = "missing") ->
               [loc |-> Len(locs) + 1, row |-> Discovered(p, f, wait), needs |-> TRUE]
          [] OTHER ->
               [loc |-> l, row |-> Discovered(p, f, wait), needs |-> TRUE]

\* A scan has read the time of its start, with which it compares the updated_at
\* of rows.
Timed == scan.begun \/ scan.pc \in {"walk", "mark", "bar"}
Touch(l) == IF Timed THEN [scan EXCEPT !.touched = @ \cup {l}] ELSE scan
Untouch(l) == [scan EXCEPT !.touched = @ \ {l}]
\* The writer updates row l. The updated_at that it read before its transaction
\* may be older than the scan.
Dates(writer, l) == scan' = Touch(l) \/ (writer \in stamped /\ scan' = Untouch(l))
\* If it is older, the file must not have changed since the scan began.
Sure(l) == Timed => l \in scan'.touched \/ scan.calm

Store(l, row) ==
    /\ l <= MaxLocation
    /\ locs' = IF l > Len(locs) THEN Append(locs, row) ELSE [locs EXCEPT ![l] = row]
    /\ steady' = IF row.status # "missing" /\ disk[mounted][row.path] = row.file /\ Sure(l)
                 THEN steady \cup {row.path} ELSE steady \ {row.path}
    /\ stray' = stray \ {l}
    /\ UNCHANGED stamped

AssetOf(l) == {locs[l].asset} \ {NoAsset}
\* Broken variant: no asset is recomputed.
AffectedNever(u) == {}
\* The asset that an observation gives back to a row or takes from it.
Affected(u) ==
    IF u.loc \notin DOMAIN locs \/ u.row = locs[u.loc] THEN {} ELSE AssetOf(u.loc)

Holders(ls, c, status) == {l \in DOMAIN ls : ls[l].asset = c /\ ls[l].status = status}
Visibility(ls, c) ==
    IF Holders(ls, c, "active") # {} THEN "active"
    ELSE IF Holders(ls, c, "permission_blocked") # {} THEN "permission_blocked"
    ELSE "missing"
Primaries(ls, c, keep) ==
    LET active == Holders(ls, c, "active")
    IN  IF active = {} THEN {0}
        ELSE IF keep /\ assets[c].primary \in active THEN {assets[c].primary} ELSE active

\* Recompute the visibility and the primary location of assets C.
Reassess(C, keep) ==
    \E pick \in [C -> 0..Len(locs')] :
        /\ \A c \in C : pick[c] \in Primaries(locs', c, keep)
        /\ assets' = [c \in Content |->
             IF c \in C /\ assets[c].visibility # "none"
             THEN [visibility |-> Visibility(locs', c), primary |-> pick[c]] ELSE assets[c]]

Referred == {worker[w].job : w \in Worker} \cup remembered
FreeJobs == 1..MaxJob \ (DOMAIN jobs \cup Referred)
Insert(js, l, g) ==
    LET new == CHOOSE j \in FreeJobs : \A k \in FreeJobs : j <= k
    IN  [j \in DOMAIN js \cup {new} |->
           IF j = new THEN [loc |-> l, gen |-> g, status |-> "queued"] ELSE js[j]]
Without(js, gone) == [j \in DOMAIN js \ gone |-> js[j]]
Jobs(js, l, g, status) ==
    {j \in DOMAIN js : js[j].loc = l /\ js[j].gen = g /\ js[j].status \in status}
Regenerate(js, l, g) ==
    [j \in DOMAIN js |-> IF js[j].loc = l /\ js[j].status = "queued"
                         THEN [js[j] EXCEPT !.gen = g] ELSE js[j]]
Queue(js, l, g) ==
    IF \E j \in DOMAIN js : js[j].loc = l /\ js[j].status = "queued" THEN Regenerate(js, l, g)
    ELSE IF Jobs(js, l, g, {"running"}) # {} THEN js ELSE Insert(js, l, g)
Requeue(js, back) ==
    [j \in DOMAIN js |-> IF j \in back THEN [js[j] EXCEPT !.status = "queued"] ELSE js[j]]

-----------------------------------------------------------------------------
(* A scan                                                                  *)

\* runLocalPhase0Scan reads the time of the start before run waits for the gate.
BeginScan(mode) ==
    /\ scan.pc = "idle" /\ ~scan.begun
    /\ scan' = [NoScan EXCEPT !.begun = TRUE, !.mode = mode, !.calm = TRUE,
                  !.alone = upload.pc = "idle" /\ \A w \in Worker : worker[w].pc \notin Working]
    /\ stamped' = {w \in Worker : worker[w].pc \in {"hashed", "changed"}}
                    \cup {x \in {"upload"} : upload.pc = "opened"}
    /\ UNCHANGED <<files, catalog, upload, worker, remembered, steady, stray, budget>>

Queued(l) == \E j \in DOMAIN jobs : jobs[j].loc = l /\ jobs[j].gen = root.generation
Waits(l) == locs[l].status = "discovered"

\* Under the gate, run reads the state of the root. Rows that were written while
\* the scan waited behind an acceptance count as updated since its start, but
\* their jobs are of the generation before.
StartScan ==
    /\ scan.begun
    /\ root.identity \in {NoRoot, mounted}
    /\ scan' = [NoScan EXCEPT !.pc = "walk", !.mode = scan.mode, !.root = mounted,
                  !.gen = root.generation, !.pending = root.pending, !.prev = root.identity,
                  !.todo = Dirs, !.touched = scan.touched, !.calm = scan.calm, !.alone = scan.alone,
                  !.checked = IF scan.mode = "reconciliation" THEN {}
                              ELSE {Dir[locs[l].path] : l \in
                                      {k \in DOMAIN locs : locs[k].status = "permission_blocked"}}]
    /\ stray' = stray \cup {l \in scan.touched : Waits(l) /\ ~Queued(l)}
    /\ UNCHANGED <<files, catalog, upload, worker, remembered, stamped, steady, budget>>

RefuseScan ==
    /\ scan.begun /\ root.identity \notin {NoRoot, mounted}
    /\ scan' = NoScan
    /\ UNCHANGED <<files, catalog, upload, worker, remembered, history, budget>>

\* Broken variant: a reconciliation trusts stored mtimes too.
InspectsChanged(d) == d \notin clean \/ d \in scan.checked
Inspects(d) == scan.mode = "reconciliation" \/ d \notin clean \/ d \in scan.checked

\* handleDirectory, and the listing that follows it.
EnterDirectory(d) ==
    /\ scan.pc = "walk" /\ scan.list = {} /\ d \in scan.todo
    /\ Cardinality(scan.batch) < FlushSize
    /\ LET entered == [scan EXCEPT !.todo = @ \ {d}, !.fresh = @ \cup {d},
                                   !.checked = IF Inspects(d) THEN @ \cup {d} ELSE @]
       IN  \/ /\ scan' = [entered EXCEPT !.list =
                     IF Inspects(d) THEN {p \in Path : Dir[p] = d /\ disk[scan.root][p] # NoFile}
                     ELSE {}]
              /\ UNCHANGED budget
           \/ /\ Fault
              /\ scan' = [entered EXCEPT !.blocked = @ \cup {d}, !.calm = FALSE]
    /\ UNCHANGED <<files, catalog, upload, worker, remembered, history>>

\* handlePath: a file that cannot be examined counts as seen, and its
\* directory will be read again.
VisitFile(p) ==
    /\ scan.pc = "walk" /\ p \in scan.list
    /\ Cardinality(scan.batch) < FlushSize
    /\ LET f == disk[scan.root][p]
           visited == [scan EXCEPT !.list = @ \ {p}, !.seen = @ \cup {p}]
           skipped == [visited EXCEPT !.retry = @ \cup {Dir[p]}, !.calm = FALSE]
       IN  \/ /\ f # NoFile
              /\ scan' = [visited EXCEPT !.batch = @ \cup {<<p, f>>}, !.found = TRUE]
              /\ UNCHANGED budget
           \/ f = NoFile /\ scan' = skipped /\ UNCHANGED budget
           \/ f # NoFile /\ scan' = skipped /\ Fault
    /\ UNCHANGED <<files, catalog, upload, worker, remembered, history>>

\* One path of flushPendingPaths. The settling period runs from the start of
\* the scan, so that it may be over when the row is written.
FlushPath(p, f) ==
    /\ scan.pc = "walk" /\ <<p, f>> \in scan.batch
    /\ (scan.list = {} /\ scan.todo = {}) \/ Cardinality(scan.batch) >= FlushSize
    /\ \E wait \in BOOLEAN :
         LET u == Upsert(p, f, wait)
         IN  /\ scan' = [scan EXCEPT !.batch = @ \ {<<p, f>>}, !.touched = @ \cup {u.loc}]
             /\ Store(u.loc, u.row)
             /\ u.needs => FreeJobs # {}
             /\ jobs' = IF u.needs THEN Queue(jobs, u.loc, scan.gen)
                        ELSE IF scan.pending THEN Regenerate(jobs, u.loc, scan.gen)
                        ELSE jobs
             /\ Reassess(Affected(u), FALSE)
    /\ UNCHANGED <<files, root, clean, latest, upload, worker, remembered, budget>>

\* Broken variant: updated_at is not compared.
IdleAnyway(l) == locs[l].status # "missing"
\* Rows that no writer has updated since the scan began.
Idle(l) == locs[l].status # "missing" /\ l \notin scan.touched
Covered(p) == scan.mode = "reconciliation" \/ Dir[p] \in scan.checked

\* validateLocalMediaRootIdentity, then missingLocationIDs.
FindMissing ==
    /\ scan.pc = "walk" /\ scan.todo = {} /\ scan.list = {} /\ scan.batch = {}
    /\ LET idle == {l \in DOMAIN locs : Idle(l)}
           unseen == {l \in idle : locs[l].path \notin scan.seen}
           barred == {l \in unseen : Dir[locs[l].path] \in scan.blocked}
           missing == {l \in unseen \ barred : Covered(locs[l].path)}
           unsafeEmpty == ~scan.found /\ idle # {} /\ missing = idle /\ scan.prev = NoRoot
       IN  scan' = IF mounted # scan.root \/ unsafeEmpty THEN NoScan
                   ELSE [scan EXCEPT !.pc = "mark", !.missing = missing, !.barred = barred,
                                     !.seen = {}, !.checked = {}, !.blocked = {}, !.found = FALSE]
    /\ UNCHANGED <<files, catalog, upload, worker, remembered, history, budget>>

\* markLocationIDBatch: the condition is examined again with the update.
Mark(ids, status) ==
    LET now == {l \in ids : Idle(l)}
        lost == UNION {AssetOf(l) : l \in now}
    IN  /\ locs' = [l \in DOMAIN locs |->
                      IF l \in now THEN [locs[l] EXCEPT !.status = status] ELSE locs[l]]
        /\ latest' = IF status # "missing" THEN latest
                     ELSE [p \in Path |-> LET mine == {l \in now : locs[l].path = p}
                             IN  IF mine = {} THEN latest[p] ELSE CHOOSE l \in mine : TRUE]
        /\ Reassess(lost, FALSE)

MarkMissing ==
    /\ scan.pc = "mark"
    /\ Mark(scan.missing, "missing")
    /\ scan' = [scan EXCEPT !.pc = "bar", !.missing = {}]
    /\ UNCHANGED <<files, root, clean, jobs, upload, worker, remembered, history, budget>>

MarkBlocked ==
    /\ scan.pc = "bar"
    /\ Mark(scan.barred, "permission_blocked")
    /\ scan' = [scan EXCEPT !.pc = "dirs", !.barred = {}, !.touched = {}]
    /\ UNCHANGED <<files, root, clean, jobs, upload, worker, remembered, history, budget>>

\* persistDirectoryStates: a stored mtime is current if the directory has not
\* changed since it was read.
SaveDirectories ==
    /\ scan.pc = "dirs"
    /\ clean' = clean \cup (scan.fresh \ scan.retry)
    /\ scan' = [scan EXCEPT !.pc = "finish", !.fresh = {}, !.retry = {}]
    /\ UNCHANGED <<files, root, locs, latest, assets, jobs, upload, worker, remembered,
                   history, budget>>

\* A quick scan leaves a pending reconciliation pending.
\* Broken variant: any scan settles it.
StillPendingNever == FALSE
StillPending == scan.pending /\ scan.mode # "reconciliation"

\* A quick scan recomputes visibilities only if it disturbed one.
FinishScan ==
    /\ scan.pc = "finish"
    /\ root' = [identity |-> scan.root, generation |-> scan.gen, pending |-> StillPending]
    /\ jobs' = IF scan.pending /\ scan.mode = "reconciliation"
               THEN Without(jobs, {j \in DOMAIN jobs : jobs[j].gen # scan.gen})
               ELSE jobs
    /\ UNCHANGED locs
    /\ \/ Reassess(Content, TRUE)
       \/ scan.mode = "quick" /\ UNCHANGED assets
    /\ scan' = NoScan
    /\ UNCHANGED <<files, clean, latest, upload, worker, remembered, history, budget>>

\* Any error and any cancellation: finishFailedRun records the failure and
\* leaves identity, generation and reconciliation_pending as they are.
AbortScan ==
    /\ scan.begun \/ scan.pc # "idle"
    /\ Fault
    /\ scan' = NoScan
    /\ UNCHANGED <<files, catalog, upload, worker, remembered, history>>

-----------------------------------------------------------------------------
(* QueueCommittedLocalUpload                                               *)

OpenUpload(p) ==
    /\ upload.pc = "idle" /\ Trusted
    /\ disk[mounted][p] # NoFile
    /\ upload' = [pc |-> "opened", path |-> p, file |-> disk[mounted][p],
                  gen |-> root.generation, root |-> mounted]
    /\ stamped' = stamped \ {"upload"}
    /\ UNCHANGED <<files, catalog, scan, worker, remembered, steady, stray, budget>>

QueueUpload ==
    /\ upload.pc = "opened"
    /\ LET u == Upsert(upload.path, upload.file, FALSE)
           row == IF u.needs THEN [u.row EXCEPT !.settling = FALSE] ELSE u.row
       IN  /\ Dates("upload", u.loc)
           /\ Store(u.loc, row)
           /\ u.needs => FreeJobs # {}
           /\ jobs' = IF u.needs THEN Queue(jobs, u.loc, upload.gen) ELSE jobs
           /\ Reassess(Affected(u), FALSE)
    /\ upload' = NoUpload
    /\ UNCHANGED <<files, root, clean, latest, worker, remembered, budget>>

UploadFails ==
    /\ upload.pc = "opened" /\ Fault
    /\ upload' = NoUpload
    /\ UNCHANGED <<files, catalog, scan, worker, remembered, history>>

-----------------------------------------------------------------------------
(* A metadata job                                                          *)

Claimable(j) ==
    /\ j \in DOMAIN jobs /\ jobs[j].status = "queued"
    /\ jobs[j].gen = root.generation /\ ~locs[jobs[j].loc].settling

\* The job is selected, the root acquired and the row read: the claim, which
\* comes after, examines the schedule again and not the row.
StartJob(w, j) ==
    /\ worker[w].pc = "idle" /\ remembered = {}
    /\ Trusted /\ Claimable(j)
    /\ \A v \in Worker : worker[v].job # j
    /\ worker' = [worker EXCEPT ![w] =
         [pc |-> "read", job |-> j, loc |-> jobs[j].loc, gen |-> jobs[j].gen,
          snap |-> locs[jobs[j].loc], file |-> NoFile, root |-> mounted]]
    /\ stamped' = stamped \ {w}
    /\ UNCHANGED <<files, catalog, scan, upload, remembered, steady, stray, budget>>

Becomes(w, pc) == worker' = [worker EXCEPT ![w].pc = pc]
Unwinds(w, pc) == worker' = [worker EXCEPT ![w].pc = pc, ![w].snap = Unborn, ![w].file = NoFile]
Sees(w, pc, f) == worker' = [worker EXCEPT ![w].pc = pc, ![w].file = f]
Rests(w) == worker' = [worker EXCEPT ![w] = Resting]
There(w) == disk[worker[w].root][worker[w].snap.path]

Claim(w) ==
    /\ worker[w].pc = "read"
    /\ IF Claimable(worker[w].job)
       THEN /\ jobs' = [jobs EXCEPT ![worker[w].job].status = "running"]
            /\ Becomes(w, "claimed")
       ELSE Rests(w) /\ UNCHANGED jobs
    /\ UNCHANGED <<files, root, clean, locs, latest, assets, scan, upload, remembered,
                   history, budget>>

\* The row was missing when it was read: the job is complete.
DropMissing(w) ==
    /\ worker[w].pc = "claimed" /\ worker[w].snap.status = "missing"
    /\ jobs' = Without(jobs, {worker[w].job})
    /\ stray' = IF locs[worker[w].loc].status = "missing" THEN stray
                ELSE stray \cup {worker[w].loc}
    /\ Rests(w)
    /\ UNCHANGED <<files, root, clean, locs, latest, assets, scan, upload, remembered,
                   stamped, steady, budget>>

OpenFile(w) ==
    /\ worker[w].pc = "claimed" /\ worker[w].snap.status # "missing"
    /\ LET f == There(w)
       IN  Sees(w, CASE f = NoFile -> "absent"
                     [] f = worker[w].snap.file -> "hashing"
                     [] OTHER -> "changed", f)
    /\ UNCHANGED <<files, catalog, scan, upload, remembered, history, budget>>

\* The file is read to its end and its path opened again.
HashFile(w) ==
    /\ worker[w].pc = "hashing"
    /\ LET f == There(w)
       IN  CASE f = NoFile -> Unwinds(w, "failing")
             [] f = worker[w].file -> Becomes(w, "hashed")
             [] OTHER -> Sees(w, "changed", f)
    /\ UNCHANGED <<files, catalog, scan, upload, remembered, history, budget>>

Running(j) == j \in DOMAIN jobs /\ jobs[j].status = "running"

\* lockLocalMetadataRegistrationInTx: the row is as it was when the job began.
Eligible(w) ==
    LET now == locs[worker[w].loc]
        snap == worker[w].snap
    IN  /\ now.status = snap.status /\ now.asset = snap.asset /\ now.file = snap.file
        /\ ~now.settling
        /\ Running(worker[w].job)

\* Broken variant: the job of a row that changed is completed.
GivenBackDone(j) == Without(jobs, {j})
\* rescheduleLocalMetadataJobForLatestLocationInTx
GivenBack(j) == Requeue(jobs, {k \in {j} : Running(k)})

\* registerLocalMetadata and updateLocalCaptureMetadata, which find the
\* asset that a row has already unless the row is new.
Register(w) ==
    /\ worker[w].pc = "hashed"
    /\ LET l == worker[w].loc
           j == worker[w].job
           c == ContentOf[worker[w].file]
       IN  IF Eligible(w)
           THEN /\ Dates(w, l)
                /\ Store(l, [locs[l] EXCEPT !.status = "active", !.asset = c,
                                            !.file = worker[w].file])
                /\ assets' = [assets EXCEPT ![c] =
                     [visibility |-> "active",
                      primary |-> IF @.primary = 0 THEN l ELSE @.primary]]
                /\ jobs' = Without(jobs, {j})
           ELSE /\ jobs' = GivenBack(j)
                /\ UNCHANGED <<locs, history, assets, scan>>
    /\ Rests(w)
    /\ UNCHANGED <<files, root, clean, latest, upload, remembered, budget>>

\* resettleLocalMetadataJob: the row is written whatever it has become. Only
\* the unique index of the rows that are not missing can refuse it.
Resettle(w) ==
    /\ worker[w].pc = "changed"
    /\ LET l == worker[w].loc
           p == worker[w].snap.path
       IN  IF Current(p) \subseteq {l}
           THEN /\ Dates(w, l)
                /\ Store(l, Discovered(p, worker[w].file, TRUE))
                /\ jobs' = Requeue(jobs, {worker[w].job})
                /\ Reassess(Content, TRUE)
                /\ Rests(w)
           ELSE /\ Unwinds(w, "failing")
                /\ UNCHANGED <<locs, history, assets, jobs, scan>>
    /\ UNCHANGED <<files, root, clean, latest, upload, remembered, budget>>

\* markLocalLocationMissing: the file was absent when the worker opened it.
\* The job fails after that.
MarkAbsent(w) ==
    /\ worker[w].pc = "absent"
    /\ LET l == worker[w].loc
           p == worker[w].snap.path
       IN  /\ scan' = scan
           /\ Store(l, [locs[l] EXCEPT !.status = "missing"])
           /\ latest' = IF locs[l].status = "missing" THEN latest ELSE [latest EXCEPT ![p] = l]
    /\ Reassess(Content, TRUE)
    /\ Unwinds(w, "failing")
    /\ UNCHANGED <<files, root, clean, jobs, upload, remembered, budget>>

\* An error of a step, and a cancellation of the batch; the gate is released.
Break(w) ==
    /\ worker[w].pc \in Working /\ Fault
    /\ \E pc \in {"failing", "deferring"} : Unwinds(w, pc)
    /\ UNCHANGED <<files, catalog, scan, upload, remembered, history>>

Claimed(w, status) ==
    {j \in DOMAIN jobs : j = worker[w].job /\ jobs[j].gen = worker[w].gen
                         /\ jobs[j].status \in status}

\* failLocalMetadataJob: under a root that is no longer the job's, the claim
\* goes back to the queue.
FailJob(w) ==
    /\ worker[w].pc = "failing"
    /\ LET ours == Trusted /\ root.generation = worker[w].gen
       IN  jobs' = IF ours
                   THEN [j \in DOMAIN jobs |-> IF j \in Claimed(w, {"queued", "running"})
                           THEN [jobs[j] EXCEPT !.status = "failed"] ELSE jobs[j]]
                   ELSE Requeue(jobs, Claimed(w, {"running"}))
    /\ Rests(w)
    /\ UNCHANGED <<files, root, clean, locs, latest, assets, scan, upload, remembered,
                   history, budget>>

\* deferClaimedLocalMetadataJob, and rememberLocalMetadataClaimRecovery when
\* the catalog refuses it.
DeferClaim(w) ==
    /\ worker[w].pc = "deferring"
    /\ \/ /\ jobs' = Requeue(jobs, Claimed(w, {"running"}))
          /\ UNCHANGED remembered
       \/ /\ remembered' = remembered \cup {worker[w].job}
          /\ UNCHANGED jobs
    /\ Rests(w)
    /\ UNCHANGED <<files, root, clean, locs, latest, assets, scan, upload, history, budget>>

\* recoverRememberedLocalClaims, before a batch takes another job.
RecoverClaims ==
    /\ remembered # {}
    /\ jobs' = Requeue(jobs, {j \in remembered : Running(j)})
    /\ remembered' = {}
    /\ UNCHANGED <<files, root, clean, locs, latest, assets, scan, upload, worker, history,
                   budget>>

-----------------------------------------------------------------------------
(* Administrators, restarts, time                                          *)

\* AcceptLocalMediaRootIdentity, with the gate to itself.
AcceptRoot ==
    /\ ~Shared
    /\ root.identity \notin {NoRoot, mounted}
    /\ root.generation < MaxGeneration
    /\ root' = [identity |-> mounted, generation |-> root.generation + 1, pending |-> TRUE]
    /\ clean' = {}
    /\ UNCHANGED <<files, locs, latest, assets, jobs, scan, upload, worker, remembered,
                   history, budget>>

Latest(J) == IF J = {} THEN {} ELSE {CHOOSE j \in J : \A k \in J : k <= j}
Live(js, l) == Jobs(js, l, root.generation, {"queued", "running"})

\* requeueFailedLocalMetadataJobsInTx, which leaves the rows of assets X alone:
\* one job of every row that has a failed one and none running is queued, and
\* the failed jobs this makes superfluous are deleted.
Reopen(js, X) ==
    LET job(l, status) == Jobs(js, l, root.generation, {status})
        rows == {l \in DOMAIN locs : locs[l].asset \notin X /\ job(l, "failed") # {}}
        back(l) == IF job(l, "running") # {} THEN {}
                   ELSE IF job(l, "queued") # {} THEN Latest(job(l, "queued"))
                   ELSE Latest(job(l, "failed"))
        now == Requeue(js, UNION {back(l) : l \in rows})
    IN  Without(now, UNION {Jobs(now, l, root.generation, {"failed"}) :
                              l \in {k \in rows : Live(now, k) # {}}})

RequeueFailed ==
    /\ \E j \in DOMAIN jobs : jobs[j].status = "failed"
    /\ jobs' = Reopen(jobs, {})
    /\ UNCHANGED <<files, root, clean, locs, latest, assets, scan, upload, worker,
                   remembered, history, budget>>

\* The row of asset c that is read again, and its failed jobs.
Target(c) ==
    LET active == Holders(locs, c, "active")
    IN  IF assets[c].primary \in active THEN assets[c].primary
        ELSE CHOOSE k \in active : \A i \in active : k <= i
Failures(c) == Jobs(jobs, Target(c), root.generation, {"failed"})
\* Those of assets C that have no row with a job.
WithoutJob(C) ==
    {c \in C : \A l \in DOMAIN locs : locs[l].asset = c => Live(jobs, l) = {}}
\* Job id[c] is inserted for each asset c.
InsertFor(js, id) ==
    LET new == {id[c] : c \in DOMAIN id}
    IN  [j \in DOMAIN js \cup new |->
           IF j \notin new THEN js[j]
           ELSE [loc |-> Target(CHOOSE c \in DOMAIN id : id[c] = j),
                 gen |-> root.generation, status |-> "queued"]]
FailuresOf(js, C) ==
    {j \in DOMAIN js : js[j].status = "failed" /\ locs[js[j].loc].asset \in C}

\* RepairLocalMetadata for assets C, whose capture date or duration is to be
\* read: no second job while a row of the asset has one. Nothing is done for
\* the failed jobs of videos X, whose duration is missing.
RepairMetadata(C, X) ==
    /\ \A c \in C \cup X : assets[c].visibility = "active"
    /\ LET again == {c \in WithoutJob(C) : Failures(c) # {}}
           js == Requeue(jobs, UNION {Latest(Failures(c)) : c \in again})
       IN  \E id \in [WithoutJob(C) \ again -> FreeJobs] :
             LET all == InsertFor(js, id)
             IN  /\ \A c, k \in DOMAIN id : id[c] = id[k] => c = k
                 /\ jobs' = Reopen(Without(all, FailuresOf(all, C)), X)
    /\ Fault
    /\ UNCHANGED <<files, root, clean, locs, latest, assets, scan, upload, worker, remembered,
                   history>>

\* A restart, and the ResetRunningLocalScanJobs with which a new runtime begins.
Restart ==
    /\ Fault
    /\ jobs' = Requeue(jobs, {j \in DOMAIN jobs : Running(j)})
    /\ scan' = NoScan /\ upload' = NoUpload
    /\ worker' = [w \in Worker |-> Resting]
    /\ remembered' = {}
    /\ UNCHANGED <<files, root, clean, locs, latest, assets, history>>

\* metadata_not_before of row l passes.
Settle(l) ==
    /\ locs[l].settling
    /\ locs' = [locs EXCEPT ![l].settling = FALSE]
    /\ UNCHANGED <<files, root, clean, latest, assets, jobs, scan, upload, worker,
                   remembered, history, budget>>

-----------------------------------------------------------------------------
(* The files (no code of this repository)                                  *)

Happens == budget.changes < MaxChange /\ budget' = [budget EXCEPT !.changes = @ + 1]
Elsewhere(p) == {disk[mounted][q] : q \in Path \ {p}}

\* The file at p appears, is replaced, is rewritten in place or disappears.
\* Only a rewriting in place leaves the mtime of the directory.
ChangeFile(p, f, inPlace) ==
    /\ f # disk[mounted][p] /\ (f # NoFile => f \notin Elsewhere(p))
    /\ inPlace => f # NoFile /\ disk[mounted][p] # NoFile
    /\ disk' = [disk EXCEPT ![mounted][p] = f]
    /\ clean' = IF inPlace \/ root.identity \notin {NoRoot, mounted} THEN clean
                ELSE clean \ {Dir[p]}
    /\ scan' = IF ~scan.begun /\ scan.root # mounted THEN scan
               ELSE [scan EXCEPT !.calm = FALSE,
                                 !.fresh = IF inPlace THEN @ ELSE @ \ {Dir[p]}]
    /\ steady' = steady \ {p}
    /\ Happens
    /\ UNCHANGED <<mounted, root, locs, latest, assets, jobs, upload, worker, remembered, stamped,
                   stray>>

Mount(r) ==
    /\ r # mounted /\ mounted' = r
    /\ scan' = [scan EXCEPT !.calm = FALSE]
    /\ clean' = IF root.identity = NoRoot THEN {} ELSE clean
    /\ steady' = {}
    /\ Happens
    /\ UNCHANGED <<disk, root, locs, latest, assets, jobs, upload, worker, remembered, stamped,
                   stray>>

-----------------------------------------------------------------------------
ScanNext ==
    \/ \E mode \in {"quick", "reconciliation"} : BeginScan(mode)
    \/ StartScan \/ RefuseScan
    \/ \E d \in Dirs : EnterDirectory(d)
    \/ \E p \in Path : VisitFile(p)
    \/ \E e \in scan.batch : FlushPath(e[1], e[2])
    \/ FindMissing \/ MarkMissing \/ MarkBlocked \/ SaveDirectories \/ FinishScan
UploadNext == (\E p \in Path : OpenUpload(p)) \/ QueueUpload
WorkerNext(w) ==
    \/ \E j \in DOMAIN jobs : StartJob(w, j)
    \/ Claim(w) \/ DropMissing(w) \/ OpenFile(w) \/ HashFile(w) \/ Register(w)
    \/ Resettle(w) \/ MarkAbsent(w) \/ FailJob(w) \/ DeferClaim(w)
Faults == AbortScan \/ UploadFails \/ Restart \/ \E w \in Worker : Break(w)
AdminNext == AcceptRoot \/ RequeueFailed \/ \E C, X \in SUBSET Content : RepairMetadata(C, X)
Environment ==
    \/ \E p \in Path, f \in File \cup {NoFile}, inPlace \in BOOLEAN : ChangeFile(p, f, inPlace)
    \/ \E r \in Root : Mount(r)

Next ==
    \/ ScanNext \/ UploadNext \/ RecoverClaims \/ Faults \/ AdminNext \/ Environment
    \/ \E w \in Worker : WorkerNext(w)
    \/ \E l \in DOMAIN locs : Settle(l)

Spec == Init /\ [][Next]_vars

-----------------------------------------------------------------------------
(* What the tables promise                                                 *)

\* The types of the tables (catalog_store.go).
TypeOK ==
    /\ disk \in [Root -> [Path -> File \cup {NoFile}]] /\ mounted \in Root
    /\ root \in [identity : Root \cup {NoRoot}, generation : Nat, pending : BOOLEAN]
    /\ clean \subseteq Dirs /\ steady \subseteq Path /\ stray \subseteq DOMAIN locs
    /\ stamped \subseteq Worker \cup {"upload"}
    /\ locs \in Seq(Location) /\ latest \in [Path -> Nat]
    /\ \A c \in Content : assets[c].primary \in Nat
    /\ DOMAIN jobs \subseteq 1..MaxJob /\ \A j \in DOMAIN jobs : jobs[j] \in Job

\* An asset is shown exactly while one of its rows is active, and is served
\* from a row that is; it is shown as blocked exactly while its last rows are.
\* Nine transactions of four writers (flushPendingPaths, the batches of
\* markMissing, the end of a scan, uploads, registration, resettling, ...)
\* change rows, and each must recompute the assets it touches.
VisibleIfHeld ==
    \A c \in Content :
        LET shown == assets[c].visibility
            active == Holders(locs, c, "active")
        IN  /\ IF shown = "active" THEN assets[c].primary \in active
                ELSE assets[c].primary = 0 /\ active = {}
            /\ shown = "permission_blocked" <=>
                   active = {} /\ Holders(locs, c, "permission_blocked") # {}

\* Unless the root was ever replaced, a row never has two jobs to be done,
\* whichever of uploads, scans, repairs, requeueing, deferred and recovered
\* claims ask for the file to be read ("instead of creating a second worker
\* candidate", rescheduleLocalMetadataJobForLatestLocationInTx).
OneLiveJob ==
    root.generation = 1 => \A l \in DOMAIN locs : Cardinality(Live(jobs, l)) <= 1

\* What holds of the tables in every state between two transactions.
CatalogInvariant == TypeOK /\ VisibleIfHeld /\ OneLiveJob

\* "Identity promotion cannot race that work" (acquireTrustedLocalMediaRoot):
\* whoever is at work under the gate still has the root, the generation and,
\* for a scan, the pending reconciliation that it began with.
GateHeld ==
    /\ \A w \in Worker : worker[w].pc \in Working =>
          root.identity = worker[w].root /\ root.generation = worker[w].gen
    /\ upload.pc = "opened" => root.identity = upload.root /\ root.generation = upload.gen
    /\ scan.pc # "idle" =>
          /\ root.identity \in {NoRoot, scan.root} /\ root.generation = scan.gen
          /\ root.pending = scan.pending

\* Once the reconciliation that an accepted root requires is done, no job of an
\* older generation is left, which could never be claimed: not by a worker
\* that gives its claim back late, nor by an upload or a scan begun before.
CurrentJobs ==
    ~root.pending => \A j \in DOMAIN jobs : jobs[j].gen = root.generation

\* A scan does not lose a file that has not changed since its row was written,
\* however the row was written while the scan was looking elsewhere
\* (missingLocationIDs and markLocationIDBatch compare updated_at). A writer that
\* read the time before the scan did leaves a row that the scan takes for old:
\* then no file may have changed since the scan began.
KeptIfSteady ==
    [][\A l \in DOMAIN locs :
         /\ scan.pc = "mark" /\ scan'.pc = "bar"
         /\ locs[l].status # "missing" /\ locs'[l].status = "missing"
         => locs[l].path \notin steady]_vars

\* A row that waits for its metadata has a job of the present generation until
\* it is registered, or else the next quick scan reads its directory again. There
\* are two exceptions: a row that returned while a worker was about to drop the
\* job of its absence, and one that was written while a scan waited for the gate
\* behind the acceptance of another root, which that scan takes for its own.
QueuedUntilRegistered ==
    \A l \in DOMAIN locs : Waits(l) /\ l \notin stray /\ Dir[locs[l].path] \in clean => Queued(l)

\* A reconciliation that finds nobody at work when it reads the time of its
\* start, and since when no file changes, leaves a row of the very version of
\* each file and none of absent files, whatever workers and uploads that begin
\* after it do, while it waits for the gate or under it.
Matches ==
    \A p \in Path :
        IF disk[mounted][p] = NoFile THEN Current(p) = {}
        ELSE \E l \in Current(p) : locs[l].file = disk[mounted][p]
ReconciledAlone ==
    [][scan.pc = "finish" /\ scan.mode = "reconciliation" /\ scan.calm /\ scan.alone
       => Matches]_vars

\* README.md says of reconciliation that it "is the correctness boundary for
\* additions, changes, moves, and removals": when one ends during which no
\* file changed, every file has a row. (A worker that found the file absent
\* before can still mark its row: markLocalLocationMissing.)
Reconciled ==
    [][scan.pc = "finish" /\ scan.mode = "reconciliation" /\ scan.calm
       => \A p \in Path : disk[mounted][p] # NoFile => Current(p) # {}]_vars
=============================================================================
