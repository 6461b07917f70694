--------------------------- MODULE LocalScanProofs ---------------------------
(***************************************************************************)
(* What a scan makes of the catalog of a Local datasource while workers,   *)
(* uploads and administrators write to it: no row that waits is forgotten, *)
(* no file that stays is lost, and a reconciliation that nobody disturbs   *)
(* leaves exactly what is there.                                           *)
(***************************************************************************)
EXTENDS LocalMediaProofs

-----------------------------------------------------------------------------
(* The writers seen from the scan: what a writer knows of the file it      *)
(* writes down.                                                            *)

\* A row that waits and has no job of the present generation.
Untended(l) == Waits(l) /\ l \notin stray /\ ~Serves(jobs, l, root.generation)

\* Row l is one that a writer of single rows has just written, and scan' tells.
Written(l) ==
    \E row : /\ Recorded(l, row) /\ Store(l, row)
             /\ row.status = "discovered" => Serves(jobs', l, root.generation)
\* What the scan notes of that: a path of its batch is done, or the row was touched, unless a worker
\* marked it missing, or the writer had read the time before the scan did.
ScanWrites(l) ==
    \/ \E e \in scan.batch : /\ FlushPath(e[1], e[2])
                             /\ locs'[l].path = e[1] /\ Current(e[1]) \subseteq {l}
                             /\ scan' = [scan EXCEPT !.batch = scan.batch \ {e},
                                                     !.touched = scan.touched \cup {l}]
    \/ scan' = Touch(l)
    \/ scan' = Untouch(l) /\ stamped # {}
    \/ scan' = scan /\ locs'[l].status = "missing"

LEMMA DatesWrites == ASSUME NEW x, NEW l, Dates(x, l) PROVE ScanWrites(l)
BY DEF Dates, ScanWrites

\* An observation writes a row.
LEMMA RefreshedWritten ==
    ASSUME Types, NEW l, NEW row, Refreshed(l, row, root.generation)
    PROVE  Written(l)
<1>1. /\ JobTable(jobs, DOMAIN locs) /\ root.generation \in Nat /\ locs \in Seq(Location)
      /\ l \in DOMAIN locs \/ l = Len(locs) + 1
  BY DEF Types, WorldOK, TablesOK, Refreshed, Recorded
<1>2. l \in Nat
  BY <1>1, Rowids
<1>3. row.status = "discovered" => Serves(jobs', l, root.generation)
  <2>1. CASE row.status = "discovered"
    <3>1. jobs' = Queue(jobs, l, root.generation) /\ FreeJobs # {}
      BY <2>1 DEF Refreshed
    <3> QED BY <1>1, <1>2, <3>1, QueueJobs
  <2> QED BY <2>1
<1> QED BY <1>3 DEF Written, Refreshed

\* What workers, the upload and the scan have seen of the files is still so.
SightsHold ==
    /\ \A w \in Worker : worker[w].pc \in Seeing =>
          worker[w].file = disk[mounted][worker[w].snap.path]
    /\ upload.pc = "opened" => upload.file = disk[mounted][upload.path]
    /\ \A e \in scan.batch : e[2] = disk[mounted][e[1]]
\* The row l that is written agrees with the files.
Sighted(l) ==
    IF locs'[l].status = "missing" THEN disk[mounted][locs'[l].path] = NoFile
    ELSE disk[mounted][locs'[l].path] = locs'[l].file
\* A row is written, and agrees with the files if what its writer saw still does.
Writing ==
    \E l : /\ Written(l) /\ ScanWrites(l) /\ (SightsHold => Sighted(l))
          /\ UNCHANGED <<files, root, clean>>

\* Scans, uploads and workers all write rows in this way.
LEMMA WritersWrite ==
    ASSUME Tables
    PROVE  /\ (\E e \in scan.batch : FlushPath(e[1], e[2])) => Writing
           /\ QueueUpload => Writing
           /\ \A w \in Worker :
                /\ (Register(w) /\ Eligible(w)) \/ MarkAbsent(w) => Writing
                /\ Resettle(w) => Writing \/ UNCHANGED <<locs, steady, stray, scan>>
<1>0. Types /\ TablesOK /\ ScanOK /\ UploadOK /\ WorkersOK /\ GateHeld /\ Claims
  BY DEF Tables, Types, GateInvariant
<1>1. ASSUME NEW e \in scan.batch, FlushPath(e[1], e[2]) PROVE Writing
  <2>0. e[1] \in Path /\ e[2] \in File /\ e = <<e[1], e[2]>>
    BY <1>0, BatchEntry
  <2>1. scan.gen = root.generation /\ UNCHANGED <<files, root, clean>>
    BY <1>0, <1>1 DEF FlushPath, GateHeld
  <2>2. PICK l, row : /\ Observed(l, row, e[1], e[2]) /\ Refreshed(l, row, scan.gen)
                      /\ scan' = [scan EXCEPT !.batch = scan.batch \ {<<e[1], e[2]>>},
                                              !.touched = scan.touched \cup {l}]
    BY <1>0, <1>1, <2>0, FlushEffect
  <2>3. Written(l)
    BY <1>0, <2>1, <2>2, RefreshedWritten
  <2>4. /\ locs'[l] = row /\ row.path = e[1] /\ row.file = e[2] /\ row.status # "missing"
        /\ Current(e[1]) \subseteq {l}
    BY <1>0, <2>2, StoreDomain DEF Observed, Refreshed
  <2>5. SightsHold => Sighted(l)
    BY <2>4 DEF SightsHold, Sighted
  <2>6. ScanWrites(l)
    BY <1>1, <2>0, <2>2, <2>4 DEF ScanWrites
  <2> QED BY <2>1, <2>3, <2>5, <2>6 DEF Writing
<1>2. CASE QueueUpload
  <2>1. upload.gen = root.generation /\ UNCHANGED <<files, root, clean>>
    BY <1>0, <1>2 DEF QueueUpload, GateHeld
  <2>2. PICK l, row : /\ Observed(l, row, upload.path, upload.file)
                      /\ Refreshed(l, row, upload.gen) /\ Dates("upload", l)
    BY <1>0, <1>2, UploadEffect
  <2>3. /\ locs'[l] = row /\ row.path = upload.path /\ row.file = upload.file
        /\ row.status # "missing"
    BY <1>0, <2>2, StoreDomain DEF Observed, Refreshed
  <2>4. SightsHold => Sighted(l)
    BY <1>2, <2>3 DEF QueueUpload, SightsHold, Sighted
  <2> QED BY <1>0, <2>1, <2>2, <2>4, RefreshedWritten, DatesWrites DEF Writing
<1>3. ASSUME NEW w \in Worker, Register(w), Eligible(w) PROVE Writing
  <2>1. UNCHANGED <<files, root, clean>> /\ Dates(w, worker[w].loc)
    BY <1>3 DEF Register
  <2>2. PICK row : /\ Recorded(worker[w].loc, row) /\ Store(worker[w].loc, row)
                   /\ row.status = "active" /\ row.path = locs[worker[w].loc].path
                   /\ row.file = worker[w].file
    BY <1>0, <1>3, RegisterEffect
  <2>3. /\ locs'[worker[w].loc] = row /\ worker[w].pc \in Seeing
        /\ worker[w].snap.path = locs[worker[w].loc].path
    BY <1>0, <1>3, <2>2, StoreDomain DEF Register, WorkersOK, WorkerOK, Seeing, Working
  <2>4. SightsHold => Sighted(worker[w].loc)
    BY <2>2, <2>3 DEF SightsHold, Sighted
  <2> QED BY <2>1, <2>2, <2>4, DatesWrites DEF Written, Writing
<1>4. ASSUME NEW w \in Worker, Resettle(w) PROVE Writing \/ UNCHANGED <<locs, steady, stray, scan>>
  <2> DEFINE l == worker[w].loc
             j == worker[w].job
             row == Discovered(worker[w].snap.path, worker[w].file, TRUE)
  <2>0. worker[w].file = row.file /\ worker[w].snap.path = row.path /\ row.status = "discovered"
    BY <1>0, <1>4, ResettleEffect
  <2>1. \/ /\ Recorded(l, row) /\ Store(l, row)
           /\ jobs' = Requeue(jobs, {j}) /\ Dates(w, l)
        \/ UNCHANGED <<locs, steady, stray, scan>>
    BY <1>0, <1>4, ResettleEffect
  <2>2. UNCHANGED <<files, root, clean>> /\ worker[w].pc = "changed"
    BY <1>4 DEF Resettle
  <2>3. /\ j \in DOMAIN jobs /\ jobs[j].loc = l /\ jobs[j].gen = worker[w].gen
        /\ worker[w].gen = root.generation
    BY <1>0, <2>2 DEF Claims, Claiming, GateHeld, Working
  <2> HIDE DEF l, j, row
  <2>4. jobs' = Requeue(jobs, {j}) => Serves(jobs', l, root.generation)
    <3>1. Serves(jobs, l, root.generation)
      BY <2>3 DEF Serves
    <3> QED BY <1>0, <3>1, RequeueJobs DEF Types
  <2>5. Recorded(l, row) /\ Store(l, row) /\ SightsHold => Sighted(l)
    <3> SUFFICES ASSUME Recorded(l, row), Store(l, row), SightsHold PROVE Sighted(l)
      OBVIOUS
    <3>1. locs'[l] = row
      BY <1>0, StoreDomain
    <3>2. worker[w].file = disk[mounted][worker[w].snap.path]
      BY <2>2 DEF SightsHold, Seeing
    <3> QED BY <2>0, <3>1, <3>2 DEF Sighted
  <2> QED BY <2>1, <2>2, <2>4, <2>5, DatesWrites DEF Written, Writing
<1>5. ASSUME NEW w \in Worker, MarkAbsent(w) PROVE Writing
  <2>1. UNCHANGED <<files, root, clean>> /\ scan' = scan
    BY <1>5 DEF MarkAbsent
  <2>2. PICK row : /\ Recorded(worker[w].loc, row) /\ Store(worker[w].loc, row)
                   /\ row.status = "missing" /\ row.path = worker[w].snap.path
                   /\ worker[w].file = NoFile
    BY <1>0, <1>5, AbsentEffect
  <2>3. locs'[worker[w].loc] = row /\ worker[w].pc \in Seeing
    BY <1>0, <1>5, <2>2, StoreDomain DEF MarkAbsent, Seeing
  <2>4. SightsHold => Sighted(worker[w].loc)
    BY <2>2, <2>3 DEF SightsHold, Sighted
  <2> QED BY <2>1, <2>2, <2>3, <2>4 DEF Written, ScanWrites, Writing
<1> QED BY <1>1, <1>2, <1>3, <1>4, <1>5

\* Every other step leaves paths, versions and status of the rows, or marks some of them.
LEMMA WriterCases ==
    ASSUME Tables, [Next]_vars
    PROVE  \/ Writing \/ MarkMissing \/ MarkBlocked
           \/ /\ DOMAIN locs' = DOMAIN locs
              /\ \A l \in DOMAIN locs : locs'[l].path = locs[l].path /\ locs'[l].status = locs[l].status
                                        /\ locs'[l].file = locs[l].file
              /\ stray \subseteq stray'
              /\ UNCHANGED <<locs, steady>> \/ Environment \/ \E l \in DOMAIN locs : Settle(l)
<1> DEFINE Standing == /\ DOMAIN locs' = DOMAIN locs
                       /\ \A l \in DOMAIN locs :
                            /\ locs'[l].path = locs[l].path /\ locs'[l].status = locs[l].status
                            /\ locs'[l].file = locs[l].file
                       /\ stray \subseteq stray'
                       /\ UNCHANGED <<locs, steady>> \/ Environment \/ \E l \in DOMAIN locs : Settle(l)
<1> SUFFICES Writing \/ Standing \/ MarkMissing \/ MarkBlocked
  OBVIOUS
<1>1. ASSUME NEW l \in DOMAIN locs, Settle(l) PROVE Standing
  <2>1. /\ DOMAIN locs' = DOMAIN locs /\ UNCHANGED stray
        /\ \A k \in DOMAIN locs : /\ locs'[k].path = locs[k].path /\ locs'[k].status = locs[k].status
                                  /\ locs'[k].file = locs[k].file
    BY <1>1 DEF Settle, history
  <2> QED BY <1>1, <2>1
<1>2. CASE locs' = locs /\ Noted
  <2>1. stray \subseteq stray' /\ (steady' = steady \/ Environment)
    BY <1>2 DEF Noted, StartScan, Environment, ChangeFile, Mount, DropMissing
  <2> QED BY <1>2, <2>1
<1>3. CASE FinishScan
  BY <1>2, <1>3 DEF FinishScan, history, Noted
<1>4. CASE UNCHANGED <<locs, steady, stray, scan>>
  BY <1>2, <1>4 DEF Noted, history
<1>5. CASE RowWriters
  <2> HIDE DEF Standing
  <2> QED BY <1>1, <1>3, <1>4, <1>5, WritersWrite DEF RowWriters
<1> QED BY <1>2, <1>5, RowCases

\* What becomes of the scan.
LEMMA ScanCases ==
    ASSUME Tables, [Next]_vars
    PROVE  \/ scan' = scan \/ scan' = NoScan \/ Writing \/ Environment
           \/ \E mode \in {"quick", "reconciliation"} : BeginScan(mode)
           \/ StartScan
           \/ \E d \in Dirs : EnterDirectory(d)
           \/ \E p \in Path : VisitFile(p)
           \/ FindMissing \/ MarkMissing \/ MarkBlocked \/ SaveDirectories
<1>1. CASE UploadNext
  BY <1>1, WritersWrite DEF UploadNext, OpenUpload
<1>2. ASSUME NEW w \in Worker, WorkerNext(w) PROVE scan' = scan \/ Writing
  <2>1. scan' = scan \/ (Register(w) /\ Eligible(w)) \/ Resettle(w)
    BY <1>2 DEF WorkerNext, StartJob, Claim, DropMissing, OpenFile, HashFile, Register, MarkAbsent,
       FailJob, DeferClaim
  <2> QED BY <2>1, WritersWrite
<1>3. CASE Faults \/ AdminNext \/ RecoverClaims \/ UNCHANGED vars \/ \E l \in DOMAIN locs : Settle(l)
  BY <1>3 DEF Faults, AbortScan, UploadFails, Restart, Break, AdminNext, AcceptRoot, RequeueFailed,
     RepairMetadata, RecoverClaims, vars, Settle
<1>4. CASE ScanNext
  BY <1>4, WritersWrite DEF ScanNext, RefuseScan, FinishScan
<1> QED BY <1>1, <1>2, <1>3, <1>4 DEF Next

-----------------------------------------------------------------------------
(* A row that waits is not forgotten.                                      *)

\* Row l that waits without a job has the attention of the scan: the scan has
\* not written it, and unless it will save no mtime of the directory, it goes
\* on to meet the file or to mark the row.
Attended(l) ==
    LET p == locs[l].path
        d == Dir[p]
    IN  /\ d \notin clean
        /\ scan.pc \in {"walk", "mark", "bar"} => l \notin scan.touched
        /\ d \in scan.fresh \ scan.retry =>
             /\ scan.pc = "walk" =>
                  \/ p \in scan.list \/ \E e \in scan.batch : e[1] = p
                  \/ p \notin scan.seen /\ (d \in scan.blocked \/ Covered(p))
             /\ scan.pc = "mark" => l \in scan.missing \cup scan.barred
             /\ scan.pc = "bar" => l \in scan.barred
             /\ scan.pc # "dirs"
Tending == \A l \in DOMAIN locs : Untended(l) => Attended(l)
\* What has been listed is of a directory that has been entered.
Walking == scan.pc = "walk" => \A p \in scan.list \cup scan.seen : Dir[p] \notin scan.todo

\* Only an administrator begins another generation.
LEMMA SameGeneration ==
    ASSUME GateInvariant, [Next]_vars, ~AcceptRoot
    PROVE  root'.generation = root.generation
<1>1. GateHeld
  BY DEF GateInvariant
<1>2. CASE FinishScan
  BY <1>1, <1>2 DEF FinishScan, GateHeld
<1> QED BY <1>2, RootCases

\* A row that waits without a job did so before the step, unless a root was accepted.
LEMMA UntendedBefore ==
    ASSUME Tables, [Next]_vars, ~AcceptRoot, NEW l \in DOMAIN locs', Untended(l)'
    PROVE  /\ l \in DOMAIN locs /\ Untended(l) /\ locs'[l].path = locs[l].path /\ ~Written(l)
           /\ MarkMissing => ~(l \in scan.missing /\ Idle(l))
           /\ MarkBlocked => ~(l \in scan.barred /\ Idle(l))
<1>0. /\ TablesOK /\ ScanOK /\ RowsStay /\ root'.generation = root.generation
      /\ locs'[l].status = "discovered" /\ l \notin stray' /\ ~Serves(jobs', l, root.generation)
  BY TypesStep, SameGeneration DEF Tables, Types, Untended, Waits
<1>1. ASSUME l \in DOMAIN locs, Waits(l), l \notin stray PROVE Untended(l)
  <2>1. PICK own : Onward(own)
    BY JobsStep
  <2>2. Serves(jobs, l, root.generation) => Serves(jobs', l, root.generation)
    BY <1>0, <1>1, <2>1 DEF Onward, Serving, Waits
  <2> QED BY <1>0, <1>1, <2>2 DEF Untended
<1>2. ~Written(l)
  <2> SUFFICES ASSUME NEW row, Recorded(l, row), Store(l, row), row.status # "discovered" PROVE FALSE
    BY <1>0 DEF Written
  <2> QED BY <1>0, StoreDomain
<1>3. ASSUME NEW k, Written(k) PROVE l \in DOMAIN locs /\ Waits(l) /\ l \notin stray
  <2>1. PICK row : Recorded(k, row) /\ Store(k, row)
    BY <1>3 DEF Written
  <2>2. k # l
    BY <1>2, <1>3
  <2>3. /\ DOMAIN locs' = DOMAIN locs \cup {k} /\ (l \in DOMAIN locs => locs'[l] = locs[l])
        /\ stray' = stray \ {k}
    BY <1>0, <2>1, <2>2, StoreDomain DEF Store
  <2> QED BY <1>0, <2>2, <2>3 DEF Waits
<1>4. ASSUME NEW ids \in SUBSET DOMAIN locs, NEW status \in {"missing", "permission_blocked"},
             Mark(ids, status), stray' = stray
      PROVE  l \in DOMAIN locs /\ Waits(l) /\ l \notin stray /\ ~(l \in ids /\ Idle(l))
  <2>1. /\ DOMAIN locs' = DOMAIN locs
        /\ IF l \in ids /\ Idle(l) THEN locs'[l] = [locs[l] EXCEPT !.status = status]
           ELSE locs'[l] = locs[l]
    BY <1>0, <1>4, MarkRows
  <2>2. locs[l] \in Location
    BY <1>0, <2>1, Rowids DEF TablesOK
  <2> QED BY <1>0, <1>4, <2>1, <2>2 DEF Waits, Location
<1>5. MarkMissing => /\ l \in DOMAIN locs /\ Waits(l) /\ l \notin stray
                     /\ ~(l \in scan.missing /\ Idle(l))
  BY <1>0, <1>4 DEF MarkMissing, ScanOK, history
<1>6. MarkBlocked => /\ l \in DOMAIN locs /\ Waits(l) /\ l \notin stray
                     /\ ~(l \in scan.barred /\ Idle(l))
  BY <1>0, <1>4 DEF MarkBlocked, ScanOK, history
<1>7. l \in DOMAIN locs /\ Waits(l) /\ l \notin stray
  <2>1. CASE \E k : Written(k)
    BY <1>3, <2>1
  <2>2. CASE MarkMissing \/ MarkBlocked
    BY <1>5, <1>6, <2>2
  <2>3. CASE /\ DOMAIN locs' = DOMAIN locs /\ stray \subseteq stray'
             /\ \A k \in DOMAIN locs : locs'[k].status = locs[k].status
    BY <1>0, <2>3 DEF Waits
  <2> QED BY <2>1, <2>2, <2>3, WriterCases DEF Writing
<1> QED BY <1>0, <1>1, <1>2, <1>5, <1>6, <1>7 DEF RowsStay

\* The rows that a scan spares at once because they were updated while it waited for the gate.
LEMMA UntendedAtStart ==
    ASSUME Tables, [Next]_vars, StartScan, NEW l \in DOMAIN locs', Untended(l)'
    PROVE  l \notin scan.touched
<1>1. /\ UNCHANGED <<locs, jobs, root>>
      /\ stray' = stray \cup {k \in scan.touched : Waits(k) /\ ~Queued(k)}
  BY DEF StartScan, catalog
<1>2. Waits(l) /\ ~Serves(jobs, l, root.generation) /\ l \notin stray'
  BY <1>1 DEF Untended, Waits
<1> QED BY <1>1, <1>2 DEF Queued, Serves

-----------------------------------------------------------------------------
(* The fields that each step of a scan changes.                            *)

\* BeginScan.
LEMMA BeginFields ==
    ASSUME NEW mode, BeginScan(mode)
    PROVE  /\ scan'.pc = "idle" /\ scan'.begun /\ scan'.mode = mode
           /\ scan'.list = {} /\ scan'.seen = {} /\ scan'.batch = {} /\ scan'.fresh = {}
           /\ scan'.touched = {} /\ scan'.blocked = {} /\ scan'.barred = {}
           /\ scan'.alone = (upload.pc = "idle" /\ \A w \in Worker : worker[w].pc \notin Working)
BY DEF BeginScan, NoScan

\* StartScan.
LEMMA StartFields ==
    ASSUME StartScan
    PROVE  /\ scan.begun /\ scan'.pc = "walk" /\ scan'.mode = scan.mode /\ scan'.root = mounted
           /\ scan'.todo = Dirs /\ scan'.list = {} /\ scan'.seen = {} /\ scan'.batch = {}
           /\ scan'.fresh = {} /\ scan'.touched = scan.touched /\ scan'.blocked = {}
           /\ scan'.barred = {} /\ scan'.missing = {}
           /\ scan'.alone = scan.alone /\ scan'.calm = scan.calm
BY DEF StartScan, NoScan

\* EnterDirectory: the files of a directory that is inspected are listed.
LEMMA EnterFields ==
    ASSUME scan \in ScanState, NEW d, EnterDirectory(d)
    PROVE  /\ scan.pc = "walk" /\ scan.list = {} /\ d \in scan.todo /\ scan'.pc = "walk"
           /\ scan'.mode = scan.mode /\ scan'.root = scan.root /\ scan'.alone = scan.alone
           /\ scan'.todo = scan.todo \ {d} /\ scan'.fresh = scan.fresh \cup {d}
           /\ scan'.checked = (IF Inspects(d) THEN scan.checked \cup {d} ELSE scan.checked)
           /\ scan'.retry = scan.retry /\ scan'.seen = scan.seen /\ scan'.batch = scan.batch
           /\ scan'.touched = scan.touched /\ scan'.barred = scan.barred /\ scan'.missing = scan.missing
           /\ \/ /\ scan'.list = (IF Inspects(d)
                                  THEN {p \in Path : Dir[p] = d /\ disk[scan.root][p] # NoFile}
                                  ELSE {})
                 /\ scan'.blocked = scan.blocked /\ scan'.calm = scan.calm
              \/ scan'.list = {} /\ scan'.blocked = scan.blocked \cup {d} /\ scan'.calm = FALSE
<1> DEFINE checked == IF Inspects(d) THEN scan.checked \cup {d} ELSE scan.checked
           list == IF Inspects(d) THEN {p \in Path : Dir[p] = d /\ disk[scan.root][p] # NoFile} ELSE {}
           entered == [scan EXCEPT !.todo = scan.todo \ {d}, !.fresh = scan.fresh \cup {d},
                                   !.checked = checked]
<1>1. /\ scan.pc = "walk" /\ scan.list = {} /\ d \in scan.todo
      /\ \/ scan' = [entered EXCEPT !.list = list]
         \/ scan' = [entered EXCEPT !.blocked = entered.blocked \cup {d}, !.calm = FALSE]
  BY DEF EnterDirectory
<1> HIDE DEF checked, list
<1>2. \/ scan' = [entered EXCEPT !.list = list]
      \/ scan' = [entered EXCEPT !.blocked = scan.blocked \cup {d}, !.calm = FALSE]
  BY <1>1 DEF ScanState
<1> SUFFICES /\ scan'.pc = "walk"
             /\ scan'.mode = scan.mode /\ scan'.root = scan.root /\ scan'.alone = scan.alone
             /\ scan'.todo = scan.todo \ {d} /\ scan'.fresh = scan.fresh \cup {d}
             /\ scan'.checked = checked
             /\ scan'.retry = scan.retry /\ scan'.seen = scan.seen /\ scan'.batch = scan.batch
             /\ scan'.touched = scan.touched /\ scan'.barred = scan.barred
             /\ scan'.missing = scan.missing
             /\ \/ scan'.list = list /\ scan'.blocked = scan.blocked /\ scan'.calm = scan.calm
                \/ scan'.list = {} /\ scan'.blocked = scan.blocked \cup {d} /\ scan'.calm = FALSE
  BY <1>1 DEF checked, list
<1>3. CASE scan' = [entered EXCEPT !.list = list]
  BY <1>1, <1>3 DEF ScanState
<1>4. CASE scan' = [entered EXCEPT !.blocked = scan.blocked \cup {d}, !.calm = FALSE]
  BY <1>1, <1>4 DEF ScanState
<1> QED BY <1>2, <1>3, <1>4

\* VisitFile: the file joins the batch, or its directory is to be read again.
LEMMA VisitFields ==
    ASSUME scan \in ScanState, NEW p, VisitFile(p)
    PROVE  /\ scan.pc = "walk" /\ p \in scan.list /\ scan'.pc = "walk"
           /\ scan'.mode = scan.mode /\ scan'.root = scan.root /\ scan'.alone = scan.alone
           /\ scan'.todo = scan.todo /\ scan'.fresh = scan.fresh /\ scan'.checked = scan.checked
           /\ scan'.list = scan.list \ {p} /\ scan'.seen = scan.seen \cup {p}
           /\ scan'.touched = scan.touched /\ scan'.barred = scan.barred /\ scan'.missing = scan.missing
           /\ scan'.blocked = scan.blocked
           /\ \/ /\ scan'.batch = scan.batch \cup {<<p, disk[scan.root][p]>>}
                 /\ scan'.retry = scan.retry /\ scan'.calm = scan.calm
              \/ /\ scan'.batch = scan.batch /\ scan'.retry = scan.retry \cup {Dir[p]}
                 /\ scan'.calm = FALSE
<1> DEFINE f == disk[scan.root][p]
           visited == [scan EXCEPT !.list = scan.list \ {p}, !.seen = scan.seen \cup {p}]
<1>1. /\ scan.pc = "walk" /\ p \in scan.list
      /\ \/ scan' = [visited EXCEPT !.batch = visited.batch \cup {<<p, f>>}, !.found = TRUE]
         \/ scan' = [visited EXCEPT !.retry = visited.retry \cup {Dir[p]}, !.calm = FALSE]
  BY DEF VisitFile
<1> HIDE DEF f
<1>2. \/ scan' = [visited EXCEPT !.batch = scan.batch \cup {<<p, f>>}, !.found = TRUE]
      \/ scan' = [visited EXCEPT !.retry = scan.retry \cup {Dir[p]}, !.calm = FALSE]
  BY <1>1 DEF ScanState
<1> SUFFICES /\ scan'.pc = "walk"
             /\ scan'.mode = scan.mode /\ scan'.root = scan.root /\ scan'.alone = scan.alone
             /\ scan'.todo = scan.todo /\ scan'.fresh = scan.fresh /\ scan'.checked = scan.checked
             /\ scan'.list = scan.list \ {p} /\ scan'.seen = scan.seen \cup {p}
             /\ scan'.touched = scan.touched /\ scan'.barred = scan.barred
             /\ scan'.missing = scan.missing /\ scan'.blocked = scan.blocked
             /\ \/ /\ scan'.batch = scan.batch \cup {<<p, f>>}
                   /\ scan'.retry = scan.retry /\ scan'.calm = scan.calm
                \/ /\ scan'.batch = scan.batch /\ scan'.retry = scan.retry \cup {Dir[p]}
                   /\ scan'.calm = FALSE
  BY <1>1 DEF f
<1>3. CASE scan' = [visited EXCEPT !.batch = scan.batch \cup {<<p, f>>}, !.found = TRUE]
  BY <1>1, <1>3 DEF ScanState
<1>4. CASE scan' = [visited EXCEPT !.retry = scan.retry \cup {Dir[p]}, !.calm = FALSE]
  BY <1>1, <1>4 DEF ScanState
<1> QED BY <1>2, <1>3, <1>4

\* FindMissing: idle rows that were not seen are missing or blocked, if they are covered.
LEMMA FindFields ==
    ASSUME scan \in ScanState, FindMissing, scan' # NoScan
    PROVE  /\ scan.pc = "walk" /\ scan.todo = {} /\ scan.list = {} /\ scan.batch = {} /\ scan'.pc = "mark"
           /\ scan'.mode = scan.mode /\ scan'.root = scan.root /\ scan'.alone = scan.alone
           /\ mounted = scan.root
           /\ scan'.todo = scan.todo /\ scan'.list = {} /\ scan'.batch = {} /\ scan'.seen = {}
           /\ scan'.fresh = scan.fresh /\ scan'.retry = scan.retry /\ scan'.touched = scan.touched
           /\ scan'.calm = scan.calm /\ scan'.blocked = {}
           /\ \A l \in DOMAIN locs :
                LET p == locs[l].path
                    idle == Idle(l) /\ p \notin scan.seen
                IN  /\ l \in scan'.barred <=> idle /\ Dir[p] \in scan.blocked
                    /\ l \in scan'.missing <=> idle /\ Dir[p] \notin scan.blocked /\ Covered(p)
<1> DEFINE idle == {l \in DOMAIN locs : Idle(l)}
           unseen == {l \in idle : locs[l].path \notin scan.seen}
           barred == {l \in unseen : Dir[locs[l].path] \in scan.blocked}
           missing == {l \in unseen \ barred : Covered(locs[l].path)}
<1>1. /\ scan.pc = "walk" /\ scan.todo = {} /\ scan.list = {} /\ scan.batch = {} /\ mounted = scan.root
      /\ scan' = [scan EXCEPT !.pc = "mark", !.missing = missing, !.barred = barred,
                              !.seen = {}, !.checked = {}, !.blocked = {}, !.found = FALSE]
  BY DEF FindMissing
<1>2. \A l \in DOMAIN locs :
        LET p == locs[l].path
            waits == Idle(l) /\ p \notin scan.seen
        IN  /\ l \in barred <=> waits /\ Dir[p] \in scan.blocked
            /\ l \in missing <=> waits /\ Dir[p] \notin scan.blocked /\ Covered(p)
  OBVIOUS
<1> HIDE DEF barred, missing
<1>3. /\ scan'.pc = "mark" /\ scan'.mode = scan.mode /\ scan'.root = scan.root /\ scan'.alone = scan.alone
      /\ scan'.todo = scan.todo /\ scan'.list = {} /\ scan'.batch = {} /\ scan'.seen = {}
      /\ scan'.fresh = scan.fresh /\ scan'.retry = scan.retry /\ scan'.touched = scan.touched
      /\ scan'.calm = scan.calm /\ scan'.blocked = {} /\ scan'.barred = barred /\ scan'.missing = missing
  BY <1>1 DEF ScanState
<1> QED BY <1>1, <1>2, <1>3

\* A row written by others.
LEMMA TouchFields ==
    ASSUME scan \in ScanState, NEW l, scan' = Touch(l)
    PROVE  /\ scan'.pc = scan.pc /\ scan'.mode = scan.mode /\ scan'.root = scan.root
           /\ scan'.begun = scan.begun /\ scan'.touched \in {scan.touched, scan.touched \cup {l}}
           /\ scan'.alone = scan.alone /\ scan'.todo = scan.todo /\ scan'.list = scan.list
           /\ scan'.seen = scan.seen /\ scan'.batch = scan.batch /\ scan'.fresh = scan.fresh
           /\ scan'.retry = scan.retry /\ scan'.checked = scan.checked /\ scan'.blocked = scan.blocked
           /\ scan'.barred = scan.barred /\ scan'.missing = scan.missing /\ scan'.calm = scan.calm
           /\ scan.pc \in {"walk", "mark", "bar"} => scan'.touched = scan.touched \cup {l}
BY DEF Touch, Timed, ScanState

\* A row written by one who had read the time before the scan did.
LEMMA UntouchFields ==
    ASSUME scan \in ScanState, NEW l, scan' = Untouch(l)
    PROVE  /\ scan'.pc = scan.pc /\ scan'.mode = scan.mode /\ scan'.root = scan.root
           /\ scan'.begun = scan.begun /\ scan'.touched = scan.touched \ {l}
           /\ scan'.alone = scan.alone /\ scan'.todo = scan.todo /\ scan'.list = scan.list
           /\ scan'.seen = scan.seen /\ scan'.batch = scan.batch /\ scan'.fresh = scan.fresh
           /\ scan'.retry = scan.retry /\ scan'.checked = scan.checked /\ scan'.blocked = scan.blocked
           /\ scan'.barred = scan.barred /\ scan'.missing = scan.missing /\ scan'.calm = scan.calm
BY DEF Untouch, ScanState

\* A path of the batch is done.
LEMMA FlushFields ==
    ASSUME scan \in ScanState, NEW l, NEW e,
           scan' = [scan EXCEPT !.batch = scan.batch \ {e}, !.touched = scan.touched \cup {l}]
    PROVE  /\ scan'.pc = scan.pc /\ scan'.mode = scan.mode /\ scan'.root = scan.root
           /\ scan'.begun = scan.begun
           /\ scan'.alone = scan.alone /\ scan'.todo = scan.todo /\ scan'.list = scan.list
           /\ scan'.seen = scan.seen /\ scan'.batch = scan.batch \ {e} /\ scan'.fresh = scan.fresh
           /\ scan'.retry = scan.retry /\ scan'.checked = scan.checked /\ scan'.blocked = scan.blocked
           /\ scan'.barred = scan.barred /\ scan'.missing = scan.missing /\ scan'.calm = scan.calm
           /\ scan'.touched = scan.touched \cup {l}
BY DEF ScanState

\* Files change: the scan is not calm, and directories read are no longer fresh.
LEMMA EnvironmentFields ==
    ASSUME scan \in ScanState, Environment
    PROVE  /\ scan'.pc = scan.pc /\ scan'.mode = scan.mode /\ scan'.root = scan.root
           /\ scan'.alone = scan.alone /\ scan'.todo = scan.todo /\ scan'.list = scan.list
           /\ scan'.seen = scan.seen /\ scan'.batch = scan.batch /\ scan'.fresh \subseteq scan.fresh
           /\ scan'.retry = scan.retry /\ scan'.checked = scan.checked /\ scan'.blocked = scan.blocked
           /\ scan'.barred = scan.barred /\ scan'.missing = scan.missing
           /\ scan'.touched = scan.touched
           /\ scan'.calm = scan.calm \/ scan'.calm = FALSE
<1>1. ASSUME NEW p, NEW f, NEW inPlace, ChangeFile(p, f, inPlace)
      PROVE  \/ scan' = scan
             \/ scan' = [scan EXCEPT !.calm = FALSE]
             \/ scan' = [scan EXCEPT !.calm = FALSE, !.fresh = scan.fresh \ {Dir[p]}]
  BY <1>1 DEF ChangeFile
<1>2. ASSUME NEW r, Mount(r)
      PROVE  scan' = scan \/ scan' = [scan EXCEPT !.calm = FALSE]
  BY <1>2 DEF Mount
<1>3. \/ scan' = scan
      \/ scan' = [scan EXCEPT !.calm = FALSE]
      \/ \E p : scan' = [scan EXCEPT !.calm = FALSE, !.fresh = scan.fresh \ {Dir[p]}]
  BY <1>1, <1>2 DEF Environment
<1>4. CASE scan' = scan \/ scan' = [scan EXCEPT !.calm = FALSE]
  BY <1>4 DEF ScanState
<1>5. ASSUME NEW p, scan' = [scan EXCEPT !.calm = FALSE, !.fresh = scan.fresh \ {Dir[p]}]
      PROVE  /\ scan'.pc = scan.pc /\ scan'.mode = scan.mode /\ scan'.root = scan.root
             /\ scan'.alone = scan.alone /\ scan'.todo = scan.todo /\ scan'.list = scan.list
             /\ scan'.seen = scan.seen /\ scan'.batch = scan.batch /\ scan'.fresh \subseteq scan.fresh
             /\ scan'.retry = scan.retry /\ scan'.checked = scan.checked /\ scan'.blocked = scan.blocked
             /\ scan'.barred = scan.barred /\ scan'.missing = scan.missing
             /\ scan'.touched = scan.touched /\ scan'.calm = FALSE
  BY <1>5 DEF ScanState
<1> QED BY <1>3, <1>4, <1>5

\* The last three steps.
LEMMA MarkFields ==
    ASSUME scan \in ScanState
    PROVE  /\ MarkMissing => /\ scan.pc = "mark" /\ scan'.pc = "bar" /\ scan'.touched = scan.touched
                             /\ scan'.barred = scan.barred /\ scan'.fresh = scan.fresh
                             /\ scan'.retry = scan.retry
           /\ MarkBlocked => /\ scan.pc = "bar" /\ scan'.pc = "dirs" /\ scan'.touched = {}
                             /\ scan'.fresh = scan.fresh /\ scan'.retry = scan.retry
           /\ MarkMissing \/ MarkBlocked \/ SaveDirectories =>
                /\ scan'.mode = scan.mode /\ scan'.root = scan.root
                /\ scan'.alone = scan.alone /\ scan'.calm = scan.calm
           /\ SaveDirectories => /\ scan.pc = "dirs" /\ scan'.pc = "finish" /\ scan'.fresh = {}
                                 /\ scan'.barred = scan.barred
           /\ MarkMissing \/ MarkBlocked \/ SaveDirectories => scan'.blocked = scan.blocked
           /\ MarkBlocked => scan'.barred = {}
           /\ MarkMissing => scan'.missing = {}
<1>1. CASE MarkMissing
  BY <1>1 DEF MarkMissing, MarkBlocked, SaveDirectories, ScanState
<1>2. CASE MarkBlocked
  BY <1>2 DEF MarkMissing, MarkBlocked, SaveDirectories, ScanState
<1>3. CASE SaveDirectories
  BY <1>3 DEF MarkMissing, MarkBlocked, SaveDirectories, ScanState
<1> QED BY <1>1, <1>2, <1>3

\* Attended(l) for a row of path p.
Attention(l, p) ==
    /\ Dir[p] \notin clean
    /\ scan.pc \in {"walk", "mark", "bar"} => l \notin scan.touched
    /\ Dir[p] \in scan.fresh \ scan.retry =>
         /\ scan.pc = "walk" =>
              \/ p \in scan.list \/ \E e \in scan.batch : e[1] = p
              \/ p \notin scan.seen /\ (Dir[p] \in scan.blocked \/ Covered(p))
         /\ scan.pc = "mark" => l \in scan.missing \cup scan.barred
         /\ scan.pc = "bar" => l \in scan.barred
         /\ scan.pc # "dirs"

LEMMA AttentionHolds == \A l \in DOMAIN locs : Attended(l) <=> Attention(l, locs[l].path)
BY DEF Attended, Attention

\* No mtime is saved of the directory of a row that has attention.
LEMMA CleanStays ==
    ASSUME [Next]_vars, NEW l, NEW p, Attention(l, p)
    PROVE  Dir[p] \notin clean'
<1>1. CASE SaveDirectories
  BY <1>1 DEF SaveDirectories, Attention
<1> QED BY <1>1, CleanCases DEF Attention

\* The scan walks on: the directory of a row that waits without a job is inspected, since no mtime
\* of it is stored.
LEMMA AttentionWalks ==
    ASSUME Tables, Walking, [Next]_vars, NEW l \in DOMAIN locs, NEW p \in Path, p = locs[l].path,
           Waits(l), Attention(l, p),
           \/ \E d \in Dirs : EnterDirectory(d)
           \/ \E q \in Path : VisitFile(q)
           \/ FindMissing
    PROVE  Attention(l, p)'
<1>0. scan \in ScanState /\ Dir[p] \notin clean'
  BY CleanStays DEF Tables, Types, ScanOK
<1>1. ASSUME NEW d \in Dirs, EnterDirectory(d) PROVE Attention(l, p)'
  <2>1. CASE Dir[p] = d
    <3>0. Inspects(d)
      BY <2>1 DEF Attention, Inspects
    <3>1. /\ scan.pc = "walk" /\ scan'.pc = "walk" /\ d \in scan.todo /\ scan'.seen = scan.seen
          /\ scan'.touched = scan.touched /\ scan'.mode = scan.mode
          /\ d \in scan'.checked
      BY <1>0, <1>1, <3>0, EnterFields
    <3>2. p \notin scan'.seen /\ Covered(p)'
      BY <2>1, <3>1 DEF Walking, Covered
    <3> QED BY <1>0, <3>1, <3>2 DEF Attention
  <2>2. CASE Dir[p] # d
    <3>1. /\ scan.pc = "walk" /\ scan.list = {} /\ scan'.pc = "walk"
          /\ scan'.fresh = scan.fresh \cup {d} /\ scan'.retry = scan.retry /\ scan'.seen = scan.seen
          /\ scan'.batch = scan.batch /\ scan.blocked \subseteq scan'.blocked
          /\ scan.checked \subseteq scan'.checked /\ scan'.mode = scan.mode
          /\ scan'.touched = scan.touched
      BY <1>0, <1>1, EnterFields
    <3>2. Covered(p) => Covered(p)'
      BY <3>1 DEF Covered
    <3> QED BY <1>0, <2>2, <3>1, <3>2 DEF Attention
  <2> QED BY <2>1, <2>2
<1>2. ASSUME NEW q \in Path, VisitFile(q) PROVE Attention(l, p)'
  <2>1. /\ scan.pc = "walk" /\ q \in scan.list /\ scan'.pc = "walk" /\ scan'.fresh = scan.fresh
        /\ scan'.list = scan.list \ {q} /\ scan'.seen = scan.seen \cup {q}
        /\ scan.batch \subseteq scan'.batch /\ scan.retry \subseteq scan'.retry
        /\ scan'.blocked = scan.blocked /\ scan'.touched = scan.touched
        /\ <<q, disk[scan.root][q]>> \in scan'.batch \/ Dir[q] \in scan'.retry
        /\ scan'.mode = scan.mode /\ scan'.checked = scan.checked
    BY <1>0, <1>2, VisitFields
  <2>2. Covered(p) => Covered(p)'
    BY <2>1 DEF Covered
  <2>3. CASE p = q
    <3>1. Dir[p] \in scan'.retry \/ \E e \in scan'.batch : e[1] = p
      BY <2>1, <2>3
    <3> QED BY <1>0, <2>1, <3>1 DEF Attention
  <2>4. CASE p # q
    BY <1>0, <2>1, <2>2, <2>4 DEF Attention
  <2> QED BY <2>3, <2>4
<1>3. CASE FindMissing
  <2>1. CASE scan' = NoScan
    BY <1>0, <2>1 DEF Attention, NoScan
  <2>2. CASE scan' # NoScan
    <3>1. /\ scan.pc = "walk" /\ scan.list = {} /\ scan.batch = {} /\ scan'.pc = "mark"
          /\ scan'.fresh = scan.fresh /\ scan'.retry = scan.retry /\ scan'.touched = scan.touched
          /\ l \in scan'.barred <=> Idle(l) /\ p \notin scan.seen /\ Dir[p] \in scan.blocked
          /\ l \in scan'.missing <=>
                Idle(l) /\ p \notin scan.seen /\ Dir[p] \notin scan.blocked /\ Covered(p)
      BY <1>0, <1>3, <2>2, FindFields
    <3>2. Idle(l)
      BY <3>1 DEF Waits, Idle, Attention
    <3> QED BY <1>0, <3>1, <3>2 DEF Attention
  <2> QED BY <2>1, <2>2
<1> QED BY <1>1, <1>2, <1>3

\* The attention that a row has goes on for as long as the row waits without a job.
LEMMA AttentionStep ==
    ASSUME Tables, Walking, [Next]_vars, ~AcceptRoot, NEW l \in DOMAIN locs', Untended(l)',
           NEW p \in Path, l \in DOMAIN locs => p = locs[l].path, Attention(l, p)
    PROVE  Attention(l, p)'
<1>0. /\ scan \in ScanState /\ Dir[p] \notin clean' /\ l \in DOMAIN locs /\ p = locs[l].path /\ Waits(l)
      /\ ~Written(l) /\ (MarkMissing => ~(l \in scan.missing /\ Idle(l)))
      /\ (MarkBlocked => ~(l \in scan.barred /\ Idle(l)))
  BY CleanStays, UntendedBefore DEF Tables, Types, ScanOK, Untended
<1>1. CASE scan' = scan
  BY <1>0, <1>1 DEF Attention, Covered
<1>2. CASE scan' = NoScan
  BY <1>0, <1>2 DEF Attention, NoScan
<1>3. ASSUME NEW k, Written(k), ScanWrites(k) PROVE Attention(l, p)'
  <2>1. k # l
    BY <1>0, <1>3
  <2>2. CASE scan' = Touch(k)
    <3>1. /\ scan'.pc = scan.pc /\ scan'.list = scan.list /\ scan'.mode = scan.mode
          /\ scan'.seen = scan.seen /\ scan'.batch = scan.batch /\ scan'.fresh = scan.fresh
          /\ scan'.retry = scan.retry /\ scan'.checked = scan.checked /\ scan'.blocked = scan.blocked
          /\ scan'.barred = scan.barred /\ scan'.missing = scan.missing
          /\ scan.pc \in {"walk", "mark", "bar"} => scan'.touched = scan.touched \cup {k}
      BY <1>0, <2>2, TouchFields
    <3>2. Covered(p) => Covered(p)'
      BY <3>1 DEF Covered
    <3> QED BY <1>0, <2>1, <3>1, <3>2 DEF Attention
  <2>4. CASE scan' = Untouch(k)
    <3>1. /\ scan'.pc = scan.pc /\ scan'.list = scan.list /\ scan'.mode = scan.mode
          /\ scan'.seen = scan.seen /\ scan'.batch = scan.batch /\ scan'.fresh = scan.fresh
          /\ scan'.retry = scan.retry /\ scan'.checked = scan.checked /\ scan'.blocked = scan.blocked
          /\ scan'.barred = scan.barred /\ scan'.missing = scan.missing
          /\ scan'.touched = scan.touched \ {k}
      BY <1>0, <2>4, UntouchFields
    <3>2. Covered(p) => Covered(p)'
      BY <3>1 DEF Covered
    <3> QED BY <1>0, <2>1, <3>1, <3>2 DEF Attention
  <2>3. ASSUME NEW e \in scan.batch, Current(e[1]) \subseteq {k}, FlushPath(e[1], e[2]),
               scan' = [scan EXCEPT !.batch = scan.batch \ {e}, !.touched = scan.touched \cup {k}]
        PROVE  Attention(l, p)'
    <3>1. /\ scan'.pc = scan.pc /\ scan'.list = scan.list /\ scan'.mode = scan.mode
          /\ scan'.seen = scan.seen /\ scan'.batch = scan.batch \ {e} /\ scan'.fresh = scan.fresh
          /\ scan'.retry = scan.retry /\ scan'.checked = scan.checked /\ scan'.blocked = scan.blocked
          /\ scan'.barred = scan.barred /\ scan'.missing = scan.missing
          /\ scan'.touched = scan.touched \cup {k} /\ scan.pc = "walk"
      BY <1>0, <2>3, FlushFields DEF FlushPath
    <3>2. Covered(p) => Covered(p)'
      BY <3>1 DEF Covered
    <3>3. e[1] # p
      <4>1. l \in Current(p)
        BY <1>0 DEF Current, Waits
      <4> QED BY <2>1, <2>3, <4>1
    <3> QED BY <1>0, <2>1, <3>1, <3>2, <3>3 DEF Attention
  <2> QED BY <1>1, <1>3, <2>2, <2>3, <2>4 DEF ScanWrites
<1>4. CASE Environment
  <2>1. /\ scan'.pc = scan.pc /\ scan'.list = scan.list /\ scan'.mode = scan.mode
        /\ scan'.seen = scan.seen /\ scan'.batch = scan.batch /\ scan'.fresh \subseteq scan.fresh
        /\ scan'.retry = scan.retry /\ scan'.checked = scan.checked /\ scan'.blocked = scan.blocked
        /\ scan'.barred = scan.barred /\ scan'.missing = scan.missing /\ scan'.touched = scan.touched
    BY <1>0, <1>4, EnvironmentFields
  <2>2. Covered(p) => Covered(p)'
    BY <2>1 DEF Covered
  <2> QED BY <1>0, <2>1, <2>2 DEF Attention
<1>5. CASE StartScan
  BY <1>0, <1>5, StartFields, UntendedAtStart DEF Attention
<1>9. ASSUME NEW mode, BeginScan(mode) PROVE Attention(l, p)'
  BY <1>0, <1>9, BeginFields DEF Attention
<1>6. CASE MarkMissing
  <2>1. /\ scan.pc = "mark" /\ scan'.pc = "bar" /\ scan'.touched = scan.touched
        /\ scan'.barred = scan.barred /\ scan'.fresh = scan.fresh /\ scan'.retry = scan.retry
    BY <1>0, <1>6, MarkFields
  <2>2. Idle(l)
    BY <1>0, <2>1 DEF Idle, Waits, Attention
  <2> QED BY <1>0, <1>6, <2>1, <2>2 DEF Attention
<1>7. CASE MarkBlocked
  <2>1. /\ scan.pc = "bar" /\ scan'.pc = "dirs" /\ scan'.fresh = scan.fresh /\ scan'.retry = scan.retry
    BY <1>0, <1>7, MarkFields
  <2>2. Idle(l)
    BY <1>0, <2>1 DEF Idle, Waits, Attention
  <2> QED BY <1>0, <1>7, <2>1, <2>2 DEF Attention
<1>8. CASE SaveDirectories
  <2>1. scan'.pc = "finish" /\ scan'.fresh = {}
    BY <1>0, <1>8, MarkFields
  <2> QED BY <1>0, <2>1 DEF Attention
<1> QED BY <1>0, <1>1, <1>2, <1>3, <1>4, <1>5, <1>6, <1>7, <1>8, <1>9, ScanCases,
   AttentionWalks DEF Writing

\* Every step keeps the order of directories and files.
LEMMA WalkingStep == ASSUME Tables, Walking, [Next]_vars PROVE Walking'
<1>0. scan \in ScanState
  BY DEF Tables, Types, ScanOK
<1>1. ASSUME scan'.pc = scan.pc, scan'.list = scan.list, scan'.seen = scan.seen, scan'.todo = scan.todo
      PROVE  Walking'
  BY <1>1 DEF Walking
<1>2. CASE Writing
  <2>1. PICK l : ScanWrites(l)
    BY <1>2 DEF Writing
  <2>2. CASE scan' = scan
    BY <1>1, <2>2
  <2>3. CASE scan' = Touch(l) \/ scan' = Untouch(l)
    BY <1>0, <1>1, <2>3, TouchFields, UntouchFields
  <2>4. ASSUME NEW e, scan' = [scan EXCEPT !.batch = scan.batch \ {e}, !.touched = scan.touched \cup {l}]
        PROVE  Walking'
    BY <1>0, <1>1, <2>4, FlushFields
  <2> QED BY <2>1, <2>2, <2>3, <2>4 DEF ScanWrites
<1>3. ASSUME NEW d \in Dirs, EnterDirectory(d) PROVE Walking'
  <2>1. /\ scan.pc = "walk" /\ scan.list = {} /\ scan'.todo = scan.todo \ {d} /\ scan'.seen = scan.seen
        /\ \/ scan'.list = {}
           \/ scan'.list = {p \in Path : Dir[p] = d /\ disk[scan.root][p] # NoFile}
    BY <1>0, <1>3, EnterFields
  <2> QED BY <2>1 DEF Walking
<1>4. ASSUME NEW p \in Path, VisitFile(p) PROVE Walking'
  BY <1>0, <1>4, VisitFields DEF Walking
<1>5. CASE FindMissing
  <2>1. scan'.pc # "walk"
    BY <1>0, <1>5, FindFields, NoScanOK DEF NoScan
  <2> QED BY <2>1 DEF Walking
<1>6. CASE Environment
  BY <1>0, <1>1, <1>6, EnvironmentFields
<1>7. CASE StartScan
  BY <1>7, StartFields DEF Walking
<1>10. ASSUME NEW mode, BeginScan(mode) PROVE Walking'
  BY <1>10, BeginFields DEF Walking
<1>8. CASE MarkMissing \/ MarkBlocked \/ SaveDirectories
  <2>1. scan'.pc # "walk"
    BY <1>0, <1>8, MarkFields
  <2> QED BY <2>1 DEF Walking
<1>9. CASE scan' = scan \/ scan' = NoScan
  BY <1>1, <1>9 DEF Walking, NoScan
<1> QED BY <1>2, <1>3, <1>4, <1>5, <1>6, <1>7, <1>8, <1>9, <1>10, ScanCases

\* Every step keeps rows that wait without a job in the attention of the scan.
LEMMA TendingStep == ASSUME Tables, Walking, Tending, [Next]_vars PROVE Tending'
<1> SUFFICES ASSUME NEW l \in DOMAIN locs', Untended(l)' PROVE Attended(l)'
  BY DEF Tending
<1> DEFINE p == locs[l].path
<1>1. CASE AcceptRoot
  <2>1. /\ scan.pc = "idle" /\ scan' = scan /\ clean' = {}
    BY <1>1 DEF AcceptRoot, Shared
  <2> QED BY <2>1 DEF Attended
<1>2. CASE ~AcceptRoot
  <2>1. l \in DOMAIN locs /\ Untended(l) /\ locs'[l].path = locs[l].path
    BY <1>2, UntendedBefore
  <2>2. locs[l].path \in Path
    BY <2>1, Rowids DEF Tables, Types, TablesOK, Location
  <2>3. Attention(l, locs[l].path)
    BY <2>1, AttentionHolds DEF Tending
  <2>4. PICK p0 \in Path : p0 = locs[l].path
    BY <2>2
  <2>5. Attention(l, p0)'
    BY <1>2, <2>1, <2>3, <2>4, AttentionStep
  <2> QED BY <2>1, <2>4, <2>5 DEF Attended, Attention
<1> QED BY <1>1, <1>2

\* Every waiting row is queued or attended to.
RowsAttended == CatalogSound /\ Walking /\ Tending

\* Initially.
LEMMA AttendedInit == Init => RowsAttended
<1> SUFFICES ASSUME Init PROVE Walking /\ Tending
  BY SoundInit DEF RowsAttended
<1>1. DOMAIN locs = {} /\ scan.pc = "idle"
  BY DEF Init, NoScan
<1> QED BY <1>1 DEF Walking, Tending

\* At every step.
LEMMA AttendedStep == RowsAttended /\ [Next]_vars => RowsAttended'
<1> SUFFICES ASSUME RowsAttended, [Next]_vars PROVE RowsAttended'
  OBVIOUS
<1>1. CatalogSound /\ Tables /\ Walking /\ Tending
  BY DEF RowsAttended, CatalogSound
<1> QED BY <1>1, SoundStep, WalkingStep, TendingStep DEF RowsAttended

\* A row that waits for its metadata has a job of the present generation (enqueueing in
\* flushPendingPaths, QueueCommittedLocalUpload and resettleLocalMetadataJob), or no mtime of its
\* directory is stored, so that the next quick scan reads it again (persistDirectoryStates); except
\* a row that returned while a worker dropped the job of its absence, and one that was written while
\* a scan waited for the gate behind the acceptance of another root.
THEOREM NoRowForgotten == Spec => []QueuedUntilRegistered
<1>1. RowsAttended => QueuedUntilRegistered
  BY DEF RowsAttended, Tending, Untended, Attended, QueuedUntilRegistered, Queued, Serves
<1> QED BY <1>1, AttendedInit, AttendedStep, PTL DEF Spec

-----------------------------------------------------------------------------
(* A scan during which no file changes.                                    *)

\* What a scan notes of a row that is written.
LEMMA WritingFields ==
    ASSUME scan \in ScanState, NEW l, ScanWrites(l)
    PROVE  /\ scan'.pc = scan.pc /\ scan'.mode = scan.mode /\ scan'.root = scan.root
           /\ scan'.alone = scan.alone /\ scan'.todo = scan.todo /\ scan'.list = scan.list
           /\ scan'.seen = scan.seen /\ scan'.batch \subseteq scan.batch /\ scan'.fresh = scan.fresh
           /\ scan'.retry = scan.retry /\ scan'.checked = scan.checked /\ scan'.blocked = scan.blocked
           /\ scan'.barred = scan.barred /\ scan'.missing = scan.missing /\ scan'.calm = scan.calm
           /\ scan'.begun = scan.begun /\ scan.touched \ {l} \subseteq scan'.touched
           /\ scan'.touched \subseteq scan.touched \cup {l}
           /\ stamped = {} => scan.touched \subseteq scan'.touched
           /\ stamped = {} /\ scan.pc \in {"walk", "mark", "bar"}
                => l \in scan'.touched \/ locs'[l].status = "missing"
<1>1. CASE scan' = Touch(l)
  BY <1>1, TouchFields
<1>4. CASE scan' = Untouch(l) /\ stamped # {}
  BY <1>4, UntouchFields
<1>2. ASSUME NEW e, scan' = [scan EXCEPT !.batch = scan.batch \ {e}, !.touched = scan.touched \cup {l}]
      PROVE  /\ scan'.pc = scan.pc /\ scan'.mode = scan.mode /\ scan'.root = scan.root
             /\ scan'.alone = scan.alone /\ scan'.todo = scan.todo /\ scan'.list = scan.list
             /\ scan'.seen = scan.seen /\ scan'.batch \subseteq scan.batch /\ scan'.fresh = scan.fresh
             /\ scan'.retry = scan.retry /\ scan'.checked = scan.checked /\ scan'.blocked = scan.blocked
             /\ scan'.barred = scan.barred /\ scan'.missing = scan.missing /\ scan'.calm = scan.calm
             /\ scan'.touched = scan.touched \cup {l} /\ scan'.begun = scan.begun
  BY <1>2, FlushFields
<1>3. CASE scan' = scan /\ locs'[l].status = "missing"
  BY <1>3
<1> QED BY <1>1, <1>2, <1>3, <1>4 DEF ScanWrites

\* A scan that has read the time of its start, and during which no file has changed since.
Calm == (scan.begun \/ scan.pc # "idle") /\ scan.calm
\* Such a scan walks under the root that is mounted and is barred from nothing.
Calmness ==
    Calm => /\ scan.pc # "idle" => mounted = scan.root
            /\ scan.blocked = {} /\ scan.barred = {}
\* A scan begins.
Begins == \E mode \in {"quick", "reconciliation"} : BeginScan(mode)

\* A scan that is calm after a step was calm before it, unless it has just begun.
LEMMA CalmBefore ==
    ASSUME Tables, Calmness, [Next]_vars, Calm', ~Begins
    PROVE  /\ Calm /\ UNCHANGED files /\ ~Environment
           /\ scan'.mode = scan.mode /\ scan'.alone = scan.alone
<1>0. scan \in ScanState
  BY DEF Tables, Types, ScanOK
<1>1. CASE Environment
  <2>1. ASSUME NEW p, NEW f, NEW inPlace, ChangeFile(p, f, inPlace) PROVE FALSE
    <3>1. CASE ~scan.begun /\ scan.root # mounted
      BY <2>1, <3>1 DEF ChangeFile, Calm, Calmness
    <3>2. CASE ~(~scan.begun /\ scan.root # mounted)
      <4>1. scan'.calm = FALSE
        BY <1>0, <2>1, <3>2 DEF ChangeFile, ScanState
      <4> QED BY <4>1 DEF Calm
    <3> QED BY <3>1, <3>2
  <2>2. ASSUME NEW r, Mount(r) PROVE FALSE
    <3>1. scan'.calm = FALSE
      BY <1>0, <2>2 DEF Mount, ScanState
    <3> QED BY <3>1 DEF Calm
  <2> QED BY <1>1, <2>1, <2>2 DEF Environment
<1>2. CASE ~Environment
  <2>1. UNCHANGED files
    BY <1>2, RootCases
  <2>2. /\ (scan.begun \/ scan.pc # "idle") /\ (scan'.calm = scan.calm \/ scan'.calm = FALSE)
        /\ scan'.mode = scan.mode /\ scan'.alone = scan.alone
    <3>0. scan' # NoScan
      BY DEF NoScan, Calm
    <3>1. CASE scan' = scan
      BY <3>1 DEF Calm
    <3>2. CASE Writing
      BY <1>0, <3>2, WritingFields DEF Writing, Calm
    <3>3. CASE FindMissing /\ scan' # NoScan
      BY <1>0, <3>3, FindFields
    <3>4. CASE MarkMissing \/ MarkBlocked \/ SaveDirectories
      BY <1>0, <3>4, MarkFields
    <3>5. CASE (\E d \in Dirs : EnterDirectory(d)) \/ (\E p \in Path : VisitFile(p))
      BY <1>0, <3>5, EnterFields, VisitFields
    <3>6. CASE StartScan
      BY <3>6, StartFields
    <3> QED BY <1>2, <3>0, <3>1, <3>2, <3>3, <3>4, <3>5, <3>6, ScanCases DEF Begins
  <2> QED BY <1>2, <2>1, <2>2 DEF Calm
<1> QED BY <1>1, <1>2

\* Every step keeps the root of a calm scan.
LEMMA CalmnessStep == ASSUME Tables, Calmness, [Next]_vars PROVE Calmness'
<1>0. scan \in ScanState
  BY DEF Tables, Types, ScanOK
<1> DEFINE G == /\ scan'.pc # "idle" => mounted' = scan'.root
                /\ scan'.blocked = {} /\ scan'.barred = {}
<1> SUFFICES ASSUME Calm' PROVE G
  BY DEF Calmness
<1>1. CASE Begins
  BY <1>1, BeginFields DEF Begins
<1>2. CASE StartScan
  BY <1>2, StartFields DEF StartScan, files
<1>3. CASE ~Begins /\ ~StartScan
  <2>0. /\ scan.pc # "idle" => mounted' = scan.root
        /\ scan.blocked = {} /\ scan.barred = {} /\ ~Environment
    BY <1>3, CalmBefore DEF Calmness, files
  <2>1. CASE scan' = scan \/ scan' = NoScan
    BY <2>0, <2>1 DEF Calm, NoScan
  <2>2. CASE Writing
    BY <1>0, <2>0, <2>2, WritingFields DEF Writing
  <2>3. CASE FindMissing
    <3>1. scan' # NoScan
      BY DEF Calm, NoScan
    <3>2. /\ scan.pc = "walk" /\ scan'.root = scan.root
          /\ scan'.blocked = {} /\ \A l \in DOMAIN locs : l \notin scan'.barred
      BY <1>0, <2>0, <2>3, <3>1, FindFields
    <3>3. scan'.barred \subseteq DOMAIN locs
      BY <2>3, TypesStep DEF Types, ScanOK, FindMissing, catalog
    <3> QED BY <2>0, <3>2, <3>3
  <2>4. CASE MarkMissing \/ MarkBlocked \/ SaveDirectories
    BY <1>0, <2>0, <2>4, MarkFields
  <2>5. CASE (\E d \in Dirs : EnterDirectory(d)) \/ (\E p \in Path : VisitFile(p))
    <3>1. scan'.calm
      BY DEF Calm
    <3> QED BY <1>0, <2>0, <2>5, <3>1, EnterFields, VisitFields
  <2> QED BY <1>3, <2>0, <2>1, <2>2, <2>3, <2>4, <2>5, ScanCases DEF Begins
<1> QED BY <1>1, <1>2, <1>3

-----------------------------------------------------------------------------
(* A file that stays as its row says is not lost.                          *)

\* The scan has seen path p, or is still to see it, or will not judge it.
Surveyed(p) ==
    /\ mounted = scan.root
    /\ \/ Dir[p] \in scan.todo \cup scan.blocked \/ p \in scan.list \cup scan.seen
       \/ ~Covered(p)
\* The scan will not miss the row of p: it surveys the path, or the row was touched since it began.
Accounted(p) == Surveyed(p) \/ \E l \in Current(p) : l \in scan.touched
\* The file of a path that has not changed is there.
SteadyFiles == \A p \in steady : disk[mounted][p] # NoFile
SteadyWalk == scan.pc = "walk" => \A p \in steady : Accounted(p)
\* No row of such a path is left to be marked.
SteadyMark ==
    scan.pc = "mark" => \A l \in scan.missing : Idle(l) => locs[l].path \notin steady
\* A scan during which no file changes surveys every file, and is about to mark the rows of none.
CalmWalk ==
    Calm /\ scan.pc = "walk" => \A p \in Path : disk[mounted][p] # NoFile => Surveyed(p)
CalmMark ==
    Calm /\ scan.pc = "mark" => \A l \in scan.missing : disk[mounted][locs[l].path] = NoFile
Steadiness == SteadyFiles /\ SteadyWalk /\ SteadyMark /\ Calmness /\ CalmWalk /\ CalmMark

\* What a writer of one row leaves.
LEMMA WrittenRows ==
    ASSUME TablesOK, NEW l, Written(l)
    PROVE  /\ l \in DOMAIN locs' /\ DOMAIN locs' = DOMAIN locs \cup {l} /\ locs'[l] \in Location
           /\ \A k \in DOMAIN locs : k # l => locs'[k] = locs[k]
           /\ l \in DOMAIN locs => locs'[l].path = locs[l].path
           /\ locs'[l].status # "missing" => Current(locs'[l].path) \subseteq {l}
           /\ \A p \in steady' : p # locs'[l].path => p \in steady
           /\ locs'[l].path \in steady' => /\ locs'[l].status # "missing" /\ Sure(l)
                                           /\ disk[mounted][locs'[l].path] = locs'[l].file
<1>1. PICK row : Recorded(l, row) /\ Store(l, row)
  BY DEF Written
<1>2. /\ l \in DOMAIN locs' /\ locs'[l] = row /\ \A k \in DOMAIN locs : k # l => locs'[k] = locs[k]
      /\ DOMAIN locs' = DOMAIN locs \cup {l} /\ row \in Location
  BY <1>1, StoreDomain
<1>3. \/ /\ steady' = steady \cup {row.path}
         /\ row.status # "missing" /\ disk[mounted][row.path] = row.file /\ Sure(l)
      \/ steady' = steady \ {row.path}
  BY <1>1 DEF Store
<1> QED BY <1>1, <1>2, <1>3 DEF Recorded

\* Every step keeps the files of steady paths.
LEMMA SteadyFilesStep == ASSUME Tables, SteadyFiles, [Next]_vars PROVE SteadyFiles'
<1>0. TablesOK /\ NoFile \notin File
  BY MediaAssumption DEF Tables, Types
<1>1. CASE Writing
  <2>1. PICK l : Written(l) /\ UNCHANGED files
    BY <1>1 DEF Writing
  <2>0. locs'[l] \in Location
    BY <1>0, <2>1, WrittenRows
  <2>2. /\ locs'[l].file # NoFile
        /\ \A p \in steady' : p # locs'[l].path => p \in steady
        /\ locs'[l].path \in steady' => disk[mounted][locs'[l].path] = locs'[l].file
    <3>1. locs'[l].file # NoFile
      BY <1>0, <2>0 DEF Location
    <3> QED BY <1>0, <2>1, <3>1, WrittenRows
  <2> QED BY <2>1, <2>2 DEF SteadyFiles, files
<1>2. ASSUME NEW p \in Path, NEW f, NEW inPlace, ChangeFile(p, f, inPlace) PROVE SteadyFiles'
  <2>1. /\ steady' = steady \ {p} /\ mounted' = mounted
        /\ disk' = [disk EXCEPT ![mounted][p] = f]
    BY <1>2 DEF ChangeFile
  <2>2. disk \in [Root -> [Path -> File \cup {NoFile}]] /\ mounted \in Root /\ steady \subseteq Path
    BY DEF Tables, Types, WorldOK
  <2> QED BY <2>1, <2>2 DEF SteadyFiles
<1>3. ASSUME NEW r, Mount(r) PROVE SteadyFiles'
  BY <1>3 DEF Mount, SteadyFiles
<1>4. CASE UNCHANGED steady /\ UNCHANGED files
  BY <1>4 DEF SteadyFiles, files
<1>5. CASE MarkMissing \/ MarkBlocked
  BY <1>4, <1>5 DEF MarkMissing, MarkBlocked, history
<1>6. ASSUME NEW l, Settle(l) PROVE SteadyFiles'
  BY <1>4, <1>6 DEF Settle, history
<1>7. CASE UNCHANGED steady
  BY <1>2, <1>3, <1>4, <1>7, RootCases DEF Environment
<1> QED BY <1>1, <1>2, <1>3, <1>5, <1>6, <1>7, WriterCases DEF Environment

\* A file stays surveyed while the scan walks on: what is read of its directory includes it.
LEMMA SurveyedWalks ==
    ASSUME Tables, NEW p \in Path, disk[mounted][p] # NoFile, Surveyed(p),
           \/ \E d \in Dirs : EnterDirectory(d)
           \/ \E q \in Path : VisitFile(q)
    PROVE  Surveyed(p)'
<1>0. scan \in ScanState
  BY DEF Tables, Types, ScanOK
<1>1. mounted' = mounted /\ mounted = scan.root
  BY DEF EnterDirectory, VisitFile, files, Surveyed
<1>3. ASSUME NEW d \in Dirs, EnterDirectory(d) PROVE Surveyed(p)'
  <2>0. /\ scan'.touched = scan.touched /\ scan'.root = scan.root /\ scan.list = {}
        /\ scan'.seen = scan.seen /\ scan'.todo = scan.todo \ {d} /\ scan'.mode = scan.mode
        /\ scan'.checked = (IF Inspects(d) THEN scan.checked \cup {d} ELSE scan.checked)
        /\ \/ /\ scan'.list = (IF Inspects(d)
                               THEN {q \in Path : Dir[q] = d /\ disk[scan.root][q] # NoFile}
                               ELSE {})
              /\ scan'.blocked = scan.blocked /\ scan'.calm = scan.calm
           \/ scan'.list = {} /\ scan'.blocked = scan.blocked \cup {d} /\ scan'.calm = FALSE
    BY <1>0, <1>3, EnterFields
  <2>1. /\ scan'.touched = scan.touched /\ scan'.root = scan.root /\ scan.list = {}
        /\ scan'.seen = scan.seen /\ scan'.todo = scan.todo \ {d} /\ scan.blocked \subseteq scan'.blocked
        /\ scan'.checked = (IF Inspects(d) THEN scan.checked \cup {d} ELSE scan.checked)
        /\ scan'.mode = scan.mode
        /\ \/ d \in scan'.blocked
           \/ scan'.list = (IF Inspects(d)
                            THEN {q \in Path : Dir[q] = d /\ disk[scan.root][q] # NoFile} ELSE {})
    BY <2>0
  <2>3. CASE Dir[p] = d
    <3>1. CASE Inspects(d)
      BY <1>1, <2>1, <2>3, <3>1 DEF Surveyed
    <3>2. CASE ~Inspects(d)
      <4>1. ~Covered(p)'
        BY <2>1, <2>3, <3>2 DEF Covered, Inspects
      <4> QED BY <1>1, <2>1, <2>3, <4>1 DEF Surveyed
    <3> QED BY <3>1, <3>2
  <2>4. CASE Dir[p] # d
    <3>1. Covered(p)' => Covered(p)
      BY <2>1, <2>4 DEF Covered
    <3> QED BY <1>1, <2>1, <2>4, <3>1 DEF Surveyed
  <2> QED BY <2>3, <2>4
<1>4. ASSUME NEW q \in Path, VisitFile(q) PROVE Surveyed(p)'
  <2>1. /\ scan'.touched = scan.touched /\ scan'.root = scan.root /\ scan'.list = scan.list \ {q}
        /\ scan'.seen = scan.seen \cup {q} /\ scan'.todo = scan.todo /\ scan'.blocked = scan.blocked
        /\ scan'.checked = scan.checked /\ scan'.mode = scan.mode
    BY <1>0, <1>4, VisitFields
  <2>2. Covered(p)' => Covered(p)
    BY <2>1 DEF Covered
  <2> QED BY <1>1, <2>1, <2>2 DEF Surveyed
<1> QED BY <1>3, <1>4

\* A path stays accounted for while the scan walks on.
LEMMA AccountedWalks ==
    ASSUME Tables, NEW p \in Path, disk[mounted][p] # NoFile, Accounted(p),
           \/ \E d \in Dirs : EnterDirectory(d)
           \/ \E q \in Path : VisitFile(q)
    PROVE  Accounted(p)'
<1>0. scan \in ScanState
  BY DEF Tables, Types, ScanOK
<1>1. CASE Surveyed(p)
  BY <1>1, SurveyedWalks DEF Accounted
<1>2. CASE \E l \in Current(p) : l \in scan.touched
  <2>1. locs' = locs
    BY DEF EnterDirectory, VisitFile, catalog
  <2>2. scan'.touched = scan.touched
    BY <1>0, EnterFields, VisitFields
  <2> QED BY <1>2, <2>1, <2>2 DEF Accounted, Current
<1> QED BY <1>1, <1>2 DEF Accounted

\* A path stays surveyed, and accounted for, while the scan stands.
LEMMA SameScanSurveys ==
    ASSUME NEW p, Surveyed(p), mounted' = mounted, scan'.root = scan.root, scan'.todo = scan.todo,
           scan'.blocked = scan.blocked, scan'.list = scan.list, scan'.seen = scan.seen,
           scan'.checked = scan.checked, scan'.mode = scan.mode
    PROVE  Surveyed(p)'
<1>1. Covered(p)' => Covered(p)
  BY DEF Covered
<1> QED BY <1>1 DEF Surveyed

LEMMA SameScanAccounts ==
    ASSUME NEW p, Accounted(p), mounted' = mounted, scan'.root = scan.root, scan'.todo = scan.todo,
           scan'.blocked = scan.blocked, scan'.list = scan.list, scan'.seen = scan.seen,
           scan'.checked = scan.checked, scan'.mode = scan.mode,
           \A l \in Current(p) : l \in scan.touched => l \in Current(p)' /\ l \in scan'.touched
    PROVE  Accounted(p)'
BY SameScanSurveys DEF Accounted

\* Every step keeps the files surveyed by a scan during which none changes.
LEMMA CalmWalkStep == ASSUME Tables, Calmness, CalmWalk, [Next]_vars PROVE CalmWalk'
<1>0. scan \in ScanState
  BY DEF Tables, Types, ScanOK
<1> SUFFICES ASSUME Calm', scan'.pc = "walk", NEW p \in Path, disk'[mounted'][p] # NoFile
             PROVE  Surveyed(p)'
  BY DEF CalmWalk
<1>1. CASE StartScan
  <2>1. scan'.root = mounted /\ mounted' = mounted /\ scan'.todo = Dirs
    BY <1>1, StartFields DEF StartScan, files
  <2> QED BY <2>1, DirOf DEF Surveyed
<1>2. ~Begins
  BY BeginFields DEF Begins
<1>3. Calm /\ ~Environment /\ disk' = disk /\ mounted' = mounted
  BY <1>2, CalmBefore DEF files
<1>4. CASE (\E d \in Dirs : EnterDirectory(d)) \/ (\E q \in Path : VisitFile(q))
  <2>1. scan.pc = "walk"
    BY <1>4 DEF EnterDirectory, VisitFile
  <2> QED BY <1>3, <1>4, <2>1, SurveyedWalks DEF CalmWalk
<1>5. CASE scan' = scan \/ Writing
  <2>1. /\ scan'.pc = scan.pc /\ scan'.mode = scan.mode /\ scan'.root = scan.root
        /\ scan'.todo = scan.todo /\ scan'.list = scan.list /\ scan'.seen = scan.seen
        /\ scan'.checked = scan.checked /\ scan'.blocked = scan.blocked
    BY <1>0, <1>5, WritingFields DEF Writing
  <2> QED BY <1>3, <2>1, SameScanSurveys DEF CalmWalk
<1>6. CASE FindMissing \/ MarkMissing \/ MarkBlocked \/ SaveDirectories \/ scan' = NoScan
  BY <1>0, <1>6, FindFields, MarkFields DEF NoScan
<1> QED BY <1>1, <1>2, <1>3, <1>4, <1>5, <1>6, ScanCases DEF Begins

\* Such a scan finds the rows of absent files only.
LEMMA CalmMarkStep == ASSUME Tables, Calmness, CalmWalk, CalmMark, [Next]_vars PROVE CalmMark'
<1>0. scan \in ScanState /\ TablesOK /\ ScanOK /\ RowsStay
  BY TypesStep DEF Tables, Types, ScanOK
<1> SUFFICES ASSUME Calm', scan'.pc = "mark", NEW l \in scan'.missing
             PROVE  disk'[mounted'][locs'[l].path] = NoFile
  BY DEF CalmMark
<1>1. ~Begins /\ ~StartScan
  BY BeginFields, StartFields DEF Begins
<1>2. Calm /\ ~Environment /\ disk' = disk /\ mounted' = mounted
  BY <1>1, CalmBefore DEF files
<1>3. CASE scan' = scan \/ Writing
  <2>1. scan'.pc = scan.pc /\ scan'.missing = scan.missing
    BY <1>0, <1>3, WritingFields DEF Writing
  <2>2. l \in DOMAIN locs /\ locs'[l].path = locs[l].path
    BY <1>0, <2>1 DEF ScanOK, RowsStay
  <2> QED BY <1>2, <2>1, <2>2 DEF CalmMark
<1>4. CASE FindMissing
  <2>0. scan' # NoScan
    BY DEF NoScan
  <2>1. locs' = locs /\ scan' # NoScan
    BY <1>4, <2>0 DEF FindMissing, catalog
  <2>2. l \in DOMAIN locs
    BY <2>1, TypesStep DEF Types, ScanOK
  <2>3. /\ scan.pc = "walk" /\ scan.todo = {} /\ scan.list = {}
        /\ locs[l].path \notin scan.seen /\ Dir[locs[l].path] \notin scan.blocked
        /\ Covered(locs[l].path)
    BY <1>0, <1>4, <2>1, <2>2, FindFields
  <2>4. ~Surveyed(locs[l].path)
    BY <2>3 DEF Surveyed
  <2>5. locs[l].path \in Path
    BY <1>0, <2>2, Rowids DEF TablesOK, Location
  <2> QED BY <1>2, <2>1, <2>3, <2>4, <2>5 DEF CalmWalk
<1>5. CASE \/ (\E d \in Dirs : EnterDirectory(d)) \/ (\E q \in Path : VisitFile(q))
           \/ MarkMissing \/ MarkBlocked \/ SaveDirectories \/ scan' = NoScan
  BY <1>0, <1>5, EnterFields, VisitFields, MarkFields DEF NoScan
<1> QED BY <1>1, <1>2, <1>3, <1>4, <1>5, ScanCases DEF Begins

\* Every step keeps steady paths accounted for.
LEMMA SteadyWalkStep == ASSUME Tables, Steadiness, [Next]_vars PROVE SteadyWalk'
<1>0. /\ scan \in ScanState /\ TablesOK /\ steady \subseteq Path /\ NoFile \notin File
      /\ SteadyFiles /\ SteadyWalk /\ CalmWalk
  BY MediaAssumption DEF Tables, Types, ScanOK, WorldOK, Steadiness
<1> SUFFICES ASSUME scan'.pc = "walk", NEW p \in steady' PROVE Accounted(p)'
  BY DEF SteadyWalk
<1>1. CASE Writing
  <2>1. PICK l : Written(l) /\ ScanWrites(l) /\ UNCHANGED files
    BY <1>1 DEF Writing
  <2>2. /\ l \in DOMAIN locs' /\ \A k \in DOMAIN locs : k # l => k \in DOMAIN locs' /\ locs'[k] = locs[k]
        /\ l \in DOMAIN locs => locs'[l].path = locs[l].path
        /\ locs'[l].path \in Path /\ locs'[l].file \in File
        /\ \A q \in steady' : q # locs'[l].path => q \in steady
        /\ locs'[l].path \in steady' => /\ locs'[l].status # "missing" /\ Sure(l)
                                        /\ disk[mounted][locs'[l].path] = locs'[l].file
    BY <1>0, <2>1, WrittenRows DEF Location
  <2>3. /\ scan'.pc = scan.pc /\ scan'.mode = scan.mode /\ scan'.root = scan.root
        /\ scan'.todo = scan.todo /\ scan'.list = scan.list /\ scan'.seen = scan.seen
        /\ scan'.checked = scan.checked /\ scan'.blocked = scan.blocked
        /\ scan.touched \ {l} \subseteq scan'.touched
    BY <1>0, <2>1, WritingFields
  <2>4. CASE p = locs'[l].path
    <3>1. /\ l \in Current(p)' /\ disk[mounted][p] # NoFile /\ p \in Path
          /\ l \in scan'.touched \/ scan.calm
      BY <1>0, <2>2, <2>3, <2>4 DEF Current, Sure, Timed
    <3>2. CASE l \in scan'.touched
      BY <3>1, <3>2 DEF Accounted
    <3>3. CASE scan.calm
      <4>1. Surveyed(p)
        BY <1>0, <2>3, <3>1, <3>3 DEF CalmWalk, Calm
      <4> QED BY <2>1, <2>3, <4>1, SameScanSurveys DEF Accounted, files
    <3> QED BY <3>1, <3>2, <3>3
  <2>5. CASE p # locs'[l].path
    <3>1. p \in steady
      BY <2>2, <2>5
    <3>2. Accounted(p)
      BY <1>0, <2>3, <3>1 DEF SteadyWalk
    <3>3. \A k \in Current(p) : k \in scan.touched => k \in Current(p)' /\ k \in scan'.touched
      BY <2>2, <2>3, <2>5 DEF Current
    <3> QED BY <2>1, <2>3, <3>2, <3>3, SameScanAccounts DEF files
  <2> QED BY <2>4, <2>5
<1>2. ASSUME scan' = scan, p \in steady, mounted' = mounted, DOMAIN locs' = DOMAIN locs,
             \A l \in DOMAIN locs : locs'[l].path = locs[l].path /\ locs'[l].status = locs[l].status
      PROVE  Accounted(p)'
  <2>1. Accounted(p)
    BY <1>0, <1>2 DEF SteadyWalk
  <2>2. \A k \in Current(p) : k \in Current(p)'
    BY <1>2 DEF Current
  <2> QED BY <1>2, <2>1, <2>2, SameScanAccounts
<1>3. CASE Environment
  <2>1. CASE \E r \in Root : Mount(r)
    BY <2>1 DEF Mount
  <2>2. ASSUME NEW q, NEW f, NEW inPlace, ChangeFile(q, f, inPlace) PROVE Accounted(p)'
    <3>1. p \in steady /\ mounted' = mounted /\ locs' = locs
      BY <2>2 DEF ChangeFile
    <3>2. /\ scan'.pc = scan.pc /\ scan'.mode = scan.mode /\ scan'.root = scan.root
          /\ scan'.todo = scan.todo /\ scan'.list = scan.list /\ scan'.seen = scan.seen
          /\ scan'.checked = scan.checked /\ scan'.blocked = scan.blocked
          /\ scan'.touched = scan.touched
      BY <1>0, <1>3, EnvironmentFields
    <3>3. Current(p)' = Current(p) /\ Accounted(p)
      BY <1>0, <3>1, <3>2 DEF SteadyWalk, Current
    <3> QED BY <3>1, <3>2, <3>3, SameScanAccounts
  <2> QED BY <1>3, <2>1, <2>2 DEF Environment
<1>4. CASE (\E d \in Dirs : EnterDirectory(d)) \/ (\E q \in Path : VisitFile(q))
  <2>1. steady' = steady /\ scan.pc = "walk"
    BY <1>4 DEF EnterDirectory, VisitFile, history
  <2>2. p \in Path /\ disk[mounted][p] # NoFile /\ Accounted(p)
    BY <1>0, <2>1 DEF SteadyFiles, SteadyWalk
  <2> QED BY <1>4, <2>2, AccountedWalks
<1>5. CASE StartScan
  <2>1. scan'.root = mounted /\ mounted' = mounted /\ scan'.todo = Dirs /\ steady' = steady
    BY <1>5, StartFields DEF StartScan, files
  <2>2. Dir[p] \in Dirs
    BY <1>0, <2>1, DirOf
  <2> QED BY <2>1, <2>2 DEF Accounted, Surveyed
<1>6. CASE FindMissing \/ MarkMissing \/ MarkBlocked \/ SaveDirectories \/ scan' = NoScan \/ Begins
  <2>1. scan'.pc # "walk"
    BY <1>0, <1>6, FindFields, MarkFields, BeginFields DEF NoScan, Begins
  <2> QED BY <2>1
<1>7. CASE scan' = scan
  <2>1. CASE MarkMissing \/ MarkBlocked \/ Writing \/ Environment
    BY <1>1, <1>3, <1>6, <2>1
  <2>2. CASE ~(MarkMissing \/ MarkBlocked \/ Writing \/ Environment)
    <3>1. /\ DOMAIN locs' = DOMAIN locs
          /\ \A l \in DOMAIN locs : locs'[l].path = locs[l].path /\ locs'[l].status = locs[l].status
          /\ UNCHANGED steady \/ \E l \in DOMAIN locs : Settle(l)
      BY <2>2, WriterCases
    <3>2. steady' = steady
      BY <3>1 DEF Settle, history
    <3>3. mounted' = mounted
      BY <2>2, RootCases DEF files
    <3> QED BY <1>2, <1>7, <3>1, <3>2, <3>3
  <2> QED BY <2>1, <2>2
<1> QED BY <1>1, <1>3, <1>4, <1>5, <1>6, <1>7, ScanCases DEF Begins

\* A path accounted for has no row among those to be marked, and none that is joins them.
LEMMA SteadyMarkStep == ASSUME Tables, Steadiness, [Next]_vars PROVE SteadyMark'
<1>0. /\ scan \in ScanState /\ TablesOK /\ ScanOK /\ NoFile \notin File
      /\ SteadyWalk /\ SteadyMark /\ CalmMark
  BY MediaAssumption DEF Tables, Types, ScanOK, Steadiness
<1> SUFFICES ASSUME scan'.pc = "mark", NEW l \in scan'.missing, Idle(l)' PROVE locs'[l].path \notin steady'
  BY DEF SteadyMark
<1>1. CASE Writing
  <2>1. PICK k : Written(k) /\ ScanWrites(k)
    BY <1>1 DEF Writing
  <2>2. /\ \A i \in DOMAIN locs : i # k => locs'[i] = locs[i]
        /\ k \in DOMAIN locs => locs'[k].path = locs[k].path
        /\ locs'[k].file \in File
        /\ locs'[k].status # "missing" => Current(locs'[k].path) \subseteq {k}
        /\ \A p \in steady' : p # locs'[k].path => p \in steady
        /\ locs'[k].path \in steady' => /\ locs'[k].status # "missing" /\ Sure(k)
                                        /\ disk[mounted][locs'[k].path] = locs'[k].file
    BY <1>0, <2>1, WrittenRows DEF Location
  <2>3. /\ scan.pc = "mark" /\ l \in scan.missing /\ scan.touched \ {k} \subseteq scan'.touched
        /\ l \in DOMAIN locs
    BY <1>0, <2>1, WritingFields DEF ScanOK
  <2>4. CASE l = k
    <3>1. SUFFICES ASSUME locs'[l].path \in steady' PROVE FALSE
      OBVIOUS
    <3>2. scan.calm
      BY <2>2, <2>3, <2>4, <3>1 DEF Idle, Sure, Timed
    <3>3. disk[mounted][locs[l].path] = NoFile
      BY <1>0, <2>3, <3>2 DEF CalmMark, Calm
    <3> QED BY <1>0, <2>2, <2>3, <2>4, <3>1, <3>3
  <2>5. CASE l # k
    <3>1. Idle(l) /\ locs'[l] = locs[l]
      BY <2>2, <2>3, <2>5 DEF Idle
    <3>2. locs[l].path \notin steady
      BY <1>0, <2>3, <3>1 DEF SteadyMark
    <3>3. l \in Current(locs[l].path)
      BY <2>3, <3>1 DEF Idle, Current
    <3> QED BY <2>2, <2>5, <3>1, <3>2, <3>3
  <2> QED BY <2>4, <2>5
<1>2. ASSUME scan'.pc = scan.pc, scan'.missing = scan.missing, scan'.touched = scan.touched,
             steady' \subseteq steady,
             \A k \in DOMAIN locs : locs'[k].path = locs[k].path /\ locs'[k].status = locs[k].status
      PROVE  locs'[l].path \notin steady'
  BY <1>0, <1>2 DEF ScanOK, SteadyMark, Idle
<1>3. CASE Environment
  <2>1. steady' \subseteq steady /\ locs' = locs
    BY <1>3 DEF Environment, ChangeFile, Mount
  <2>2. scan'.pc = scan.pc /\ scan'.missing = scan.missing /\ scan'.touched = scan.touched
    BY <1>0, <1>3, EnvironmentFields
  <2> QED BY <1>2, <2>1, <2>2
<1>4. CASE FindMissing
  <2>0. scan' # NoScan
    BY DEF NoScan
  <2>1. locs' = locs /\ steady' = steady /\ scan' # NoScan
    BY <1>4, <2>0 DEF FindMissing, catalog, history
  <2>2. l \in DOMAIN locs
    BY <2>1, TypesStep DEF Types, ScanOK
  <2>3. /\ scan.pc = "walk" /\ scan.todo = {} /\ scan.list = {}
        /\ Idle(l) /\ locs[l].path \notin scan.seen /\ Dir[locs[l].path] \notin scan.blocked
        /\ Covered(locs[l].path)
    BY <1>0, <1>4, <2>1, <2>2, FindFields
  <2>4. ~Accounted(locs[l].path)
    <3>1. l \in Current(locs[l].path) /\ l \notin scan.touched /\ locs[l].path \in Path
      BY <1>0, <2>2, <2>3, Rowids DEF Current, Idle, TablesOK, Location
    <3>2. \A k \in Current(locs[l].path) : k = l
      BY <1>0, <3>1 DEF TablesOK
    <3> QED BY <2>3, <3>1, <3>2 DEF Accounted, Surveyed
  <2> QED BY <1>0, <2>1, <2>3, <2>4 DEF SteadyWalk
<1>5. CASE \/ MarkMissing \/ MarkBlocked \/ SaveDirectories \/ scan' = NoScan
           \/ Begins \/ StartScan
           \/ \E d \in Dirs : EnterDirectory(d)
           \/ \E p \in Path : VisitFile(p)
  <2>1. scan'.pc # "mark"
    BY <1>0, <1>5, EnterFields, VisitFields, MarkFields, StartFields, BeginFields DEF NoScan, Begins
  <2> QED BY <2>1
<1>6. CASE scan' = scan
  <2>1. CASE MarkMissing \/ MarkBlocked \/ Writing \/ Environment
    BY <1>1, <1>3, <1>5, <2>1
  <2>2. CASE ~(MarkMissing \/ MarkBlocked \/ Writing \/ Environment)
    <3>1. /\ \A k \in DOMAIN locs : locs'[k].path = locs[k].path /\ locs'[k].status = locs[k].status
          /\ UNCHANGED steady \/ \E k \in DOMAIN locs : Settle(k)
      BY <2>2, WriterCases
    <3>2. steady' = steady
      BY <3>1 DEF Settle, history
    <3> QED BY <1>2, <1>6, <3>1, <3>2
  <2> QED BY <2>1, <2>2
<1> QED BY <1>1, <1>3, <1>4, <1>5, <1>6, ScanCases DEF Begins

SteadySound == CatalogSound /\ Steadiness

\* Initially.
LEMMA SteadyInit == Init => SteadySound
<1> SUFFICES ASSUME Init PROVE Steadiness
  BY SoundInit DEF SteadySound
<1> QED BY DEF Init, NoScan, Steadiness, SteadyFiles, SteadyWalk, SteadyMark, Calmness, CalmWalk,
   CalmMark, Calm

\* At every step.
LEMMA SteadyStep == SteadySound /\ [Next]_vars => SteadySound'
<1> SUFFICES ASSUME SteadySound, [Next]_vars PROVE SteadySound'
  OBVIOUS
<1>1. CatalogSound /\ Tables /\ Steadiness
  BY DEF SteadySound, CatalogSound
<1>2. SteadyFiles' /\ Calmness' /\ CalmWalk' /\ CalmMark'
  BY <1>1, SteadyFilesStep, CalmnessStep, CalmWalkStep, CalmMarkStep DEF Steadiness
<1> QED BY <1>1, <1>2, SoundStep, SteadyWalkStep, SteadyMarkStep DEF SteadySound, Steadiness

\* The step that marks rows missing spares those of steady paths.
LEMMA SteadyKept ==
    ASSUME SteadySound, [Next]_vars, scan.pc = "mark", scan'.pc = "bar", NEW l \in DOMAIN locs,
           locs[l].status # "missing", locs'[l].status = "missing"
    PROVE  locs[l].path \notin steady
<1>0. Tables /\ TablesOK /\ ScanOK /\ scan \in ScanState /\ SteadyMark
  BY DEF SteadySound, CatalogSound, Tables, Types, ScanOK, Steadiness
<1>1. CASE MarkMissing
  <2>1. Mark(scan.missing, "missing") /\ scan.missing \in SUBSET DOMAIN locs
    BY <1>0, <1>1 DEF MarkMissing, ScanOK
  <2>2. IF l \in scan.missing /\ Idle(l) THEN TRUE ELSE locs'[l] = locs[l]
    BY <1>0, <2>1, MarkRows
  <2>3. l \in scan.missing /\ Idle(l)
    BY <2>2
  <2> QED BY <1>0, <2>3 DEF SteadyMark
<1>2. CASE ~MarkMissing
  <2>1. CASE Writing
    BY <1>0, <2>1, WritingFields DEF Writing
  <2>2. CASE ~Writing
    BY <1>0, <1>2, <2>2, ScanCases, EnterFields, VisitFields, FindFields, MarkFields, StartFields,
       BeginFields, EnvironmentFields DEF NoScan
  <2> QED BY <2>1, <2>2
<1> QED BY <1>1, <1>2

\* A scan does not lose a file that has not changed since its row was written, by whichever writer
\* and whenever (missingLocationIDs, and markLocationIDBatch which examines updated_at again).
THEOREM SteadyFilesKept == Spec => KeptIfSteady
<1>1. SteadySound /\ [Next]_vars =>
        [\A l \in DOMAIN locs :
           /\ scan.pc = "mark" /\ scan'.pc = "bar"
           /\ locs[l].status # "missing" /\ locs'[l].status = "missing"
           => locs[l].path \notin steady]_vars
  BY SteadyKept
<1> QED BY <1>1, SteadyInit, SteadyStep, PTL DEF Spec, KeptIfSteady

-----------------------------------------------------------------------------
(* A reconciliation that nobody disturbs.                                  *)

\* A row shows the version of the file at p that is there; while rows are still to be marked, the scan
\* has touched it.
Met(p) ==
    \E l \in Current(p) : /\ locs[l].file = disk[mounted][p]
                          /\ scan.pc \in {"walk", "mark", "bar"} => l \in scan.touched
\* What a reconciliation that nobody disturbs has yet to do about path p: a file has its row or is
\* still to be read or written down, and a row without a file is going to be marked.
Reached(p) ==
    IF disk[mounted][p] = NoFile
    THEN \A l \in Current(p) : /\ scan.pc \in {"idle", "walk", "mark"} /\ l \notin scan.touched
                               /\ scan.pc = "mark" => l \in scan.missing
    ELSE \/ scan.pc = "idle" \/ Met(p)
         \/ /\ scan.pc = "walk"
            /\ Dir[p] \in scan.todo \/ p \in scan.list \/ \E e \in scan.batch : e[1] = p
\* A reconciliation that began with nobody at work, and during which no file has changed.
Alone == Calm /\ scan.mode = "reconciliation" /\ scan.alone
\* Whoever is at work opens files of the mounted root.
AtHome == \A w \in Worker : worker[w].pc \in Working => worker[w].root = mounted
\* What the scan has listed is there.
Listed == \A p \in scan.list \cup scan.seen : disk[mounted][p] # NoFile
\* The strengthening of ReconciledAlone. Nobody read the time before such a scan did.
Truthful ==
    /\ Calmness
    /\ Alone => SightsHold /\ AtHome /\ Listed /\ stamped = {} /\ \A p \in Path : Reached(p)

\* What a worker relies on it saw before the step, or sees with it.
LEMMA SeeingCases ==
    ASSUME WorkersOK, [Next]_vars, NEW v \in Worker, worker'[v].pc \in Seeing
    PROVE  /\ worker'[v].snap = worker[v].snap /\ worker[v].pc \in Working
           /\ \/ worker[v].pc \in Seeing /\ worker'[v].file = worker[v].file
              \/ worker'[v].file = There(v)
<1> DEFINE G == /\ worker'[v].snap = worker[v].snap /\ worker[v].pc \in Working
                /\ \/ worker[v].pc \in Seeing /\ worker'[v].file = worker[v].file
                   \/ worker'[v].file = There(v)
<1> SUFFICES G
  OBVIOUS
<1>0. /\ worker \in [Worker -> WorkerState] /\ Resting.pc \notin Seeing
      /\ Seeing \subseteq Working
  BY DEF WorkersOK, Resting, Seeing, Working
<1>1. ASSUME worker'[v] = worker[v] PROVE G
  BY <1>0, <1>1
<1>2. ASSUME NEW w \in Worker, Rests(w) PROVE G
  BY <1>0, <1>1, <1>2 DEF Rests
<1>3. ASSUME NEW w \in Worker, NEW pc \in {"failing", "deferring", "claimed"},
             Unwinds(w, pc) \/ Becomes(w, pc)
      PROVE  G
  <2>1. pc \notin Seeing
    BY DEF Seeing
  <2> QED BY <1>0, <1>1, <1>3, <2>1 DEF Unwinds, Becomes, WorkerState
<1>4. ASSUME NEW w \in Worker, NEW pc, worker[w].pc \in Working, Sees(w, pc, There(w)) PROVE G
  BY <1>0, <1>1, <1>4 DEF Sees, WorkerState
<1>5. ASSUME NEW w \in Worker, worker[w].pc \in Seeing, Becomes(w, "hashed") PROVE G
  BY <1>0, <1>1, <1>5 DEF Becomes, WorkerState
<1>6. ASSUME NEW w \in Worker, NEW j \in DOMAIN jobs, StartJob(w, j) PROVE G
  <2>1. worker'[w].pc = "read" /\ \A u \in Worker : u # w => worker'[u] = worker[u]
    BY <1>6, StartedWorker
  <2> QED BY <1>1, <2>1 DEF Seeing
<1> HIDE DEF G
<1>7. ASSUME NEW w \in Worker, WorkerNext(w) PROVE G
  <2>1. CASE DropMissing(w) \/ Register(w) \/ FailJob(w) \/ DeferClaim(w)
    BY <1>2, <2>1 DEF DropMissing, Register, FailJob, DeferClaim
  <2>2. CASE Resettle(w) \/ MarkAbsent(w)
    BY <1>2, <1>3, <2>2 DEF Resettle, MarkAbsent
  <2>3. CASE OpenFile(w)
    <3>1. worker[w].pc \in Working /\ \E pc : Sees(w, pc, There(w))
      BY <2>3 DEF OpenFile, Working
    <3> QED BY <1>4, <3>1
  <2>4. CASE HashFile(w)
    <3>1. /\ worker[w].pc \in Working /\ worker[w].pc \in Seeing
          /\ Unwinds(w, "failing") \/ Becomes(w, "hashed") \/ Sees(w, "changed", There(w))
      BY <2>4 DEF HashFile, Working, Seeing
    <3> QED BY <1>3, <1>4, <1>5, <3>1
  <2>5. CASE Claim(w)
    BY <1>2, <1>3, <2>5 DEF Claim
  <2> QED BY <1>6, <1>7, <2>1, <2>2, <2>3, <2>4, <2>5 DEF WorkerNext
<1>8. CASE ScanNext
  BY <1>1, <1>8 DEF ScanNext, BeginScan, StartScan, RefuseScan, EnterDirectory, VisitFile, FlushPath,
     FindMissing, MarkMissing, MarkBlocked, SaveDirectories, FinishScan
<1>9. CASE UploadNext \/ AdminNext \/ RecoverClaims
  BY <1>1, <1>9 DEF UploadNext, OpenUpload, QueueUpload, AdminNext, AcceptRoot, RequeueFailed,
     RepairMetadata, RecoverClaims
<1>10. CASE Faults
  <2>1. CASE Restart
    <3>1. worker'[v] = Resting
      BY <2>1 DEF Restart
    <3> QED BY <1>0, <3>1
  <2>2. CASE AbortScan \/ UploadFails
    BY <1>1, <2>2 DEF AbortScan, UploadFails
  <2>3. ASSUME NEW w \in Worker, Break(w) PROVE G
    BY <1>3, <2>3 DEF Break
  <2> QED BY <1>10, <2>1, <2>2, <2>3 DEF Faults
<1>11. CASE Environment \/ UNCHANGED vars \/ \E l \in DOMAIN locs : Settle(l)
  BY <1>1, <1>11 DEF Environment, ChangeFile, Mount, vars, Settle
<1> QED BY <1>7, <1>8, <1>9, <1>10, <1>11 DEF Next

\* What is known before a step of a reconciliation that goes on undisturbed.
LEMMA AloneBefore ==
    ASSUME Tables, Truthful, [Next]_vars, Alone', ~Begins
    PROVE  /\ scan'.calm /\ scan' # NoScan /\ scan.mode = "reconciliation" /\ stamped = {}
           /\ SightsHold /\ AtHome /\ Listed /\ \A p \in Path : Reached(p)
           /\ UNCHANGED files /\ ~Environment
           /\ scan.pc # "idle" => mounted = scan.root
           /\ scan.blocked = {} /\ scan.barred = {}
<1>1. /\ Calm /\ UNCHANGED files /\ ~Environment
      /\ scan'.mode = scan.mode /\ scan'.alone = scan.alone
  BY CalmBefore DEF Truthful, Alone
<1>2. Alone /\ scan' # NoScan /\ scan'.calm
  BY <1>1 DEF Alone, Calm, NoScan
<1> QED BY <1>1, <1>2 DEF Truthful, Alone, Calmness

\* A reconciliation that finds nobody at work has nothing behind it.
LEMMA BeginsAlone ==
    ASSUME Tables, Begins, Alone'
    PROVE  SightsHold' /\ AtHome' /\ Listed' /\ stamped' = {} /\ \A p \in Path : Reached(p)'
<1>1. PICK mode : BeginScan(mode)
  BY DEF Begins
<1>2. /\ scan'.pc = "idle" /\ scan'.list = {} /\ scan'.seen = {}
      /\ scan'.batch = {} /\ scan'.touched = {}
      /\ upload' = upload /\ worker' = worker
      /\ upload.pc = "idle" /\ \A w \in Worker : worker[w].pc \notin Working
  BY <1>1, BeginFields DEF BeginScan, Alone
<1>3. Seeing \subseteq Working /\ {"hashed", "changed"} \subseteq Working
  BY DEF Seeing, Working
<1>4. SightsHold' /\ AtHome'
  BY <1>2, <1>3 DEF SightsHold, AtHome
<1>5. \A p \in Path : Reached(p)'
  BY <1>2 DEF Reached
<1>6. stamped' = {}
  BY <1>1, <1>2, <1>3 DEF BeginScan
<1> QED BY <1>2, <1>4, <1>5, <1>6 DEF Listed

\* Who begins to work meanwhile does so under the mounted root.
LEMMA AtHomeStep == ASSUME Tables, Truthful, [Next]_vars, Alone', ~Begins PROVE AtHome'
<1>0. /\ AtHome /\ mounted' = mounted /\ ~Environment
      /\ scan.pc # "idle" => mounted = scan.root
  BY AloneBefore DEF files
<1>1. GateHeld /\ GateHeld' /\ WorkersOK
  BY GateStep DEF Tables, Types, GateInvariant
<1> SUFFICES ASSUME NEW w \in Worker, worker'[w].pc \in Working PROVE root'.identity = mounted
  BY <1>0, <1>1 DEF AtHome, GateHeld
<1>2. root.identity = mounted
  <2>1. CASE worker[w].pc \in Working
    BY <1>0, <1>1, <2>1 DEF AtHome, GateHeld
  <2>2. ASSUME NEW v \in Worker, NEW j \in DOMAIN jobs, StartJob(v, j) PROVE root.identity = mounted
    BY <2>2 DEF StartJob, Trusted
  <2>3. ASSUME NEW v \in Worker, Claim(v), ~Rests(v) PROVE worker[w].pc \in Working
    <3>1. /\ worker[v].pc = "read" /\ \A u \in Worker : u # v => worker'[u] = worker[u]
      BY <2>3, ClaimingWorker
    <3> QED BY <3>1 DEF Working
  <2>4. CASE Ongoing
    <3>1. worker'[w].pc = "read" \/ worker'[w].pc \in Claiming
      BY DEF Working, Claiming
    <3>2. worker[w].pc = "read" \/ worker[w].pc \in Claiming
      BY <2>4, <3>1 DEF Ongoing, GoesOn, Claiming
    <3> QED BY <2>1, <3>2 DEF Working, Claiming
  <2> QED BY <1>1, <2>1, <2>2, <2>3, <2>4, WorkerCases
<1>3. CASE FinishScan
  BY <1>0, <1>3 DEF FinishScan
<1>4. CASE AcceptRoot
  BY <1>4 DEF AcceptRoot
<1> QED BY <1>0, <1>2, <1>3, <1>4, RootCases

\* Every step keeps what was seen true: who begins under the gate looks at the files of the same root.
LEMMA SightsStep == ASSUME Tables, Truthful, [Next]_vars, Alone', ~Begins PROVE SightsHold'
<1>0. /\ scan' # NoScan /\ SightsHold /\ AtHome /\ (scan.pc # "idle" => mounted = scan.root)
      /\ disk' = disk /\ mounted' = mounted /\ ~Environment /\ scan'.calm
  BY AloneBefore DEF files
<1>1. WorkersOK /\ scan \in ScanState
  BY DEF Tables, Types, ScanOK
<1>2. ASSUME NEW w \in Worker, worker'[w].pc \in Seeing
      PROVE  worker'[w].file = disk'[mounted'][worker'[w].snap.path]
  <2>1. /\ worker'[w].snap = worker[w].snap /\ worker[w].pc \in Working
        /\ \/ worker[w].pc \in Seeing /\ worker'[w].file = worker[w].file
           \/ worker'[w].file = There(w)
    BY <1>1, <1>2, SeeingCases
  <2>2. worker[w].root = mounted
    BY <1>0, <2>1 DEF AtHome
  <2> QED BY <1>0, <2>1, <2>2 DEF SightsHold, There
<1>3. upload'.pc = "opened" => upload'.file = disk'[mounted'][upload'.path]
  <2>1. upload' = upload \/ upload' = NoUpload \/ \E p \in Path : OpenUpload(p)
    <3>1. CASE ScanNext \/ AdminNext \/ Environment \/ RecoverClaims \/ UNCHANGED vars
               \/ \E l \in DOMAIN locs : Settle(l)
      BY <3>1 DEF ScanNext, BeginScan, StartScan, RefuseScan, EnterDirectory, VisitFile, FlushPath,
         FindMissing, MarkMissing, MarkBlocked, SaveDirectories, FinishScan, AdminNext, AcceptRoot, RequeueFailed,
         RepairMetadata, Environment, ChangeFile, Mount, RecoverClaims, vars, Settle
    <3>2. CASE UploadNext \/ Faults
      BY <3>2 DEF UploadNext, QueueUpload, Faults, AbortScan, UploadFails, Restart, Break
    <3>3. ASSUME NEW w \in Worker, WorkerNext(w) PROVE upload' = upload
      BY <3>3 DEF WorkerNext, StartJob, Claim, DropMissing, OpenFile, HashFile, Register, Resettle,
         MarkAbsent, FailJob, DeferClaim
    <3> QED BY <3>1, <3>2, <3>3 DEF Next
  <2>2. ASSUME NEW p \in Path, OpenUpload(p)
        PROVE  upload'.file = disk'[mounted'][upload'.path]
    BY <1>0, <2>2 DEF OpenUpload
  <2> QED BY <1>0, <2>1, <2>2 DEF SightsHold, NoUpload
<1>4. ASSUME NEW e \in scan'.batch PROVE e[2] = disk'[mounted'][e[1]]
  <2>1. e \in scan.batch => e[2] = disk'[mounted'][e[1]]
    BY <1>0 DEF SightsHold
  <2>2. ASSUME NEW p \in Path, VisitFile(p) PROVE e[2] = disk'[mounted'][e[1]]
    <3>0. \/ scan'.batch = scan.batch \cup {<<p, disk[scan.root][p]>>}
          \/ scan'.batch = scan.batch
      BY <1>1, <2>2, VisitFields
    <3>1. e \in scan.batch \/ e = <<p, disk[scan.root][p]>>
      BY <1>4, <3>0
    <3>2. scan.root = mounted
      BY <1>0, <2>2 DEF VisitFile
    <3> QED BY <1>0, <2>1, <3>1, <3>2
  <2>3. CASE Writing
    BY <1>1, <1>4, <2>1, <2>3, WritingFields DEF Writing
  <2>4. CASE scan' = scan
    BY <1>4, <2>1, <2>4
  <2>5. CASE FindMissing
    BY <1>0, <1>1, <1>4, <2>5, FindFields
  <2>6. CASE MarkMissing \/ MarkBlocked \/ SaveDirectories
    <3>1. scan'.batch = scan.batch
      BY <1>1, <2>6 DEF MarkMissing, MarkBlocked, SaveDirectories, ScanState
    <3> QED BY <1>4, <2>1, <3>1
  <2>7. ASSUME NEW d \in Dirs, EnterDirectory(d) PROVE e \in scan.batch
    BY <1>1, <1>4, <2>7, EnterFields
  <2>8. CASE StartScan
    BY <1>4, <2>8, StartFields
  <2> QED BY <1>0, <2>1, <2>2, <2>3, <2>4, <2>5, <2>6, <2>7, <2>8, ScanCases DEF Begins
<1> QED BY <1>2, <1>3, <1>4 DEF SightsHold

\* Every step keeps what is listed there.
LEMMA ListedStep == ASSUME Tables, Truthful, [Next]_vars, Alone', ~Begins PROVE Listed'
<1>0. /\ scan' # NoScan /\ Listed /\ (scan.pc # "idle" => mounted = scan.root)
      /\ disk' = disk /\ mounted' = mounted /\ ~Environment
  BY AloneBefore DEF files
<1>1. scan \in ScanState
  BY DEF Tables, Types, ScanOK
<1> SUFFICES ASSUME NEW p \in scan'.list \cup scan'.seen PROVE disk[mounted][p] # NoFile
  BY <1>0 DEF Listed
<1>2. p \in scan.list \cup scan.seen => disk[mounted][p] # NoFile
  BY <1>0 DEF Listed
<1>3. ASSUME NEW d \in Dirs, EnterDirectory(d) PROVE disk[mounted][p] # NoFile
  <2>1. /\ scan.pc = "walk" /\ scan'.seen = scan.seen
        /\ \A q \in scan'.list : disk[scan.root][q] # NoFile
    BY <1>1, <1>3, EnterFields
  <2> QED BY <1>0, <1>2, <2>1
<1>4. ASSUME NEW q \in Path, VisitFile(q) PROVE p \in scan.list \cup scan.seen
  BY <1>1, <1>4, VisitFields
<1>5. CASE FindMissing
  BY <1>0, <1>1, <1>5, FindFields
<1>6. CASE MarkMissing \/ MarkBlocked \/ SaveDirectories
  <2>1. scan'.list = scan.list /\ scan'.seen = scan.seen
    BY <1>1, <1>6 DEF MarkMissing, MarkBlocked, SaveDirectories, ScanState
  <2> QED BY <1>2, <2>1
<1>7. CASE Writing
  BY <1>1, <1>2, <1>7, WritingFields DEF Writing
<1>8. CASE scan' = scan
  BY <1>2, <1>8
<1>9. CASE StartScan
  BY <1>9, StartFields
<1> QED BY <1>0, <1>2, <1>3, <1>4, <1>5, <1>6, <1>7, <1>8, <1>9, ScanCases DEF Begins

\* Rows and files stay what they are, and so does what the scan has of them.
LEMMA ReachedStays ==
    ASSUME NEW p, Reached(p), UNCHANGED files, DOMAIN locs' = DOMAIN locs,
           \A l \in DOMAIN locs : /\ locs'[l].path = locs[l].path
                                  /\ locs'[l].status = locs[l].status /\ locs'[l].file = locs[l].file,
           scan' = scan
    PROVE  Reached(p)'
<1>1. \A l : l \in Current(p)' <=> l \in Current(p)
  BY DEF Current
<1>2. Met(p) => Met(p)'
  BY <1>1 DEF Met, files, Current
<1>3. CASE disk[mounted][p] = NoFile
  BY <1>1, <1>3 DEF Reached, files
<1>4. CASE disk[mounted][p] # NoFile
  BY <1>2, <1>4 DEF Reached, files
<1> QED BY <1>3, <1>4

\* A writer leaves what has been read of other paths.
LEMMA BatchKept ==
    ASSUME ScanOK, NEW l, ScanWrites(l), NEW e \in scan.batch, e[1] # locs'[l].path
    PROVE  e \in scan'.batch
<1>1. scan \in ScanState
  BY DEF ScanOK
<1>2. CASE scan' = Touch(l) \/ scan' = Untouch(l)
  BY <1>1, <1>2, TouchFields, UntouchFields
<1>3. ASSUME NEW g \in scan.batch, locs'[l].path = g[1],
             scan' = [scan EXCEPT !.batch = scan.batch \ {g}, !.touched = scan.touched \cup {l}]
      PROVE  e \in scan'.batch
  <2>1. scan'.batch = scan.batch \ {g}
    BY <1>1, <1>3, FlushFields
  <2> QED BY <1>3, <2>1
<1>4. CASE scan' = scan
  BY <1>4
<1> QED BY <1>2, <1>3, <1>4 DEF ScanWrites

\* A row that a worker, an upload or the scan itself writes down is a true one.
LEMMA ReachedWrites ==
    ASSUME Types, SightsHold, stamped = {}, Writing, NEW p, Reached(p)
    PROVE  Reached(p)'
<1>0. TablesOK /\ ScanOK /\ scan \in ScanState /\ NoFile \notin File
  BY MediaAssumption DEF Types, ScanOK
<1>1. PICK l : Written(l) /\ ScanWrites(l) /\ Sighted(l) /\ UNCHANGED files
  BY DEF Writing
<1>2. /\ l \in DOMAIN locs' /\ DOMAIN locs' = DOMAIN locs \cup {l}
      /\ \A k \in DOMAIN locs : k # l => locs'[k] = locs[k]
      /\ l \in DOMAIN locs => locs'[l].path = locs[l].path
      /\ locs'[l].file \in File
  BY <1>0, <1>1, WrittenRows DEF Location
<1>3. /\ scan'.pc = scan.pc /\ scan'.todo = scan.todo /\ scan'.list = scan.list
      /\ scan'.missing = scan.missing
      /\ scan.touched \subseteq scan'.touched /\ scan'.touched \subseteq scan.touched \cup {l}
      /\ scan.pc \in {"walk", "mark", "bar"} => l \in scan'.touched \/ locs'[l].status = "missing"
  BY <1>0, <1>1, WritingFields
<1>4. /\ disk' = disk /\ mounted' = mounted
      /\ IF locs'[l].status = "missing" THEN disk[mounted][locs'[l].path] = NoFile
         ELSE disk[mounted][locs'[l].path] = locs'[l].file
  BY <1>1 DEF files, Sighted
<1>5. \A k : k # l => (k \in Current(p)' <=> k \in Current(p))
  BY <1>2 DEF Current
<1>6. CASE disk[mounted][p] = NoFile
  <2>1. l \notin Current(p)'
    BY <1>0, <1>2, <1>4, <1>6 DEF Current
  <2>2. \A k \in Current(p)' : k # l /\ k \in Current(p)
    BY <1>5, <2>1
  <2> QED BY <1>3, <1>4, <1>6, <2>2 DEF Reached
<1>7. CASE disk[mounted][p] # NoFile /\ locs'[l].path = p
  <2>1. locs'[l].status # "missing"
    BY <1>4, <1>7
  <2>2. Met(p)'
    BY <1>2, <1>3, <1>4, <1>7, <2>1 DEF Met, Current
  <2> QED BY <1>4, <1>7, <2>2 DEF Reached
<1>8. CASE disk[mounted][p] # NoFile /\ locs'[l].path # p
  <2>1. Met(p) => Met(p)'
    <3> SUFFICES ASSUME NEW k \in Current(p), locs[k].file = disk[mounted][p],
                        scan.pc \in {"walk", "mark", "bar"} => k \in scan.touched
                 PROVE  Met(p)'
      BY DEF Met
    <3>1. k # l /\ locs'[k] = locs[k] /\ k \in Current(p)'
      BY <1>2, <1>5, <1>8 DEF Current
    <3> QED BY <1>3, <1>4, <3>1 DEF Met
  <2>2. (\E e \in scan.batch : e[1] = p) => \E e \in scan'.batch : e[1] = p
    BY <1>0, <1>1, <1>8, BatchKept
  <2> QED BY <1>3, <1>4, <1>8, <2>1, <2>2 DEF Reached
<1> QED BY <1>6, <1>7, <1>8

\* A reconciliation that reads directories and files meets every file, and finds the rows of
\* all that are absent.
LEMMA ReachedWalks ==
    ASSUME Tables, Listed, mounted = scan.root, scan.mode = "reconciliation", scan.blocked = {},
           scan'.calm, scan' # NoScan, NEW p \in Path, Reached(p),
           (\E d \in Dirs : EnterDirectory(d)) \/ (\E q \in Path : VisitFile(q)) \/ FindMissing
    PROVE  Reached(p)'
<1>0. scan \in ScanState
  BY DEF Tables, Types, ScanOK
<1>1. locs' = locs /\ disk' = disk /\ mounted' = mounted
  BY DEF EnterDirectory, VisitFile, FindMissing, catalog, files
<1>2. Current(p)' = Current(p)
  BY <1>1 DEF Current
<1>3. ASSUME NEW d \in Dirs, EnterDirectory(d) PROVE Reached(p)'
  <2>1. /\ scan.pc = "walk" /\ scan.list = {} /\ scan'.pc = "walk" /\ scan'.todo = scan.todo \ {d}
        /\ scan'.batch = scan.batch /\ scan'.touched = scan.touched
        /\ scan'.list = {q \in Path : Dir[q] = d /\ disk[scan.root][q] # NoFile}
    <3>1. Inspects(d)
      BY DEF Inspects
    <3> QED BY <1>0, <1>3, <3>1, EnterFields
  <2>2. Met(p) => Met(p)'
    BY <1>1, <1>2, <2>1 DEF Met
  <2>3. CASE disk[mounted][p] = NoFile
    BY <1>1, <1>2, <2>1, <2>3 DEF Reached
  <2>4. CASE disk[mounted][p] # NoFile
    <3>1. Dir[p] = d => p \in scan'.list
      BY <2>1, <2>4
    <3> QED BY <1>1, <2>1, <2>2, <2>4, <3>1 DEF Reached
  <2> QED BY <2>3, <2>4
<1>4. ASSUME NEW q \in Path, VisitFile(q) PROVE Reached(p)'
  <2>1. /\ scan.pc = "walk" /\ scan'.pc = "walk" /\ scan'.todo = scan.todo
        /\ scan'.batch = scan.batch \cup {<<q, disk[scan.root][q]>>}
        /\ scan'.touched = scan.touched /\ scan'.list = scan.list \ {q}
    BY <1>0, <1>4, VisitFields
  <2>2. Met(p) => Met(p)'
    BY <1>1, <1>2, <2>1 DEF Met
  <2>3. CASE disk[mounted][p] = NoFile
    BY <1>1, <1>2, <2>1, <2>3 DEF Reached
  <2>4. CASE disk[mounted][p] # NoFile
    <3>1. q = p => \E e \in scan'.batch : e[1] = p
      <4>1. /\ <<q, disk[scan.root][q]>> \in scan'.batch
            /\ <<q, disk[scan.root][q]>>[1] = q
        BY <2>1
      <4> QED BY <4>1
    <3>2. (\E e \in scan.batch : e[1] = p) => \E e \in scan'.batch : e[1] = p
      BY <2>1
    <3> QED BY <1>1, <2>1, <2>2, <2>4, <3>1, <3>2 DEF Reached
  <2> QED BY <2>3, <2>4
<1>5. CASE FindMissing
  <2>1. /\ scan.pc = "walk" /\ scan.todo = {} /\ scan.list = {} /\ scan.batch = {}
        /\ scan'.pc = "mark" /\ scan'.touched = scan.touched
        /\ \A l \in DOMAIN locs :
             Idle(l) /\ locs[l].path \notin scan.seen /\ Dir[locs[l].path] \notin scan.blocked
             /\ Covered(locs[l].path) => l \in scan'.missing
    BY <1>0, <1>5, FindFields
  <2>2. CASE disk[mounted][p] = NoFile
    <3>1. p \notin scan.seen /\ Covered(p)
      BY <2>2 DEF Listed, Covered
    <3>2. \A l \in Current(p) : l \notin scan.touched /\ l \in scan'.missing
      BY <2>1, <2>2, <3>1 DEF Reached, Current, Idle
    <3> QED BY <1>1, <1>2, <2>1, <2>2, <3>2 DEF Reached
  <2>3. CASE disk[mounted][p] # NoFile
    <3>1. Met(p)
      BY <2>1, <2>3 DEF Reached
    <3>2. Met(p)'
      BY <1>1, <1>2, <2>1, <3>1 DEF Met
    <3> QED BY <1>1, <2>3, <3>2 DEF Reached
  <2> QED BY <2>2, <2>3
<1> QED BY <1>3, <1>4, <1>5

\* The rows of absent files are marked, and no other: the rows of files have been touched.
LEMMA ReachedMarks ==
    ASSUME Tables, scan.barred = {}, NEW p \in Path, Reached(p),
           MarkMissing \/ MarkBlocked \/ SaveDirectories
    PROVE  Reached(p)'
<1>0. scan \in ScanState /\ TablesOK /\ ScanOK
  BY DEF Tables, Types, ScanOK
<1>1. disk' = disk /\ mounted' = mounted
  BY DEF MarkMissing, MarkBlocked, SaveDirectories, files
<1>2. CASE MarkMissing
  <2>1. Mark(scan.missing, "missing") /\ scan.missing \in SUBSET DOMAIN locs
    BY <1>0, <1>2 DEF MarkMissing, ScanOK
  <2>2. /\ DOMAIN locs' = DOMAIN locs
        /\ \A l \in DOMAIN locs :
             IF l \in scan.missing /\ Idle(l) THEN locs'[l] = [locs[l] EXCEPT !.status = "missing"]
             ELSE locs'[l] = locs[l]
    BY <1>0, <2>1, MarkRows
  <2>3. scan.pc = "mark" /\ scan'.pc = "bar" /\ scan'.touched = scan.touched
    BY <1>0, <1>2, MarkFields
  <2>4. CASE disk[mounted][p] = NoFile
    <3>1. \A l \in Current(p) : Idle(l) /\ l \in scan.missing
      BY <2>3, <2>4 DEF Reached, Current, Idle
    <3>2. \A l \in DOMAIN locs : locs[l] \in Location
      BY <1>0, Rowids DEF TablesOK
    <3>3. ASSUME NEW l \in Current(p)' PROVE FALSE
      <4>1. l \in DOMAIN locs /\ locs'[l].status # "missing" /\ locs'[l].path = p
        BY <2>2 DEF Current
      <4>2. locs'[l] = locs[l]
        BY <2>2, <3>2, <4>1 DEF Location
      <4>3. l \in Current(p)
        BY <4>1, <4>2 DEF Current
      <4>4. locs'[l] = [locs[l] EXCEPT !.status = "missing"]
        BY <2>2, <3>1, <4>1, <4>3
      <4> QED BY <3>2, <4>1, <4>4 DEF Location
    <3> QED BY <1>1, <2>4, <3>3 DEF Reached
  <2>5. CASE disk[mounted][p] # NoFile
    <3>1. PICK l \in Current(p) : locs[l].file = disk[mounted][p] /\ l \in scan.touched
      BY <2>3, <2>5 DEF Reached, Met
    <3>2. locs'[l] = locs[l] /\ l \in Current(p)'
      BY <2>2, <3>1 DEF Idle, Current
    <3>3. Met(p)'
      BY <1>1, <2>3, <3>1, <3>2 DEF Met
    <3> QED BY <1>1, <2>5, <3>3 DEF Reached
  <2> QED BY <2>4, <2>5
<1>3. CASE MarkBlocked \/ SaveDirectories
  <2>1. DOMAIN locs' = DOMAIN locs /\ \A l \in DOMAIN locs : locs'[l] = locs[l]
    <3>1. CASE SaveDirectories
      BY <3>1 DEF SaveDirectories
    <3>2. CASE MarkBlocked
      <4>1. Mark(scan.barred, "permission_blocked") /\ scan.barred \in SUBSET DOMAIN locs
        BY <1>0, <3>2 DEF MarkBlocked, ScanOK
      <4> QED BY <1>0, <4>1, MarkRows
    <3> QED BY <1>3, <3>1, <3>2
  <2>2. scan.pc \in {"bar", "dirs"} /\ scan'.pc \in {"dirs", "finish"}
    BY <1>0, <1>3, MarkFields
  <2>3. \A l : l \in Current(p)' <=> l \in Current(p)
    BY <2>1 DEF Current
  <2>4. CASE disk[mounted][p] = NoFile
    BY <1>1, <2>2, <2>3, <2>4 DEF Reached
  <2>5. CASE disk[mounted][p] # NoFile
    <3>1. PICK l \in Current(p) : locs[l].file = disk[mounted][p]
      BY <2>2, <2>5 DEF Reached, Met
    <3>2. Met(p)'
      BY <1>1, <2>1, <2>2, <2>3, <3>1 DEF Met, Current
    <3> QED BY <1>1, <2>5, <3>2 DEF Reached
  <2> QED BY <2>4, <2>5
<1> QED BY <1>2, <1>3

\* Every step brings the reconciliation on, or leaves it where it is.
LEMMA ReachedStep ==
    ASSUME Tables, Truthful, [Next]_vars, Alone', ~Begins, NEW p \in Path
    PROVE  Reached(p)'
<1>0. /\ scan' # NoScan /\ scan'.calm /\ scan.mode = "reconciliation" /\ SightsHold /\ Listed
      /\ stamped = {} /\ Reached(p) /\ UNCHANGED files /\ ~Environment
      /\ (scan.pc # "idle" => mounted = scan.root) /\ scan.blocked = {} /\ scan.barred = {}
  BY AloneBefore
<1>1. CASE Writing
  BY <1>0, <1>1, ReachedWrites DEF Tables
<1>2. CASE (\E d \in Dirs : EnterDirectory(d)) \/ (\E q \in Path : VisitFile(q)) \/ FindMissing
  <2>1. mounted = scan.root
    BY <1>0, <1>2 DEF EnterDirectory, VisitFile, FindMissing
  <2> QED BY <1>0, <1>2, <2>1, ReachedWalks
<1>3. CASE MarkMissing \/ MarkBlocked \/ SaveDirectories
  BY <1>0, <1>3, ReachedMarks
<1>4. CASE scan' = scan /\ ~Writing /\ ~MarkMissing /\ ~MarkBlocked
  <2>1. /\ DOMAIN locs' = DOMAIN locs
        /\ \A l \in DOMAIN locs : locs'[l].path = locs[l].path /\ locs'[l].status = locs[l].status
                                  /\ locs'[l].file = locs[l].file
    BY <1>4, WriterCases
  <2> QED BY <1>0, <1>4, <2>1, ReachedStays
<1>5. CASE StartScan
  <2>1. /\ scan'.pc = "walk" /\ scan'.todo = Dirs /\ scan'.touched = scan.touched
        /\ locs' = locs /\ disk' = disk /\ mounted' = mounted
    BY <1>5, StartFields DEF StartScan, catalog, files
  <2>2. Current(p)' = Current(p) /\ Dir[p] \in Dirs
    BY <2>1, DirOf DEF Current
  <2> QED BY <1>0, <2>1, <2>2 DEF Reached
<1> QED BY <1>0, <1>1, <1>2, <1>3, <1>4, <1>5, ScanCases DEF Begins

TruthSound == CatalogSound /\ Truthful

\* Initially.
LEMMA TruthInit == Init => TruthSound
<1> SUFFICES ASSUME Init PROVE Truthful
  BY SoundInit DEF TruthSound
<1> QED BY DEF Init, NoScan, Truthful, Calmness, Calm, Alone

\* At every step.
LEMMA TruthStep == TruthSound /\ [Next]_vars => TruthSound'
<1> SUFFICES ASSUME TruthSound, [Next]_vars PROVE TruthSound'
  OBVIOUS
<1>1. CatalogSound /\ Tables /\ Truthful /\ Calmness
  BY DEF TruthSound, CatalogSound, Truthful
<1>2. Calmness'
  BY <1>1, CalmnessStep
<1>3. ASSUME Alone'
      PROVE  SightsHold' /\ AtHome' /\ Listed' /\ stamped' = {} /\ \A p \in Path : Reached(p)'
  <2>1. CASE Begins
    BY <1>1, <1>3, <2>1, BeginsAlone
  <2>2. CASE ~Begins
    <3>1. stamped' = {}
      BY <1>1, <1>3, <2>2, AloneBefore, StampedCases DEF Begins
    <3> QED BY <1>1, <1>3, <2>2, <3>1, SightsStep, AtHomeStep, ListedStep, ReachedStep
  <2> QED BY <2>1, <2>2
<1>4. Truthful'
  BY <1>2, <1>3 DEF Truthful
<1> QED BY <1>1, <1>4, SoundStep DEF TruthSound

\* A reconciliation that finds nobody at work when it reads the time, and since when no file changes,
\* ends with a row of the very version of each file and none of absent files (finalizing a scan,
\* local_scan.go), whatever workers and uploads that begin meanwhile write.
THEOREM ReconciliationReconciles == Spec => ReconciledAlone
<1>1. TruthSound => (/\ scan.pc = "finish" /\ scan.mode = "reconciliation" /\ scan.calm /\ scan.alone
                     => Matches)
  <2> SUFFICES ASSUME TruthSound, scan.pc = "finish", scan.mode = "reconciliation", scan.calm,
                      scan.alone, NEW p \in Path
               PROVE  IF disk[mounted][p] = NoFile THEN Current(p) = {}
                      ELSE \E l \in Current(p) : locs[l].file = disk[mounted][p]
    BY DEF Matches
  <2>1. Reached(p)
    BY DEF TruthSound, Truthful, Alone, Calm
  <2> QED BY <2>1 DEF Reached, Met
<1>2. TruthSound /\ [Next]_vars =>
        [scan.pc = "finish" /\ scan.mode = "reconciliation" /\ scan.calm /\ scan.alone
         => Matches]_vars
  BY <1>1
<1> QED BY <1>2, TruthInit, TruthStep, PTL DEF Spec, ReconciledAlone
==============================================================================

