-------------------------- MODULE LocalMediaProofs --------------------------
(***************************************************************************)
(* The catalog of a Local datasource, for any number of volumes, paths,    *)
(* versions, contents, rows, jobs and workers.                             *)
(*                                                                         *)
(* First the transition gate of the root: what everybody under it goes on  *)
(* to rely on, and the jobs that the change of a root leaves behind.  That *)
(* needs little of the tables: records are only required to have the       *)
(* fields it speaks of.  Then the tables themselves: rows, assets and the  *)
(* jobs that workers claim, between any two transactions of their writers. *)
(* LocalScanProofs goes on with what a scan makes of them.                 *)
(***************************************************************************)
EXTENDS LocalMedia, WellFoundedInduction, FiniteSetTheorems, TLAPS

Shapes ==
    /\ {"pc", "mode", "root", "gen", "pending"} \subseteq DOMAIN scan
    /\ DOMAIN worker = Worker
    /\ \A w \in Worker : {"pc", "root", "gen"} \subseteq DOMAIN worker[w]

\* Everybody at work under the gate has a root that exists: while none is
\* established (NoRoot) only scans begin.
RootsExist ==
    /\ mounted \in Root /\ root.generation \in Nat
    /\ scan.pc # "idle" => scan.root \in Root
    /\ \A w \in Worker : worker[w].pc \in Working => worker[w].root \in Root
    /\ upload.pc = "opened" => upload.root \in Root

\* Every job of the table js is of a generation in G.
OfGenerations(js, G) ==
    \A j \in DOMAIN js : "gen" \in DOMAIN js[j] /\ js[j].gen \in G
JobsHeld ==
    /\ OfGenerations(jobs, Nat)
    /\ ~root.pending => OfGenerations(jobs, {root.generation})

GateInvariant == Shapes /\ RootsExist /\ GateHeld /\ JobsHeld

-----------------------------------------------------------------------------
(* Operators on the table of jobs.                                         *)

LEMMA WithoutKeeps ==
    ASSUME NEW js, NEW G, OfGenerations(js, G), NEW gone
    PROVE  OfGenerations(Without(js, gone), G)
BY DEF OfGenerations, Without

LEMMA RequeueKeeps ==
    ASSUME NEW js, NEW G, OfGenerations(js, G), NEW back
    PROVE  OfGenerations(Requeue(js, back), G)
BY DEF OfGenerations, Requeue

LEMMA RegenerateKeeps ==
    ASSUME NEW js, NEW G, OfGenerations(js, G), NEW l, NEW g \in G
    PROVE  OfGenerations(Regenerate(js, l, g), G)
BY DEF OfGenerations, Regenerate

LEMMA InsertKeeps ==
    ASSUME NEW js, NEW G, OfGenerations(js, G), NEW l, NEW g \in G
    PROVE  OfGenerations(Insert(js, l, g), G)
<1> DEFINE new == CHOOSE j \in FreeJobs : \A k \in FreeJobs : j <= k
<1>1. Insert(js, l, g) = [j \in DOMAIN js \cup {new} |->
         IF j = new THEN [loc |-> l, gen |-> g, status |-> "queued"] ELSE js[j]]
  BY DEF Insert
<1> HIDE DEF new
<1> QED BY <1>1 DEF OfGenerations

LEMMA QueueKeeps ==
    ASSUME NEW js, NEW G, OfGenerations(js, G), NEW l, NEW g \in G
    PROVE  OfGenerations(Queue(js, l, g), G)
<1>1. Queue(js, l, g) \in {Regenerate(js, l, g), js, Insert(js, l, g)}
  BY DEF Queue
<1> QED BY <1>1, RegenerateKeeps, InsertKeeps

LEMMA ReopenKeeps ==
    ASSUME NEW js, NEW G, OfGenerations(js, G), NEW X
    PROVE  OfGenerations(Reopen(js, X), G)
<1> DEFINE job(l, status) == Jobs(js, l, root.generation, {status})
           rows == {l \in DOMAIN locs : locs[l].asset \notin X /\ job(l, "failed") # {}}
           back(l) == IF job(l, "running") # {} THEN {}
                      ELSE IF job(l, "queued") # {} THEN Latest(job(l, "queued"))
                      ELSE Latest(job(l, "failed"))
           again == UNION {back(l) : l \in rows}
           now == Requeue(js, again)
           gone == UNION {Jobs(now, l, root.generation, {"failed"}) :
                            l \in {k \in rows : Live(now, k) # {}}}
<1>1. Reopen(js, X) = Without(now, gone)
  BY DEF Reopen
<1>2. OfGenerations(now, G)
  <2> HIDE DEF again
  <2> QED BY RequeueKeeps
<1> HIDE DEF now, gone
<1> QED BY <1>1, <1>2, WithoutKeeps

-----------------------------------------------------------------------------
(* What a step may do to each part.                                        *)

ScanKeeps ==
    /\ {"pc", "mode", "root", "gen", "pending"} \subseteq DOMAIN scan'
    /\ scan'.pc # "idle" =>
         /\ scan.pc # "idle"
         /\ scan'.root = scan.root /\ scan'.gen = scan.gen /\ scan'.pending = scan.pending
WorkersKeep ==
    /\ DOMAIN worker' = Worker
    /\ \A w \in Worker :
         /\ {"pc", "root", "gen"} \subseteq DOMAIN worker'[w]
         /\ worker'[w].pc \in Working =>
              /\ worker[w].pc \in Working
              /\ worker'[w].root = worker[w].root /\ worker'[w].gen = worker[w].gen
UploadKeeps == upload'.pc = "opened" => upload' = upload

LEMMA NothingStarted == NoScan.pc = "idle" /\ NoUpload.pc = "idle" /\ Resting.pc = "idle"
                          /\ {"pc", "mode", "root", "gen", "pending"} \subseteq DOMAIN NoScan
                          /\ {"pc", "root", "gen"} \subseteq DOMAIN Resting
BY DEF NoScan, NoUpload, Resting

\* A row is dated after the start of the scan under way, or perhaps before it.
Dated(l) == scan' = Touch(l) \/ scan' = Untouch(l)

LEMMA DatesCases == ASSUME NEW x, NEW l, Dates(x, l) PROVE Dated(l)
BY DEF Dates, Dated

LEMMA TouchKeeps == ASSUME Shapes, NEW l, Dated(l) PROVE ScanKeeps
BY DEF Dated, Touch, Untouch, Shapes, ScanKeeps

LEMMA WorkerMoves ==
    ASSUME Shapes, NEW w \in Worker, worker[w].pc \in Working, NEW pc, NEW f,
           Becomes(w, pc) \/ Unwinds(w, pc) \/ Sees(w, pc, f) \/ Rests(w)
    PROVE  WorkersKeep
<1>1. CASE Becomes(w, pc)
  BY <1>1 DEF Becomes, Shapes, WorkersKeep
<1>2. CASE Unwinds(w, pc)
  BY <1>2 DEF Unwinds, Shapes, WorkersKeep
<1>3. CASE Sees(w, pc, f)
  BY <1>3 DEF Sees, Shapes, WorkersKeep
<1>4. CASE Rests(w)
  BY <1>4, NothingStarted DEF Rests, Shapes, WorkersKeep, Working
<1> QED BY <1>1, <1>2, <1>3, <1>4

LEMMA WorkerRests ==
    ASSUME Shapes, NEW w \in Worker, Rests(w)
    PROVE  WorkersKeep
BY NothingStarted DEF Rests, Shapes, WorkersKeep, Working

LEMMA AllKeep ==
    /\ Shapes /\ scan' = scan => ScanKeeps
    /\ Shapes /\ worker' = worker => WorkersKeep
    /\ upload' = upload => UploadKeeps
BY DEF Shapes, ScanKeeps, WorkersKeep, UploadKeeps

\* Steps that leave the root alone, begin nothing and queue jobs of its own
\* generation only.
Keeps ==
    /\ ScanKeeps /\ WorkersKeep /\ UploadKeeps
    /\ root' = root /\ mounted' \in Root
    /\ \A G : OfGenerations(jobs, G) /\ root.generation \in G => OfGenerations(jobs', G)

LEMMA KeepsInvariant == GateInvariant /\ Keeps => GateInvariant'
<1> SUFFICES ASSUME GateInvariant, Keeps PROVE GateInvariant'
  OBVIOUS
<1>1. Shapes' /\ RootsExist'
  BY DEF GateInvariant, Keeps, ScanKeeps, WorkersKeep, UploadKeeps, Shapes, RootsExist
<1>2. GateHeld'
  BY DEF GateInvariant, Keeps, ScanKeeps, WorkersKeep, UploadKeeps, GateHeld
<1>3. JobsHeld'
  <2>1. root.generation \in Nat /\ root.generation \in {root.generation}
    BY DEF GateInvariant, RootsExist
  <2>2. OfGenerations(jobs', Nat)
    BY <2>1 DEF GateInvariant, Keeps, JobsHeld
  <2>3. ~root.pending => OfGenerations(jobs', {root.generation})
    BY <2>1 DEF GateInvariant, Keeps, JobsHeld
  <2> QED BY <2>2, <2>3 DEF Keeps, JobsHeld, OfGenerations
<1> QED BY <1>1, <1>2, <1>3 DEF GateInvariant

-----------------------------------------------------------------------------
(* The steps.                                                              *)

\* A scan under way queues jobs of the generation it began with.
LEMMA ScanStepKeeps ==
    ASSUME GateInvariant,
           \/ \E d \in Dirs : EnterDirectory(d)
           \/ \E p \in Path : VisitFile(p)
           \/ \E e \in scan.batch : FlushPath(e[1], e[2])
           \/ FindMissing \/ MarkMissing \/ MarkBlocked \/ SaveDirectories \/ AbortScan
           \/ RefuseScan \/ \E mode \in {"quick", "reconciliation"} : BeginScan(mode)
    PROVE  Keeps
<1>0. Shapes /\ mounted \in Root
  BY DEF GateInvariant, RootsExist
<1>1. ASSUME NEW d \in Dirs, EnterDirectory(d) PROVE Keeps
  <2>1. ScanKeeps
    BY <1>0, <1>1 DEF EnterDirectory, Shapes, ScanKeeps
  <2> QED BY <1>0, <1>1, <2>1, AllKeep DEF EnterDirectory, Keeps, files, catalog
<1>2. ASSUME NEW p \in Path, VisitFile(p) PROVE Keeps
  <2>1. ScanKeeps
    BY <1>0, <1>2 DEF VisitFile, Shapes, ScanKeeps
  <2> QED BY <1>0, <1>2, <2>1, AllKeep DEF VisitFile, Keeps, files, catalog
<1>3. ASSUME NEW e \in scan.batch, FlushPath(e[1], e[2]) PROVE Keeps
  <2>1. PICK u : /\ \/ jobs' = Queue(jobs, u.loc, scan.gen)
                    \/ jobs' = Regenerate(jobs, u.loc, scan.gen)
                    \/ jobs' = jobs
                 /\ scan' = [scan EXCEPT !.batch = @ \ {<<e[1], e[2]>>}, !.touched = @ \cup {u.loc}]
    BY <1>3 DEF FlushPath
  <2>2. ScanKeeps
    BY <1>0, <2>1 DEF Shapes, ScanKeeps
  <2>3. scan.gen = root.generation
    BY <1>3 DEF FlushPath, GateInvariant, GateHeld
  <2>4. ASSUME NEW G, OfGenerations(jobs, G), root.generation \in G PROVE OfGenerations(jobs', G)
    BY <2>1, <2>3, <2>4, QueueKeeps, RegenerateKeeps
  <2>5. UNCHANGED <<files, root, upload, worker>>
    BY <1>3 DEF FlushPath
  <2> QED BY <1>0, <2>2, <2>4, <2>5, AllKeep DEF Keeps, files
<1>4. CASE FindMissing
  <2>1. ScanKeeps
    BY <1>0, <1>4, NothingStarted DEF FindMissing, Shapes, ScanKeeps
  <2> QED BY <1>0, <1>4, <2>1, AllKeep DEF FindMissing, Keeps, files, catalog
<1>5. CASE MarkMissing \/ MarkBlocked
  <2>1. ScanKeeps
    BY <1>0, <1>5 DEF MarkMissing, MarkBlocked, Shapes, ScanKeeps
  <2> QED BY <1>0, <1>5, <2>1, AllKeep DEF MarkMissing, MarkBlocked, Keeps, files
<1>6. CASE SaveDirectories
  <2>1. ScanKeeps
    BY <1>0, <1>6 DEF SaveDirectories, Shapes, ScanKeeps
  <2> QED BY <1>0, <1>6, <2>1, AllKeep DEF SaveDirectories, Keeps, files
<1>7. CASE AbortScan \/ RefuseScan
  <2>1. ScanKeeps
    BY <1>7, NothingStarted DEF AbortScan, RefuseScan, ScanKeeps
  <2> QED BY <1>0, <1>7, <2>1, AllKeep DEF AbortScan, RefuseScan, Keeps, files, catalog
<1>8. ASSUME NEW mode \in {"quick", "reconciliation"}, BeginScan(mode) PROVE Keeps
  <2>1. ScanKeeps
    BY <1>8, NothingStarted DEF BeginScan, ScanKeeps, NoScan
  <2> QED BY <1>0, <1>8, <2>1, AllKeep DEF BeginScan, Keeps, files, catalog
<1> QED BY <1>1, <1>2, <1>3, <1>4, <1>5, <1>6, <1>7, <1>8

\* An upload queues a job of the generation under which it was opened.
LEMMA UploadStepKeeps == ASSUME GateInvariant, QueueUpload \/ UploadFails PROVE Keeps
<1>0. Shapes /\ mounted \in Root /\ UploadKeeps
  BY NothingStarted DEF GateInvariant, RootsExist, QueueUpload, UploadFails, UploadKeeps
<1>1. CASE QueueUpload
  <2>1. PICK u : /\ jobs' = Queue(jobs, u.loc, upload.gen) \/ jobs' = jobs
                 /\ Dated(u.loc)
    BY <1>1, DatesCases DEF QueueUpload
  <2>2. upload.gen = root.generation
    BY <1>1 DEF QueueUpload, GateInvariant, GateHeld
  <2>3. ASSUME NEW G, OfGenerations(jobs, G), root.generation \in G PROVE OfGenerations(jobs', G)
    BY <2>1, <2>2, <2>3, QueueKeeps
  <2>4. ScanKeeps
    BY <1>0, <2>1, TouchKeeps
  <2>5. UNCHANGED <<files, root, worker>>
    BY <1>1 DEF QueueUpload
  <2> QED BY <1>0, <2>3, <2>4, <2>5, AllKeep DEF Keeps, files
<1>2. CASE UploadFails
  BY <1>0, <1>2, AllKeep DEF UploadFails, Keeps, files, catalog
<1> QED BY <1>1, <1>2

\* A worker changes no generation of a job, whatever becomes of its claim.
LEMMA WorkerStepKeeps ==
    ASSUME GateInvariant, NEW w \in Worker,
           \/ Claim(w) \/ DropMissing(w) \/ OpenFile(w) \/ HashFile(w) \/ Register(w)
           \/ Resettle(w) \/ MarkAbsent(w) \/ FailJob(w) \/ DeferClaim(w) \/ Break(w)
    PROVE  Keeps
<1>0. Shapes /\ mounted \in Root
  BY DEF GateInvariant, RootsExist
<1> DEFINE Kept == \A G : OfGenerations(jobs, G) /\ root.generation \in G => OfGenerations(jobs', G)
<1>1. ASSUME WorkersKeep, Kept, UNCHANGED <<mounted, root, upload>>,
             scan' = scan \/ \E l : Dated(l)
      PROVE  Keeps
  BY <1>0, <1>1, AllKeep, TouchKeeps DEF Keeps
<1>2. ASSUME NEW gone, jobs' = Without(jobs, gone) PROVE Kept
  BY <1>2, WithoutKeeps
<1>3. ASSUME NEW back, jobs' = Requeue(jobs, back) PROVE Kept
  BY <1>3, RequeueKeeps
<1>4. ASSUME jobs' = jobs PROVE Kept
  BY <1>4
<1>5. CASE Claim(w)
  <2>1. worker[w].pc \in Working
    BY <1>5 DEF Claim, Working
  <2>2. WorkersKeep
    BY <1>0, <1>5, <2>1, WorkerMoves DEF Claim
  <2>3. jobs' = jobs \/ jobs' = [jobs EXCEPT ![worker[w].job].status = "running"]
    BY <1>5 DEF Claim
  <2>4. Kept
    BY <2>3 DEF OfGenerations
  <2> QED BY <1>1, <1>5, <2>2, <2>4 DEF Claim, files
<1>6. CASE DropMissing(w)
  <2>1. WorkersKeep
    BY <1>0, <1>6, WorkerRests DEF DropMissing
  <2> QED BY <1>1, <1>2, <1>6, <2>1 DEF DropMissing, files
<1>7. CASE OpenFile(w) \/ HashFile(w)
  <2>1. worker[w].pc \in Working
    BY <1>7 DEF OpenFile, HashFile, Working
  <2>2. \E pc, f : Becomes(w, pc) \/ Unwinds(w, pc) \/ Sees(w, pc, f)
    <3>1. CASE OpenFile(w)
      BY <3>1 DEF OpenFile
    <3>2. CASE HashFile(w)
      BY <3>2 DEF HashFile
    <3> QED BY <1>7, <3>1, <3>2
  <2>3. WorkersKeep
    BY <1>0, <2>1, <2>2, WorkerMoves
  <2> QED BY <1>1, <1>4, <1>7, <2>3 DEF OpenFile, HashFile, files, catalog
<1>8. CASE Register(w)
  <2>1. WorkersKeep
    BY <1>0, <1>8, WorkerRests DEF Register
  <2>2. /\ (\E gone : jobs' = Without(jobs, gone)) \/ (\E back : jobs' = Requeue(jobs, back))
        /\ scan' = scan \/ \E l : Dated(l)
    BY <1>8, DatesCases DEF Register, GivenBack
  <2>3. Kept
    BY <1>2, <1>3, <2>2
  <2> QED BY <1>1, <1>8, <2>1, <2>2, <2>3 DEF Register, files
<1>9. CASE Resettle(w)
  <2>1. worker[w].pc \in Working
    BY <1>9 DEF Resettle, Working
  <2>2. /\ Rests(w) \/ Unwinds(w, "failing")
        /\ jobs' = jobs \/ \E back : jobs' = Requeue(jobs, back)
        /\ scan' = scan \/ \E l : Dated(l)
    BY <1>9, DatesCases DEF Resettle
  <2>3. WorkersKeep
    BY <1>0, <2>1, <2>2, WorkerMoves
  <2>4. Kept
    BY <1>3, <1>4, <2>2
  <2> QED BY <1>1, <1>9, <2>2, <2>3, <2>4 DEF Resettle, files
<1>10. CASE MarkAbsent(w)
  <2>1. worker[w].pc \in Working /\ Unwinds(w, "failing") /\ scan' = scan
    BY <1>10 DEF MarkAbsent, Working
  <2>2. WorkersKeep
    BY <1>0, <2>1, WorkerMoves
  <2> QED BY <1>1, <1>4, <1>10, <2>1, <2>2 DEF MarkAbsent, files
<1>11. CASE FailJob(w)
  <2>1. WorkersKeep
    BY <1>0, <1>11, WorkerRests DEF FailJob
  <2>2. \/ jobs' = [j \in DOMAIN jobs |-> IF j \in Claimed(w, {"queued", "running"})
                      THEN [jobs[j] EXCEPT !.status = "failed"] ELSE jobs[j]]
        \/ jobs' = Requeue(jobs, Claimed(w, {"running"}))
    BY <1>11 DEF FailJob
  <2>3. Kept
    <3>1. CASE jobs' = Requeue(jobs, Claimed(w, {"running"}))
      BY <1>3, <3>1
    <3>2. CASE jobs' = [j \in DOMAIN jobs |-> IF j \in Claimed(w, {"queued", "running"})
                          THEN [jobs[j] EXCEPT !.status = "failed"] ELSE jobs[j]]
      BY <3>2 DEF OfGenerations
    <3> QED BY <2>2, <3>1, <3>2
  <2> QED BY <1>1, <1>11, <2>1, <2>3 DEF FailJob, files
<1>12. CASE DeferClaim(w)
  <2>1. WorkersKeep
    BY <1>0, <1>12, WorkerRests DEF DeferClaim
  <2>2. Kept
    BY <1>3, <1>4, <1>12 DEF DeferClaim
  <2> QED BY <1>1, <1>12, <2>1, <2>2 DEF DeferClaim, files
<1>13. CASE Break(w)
  <2>1. PICK pc : worker[w].pc \in Working /\ Unwinds(w, pc)
    BY <1>13 DEF Break
  <2>2. WorkersKeep
    BY <1>0, <2>1, WorkerMoves
  <2> QED BY <1>1, <1>4, <1>13, <2>2 DEF Break, files, catalog
<1> QED BY <1>5, <1>6, <1>7, <1>8, <1>9, <1>10, <1>11, <1>12, <1>13

\* Administrators and restarts reopen jobs of the present generation.
LEMMA OtherStepKeeps ==
    ASSUME GateInvariant,
           \/ RecoverClaims \/ RequeueFailed \/ Restart \/ \E l \in DOMAIN locs : Settle(l)
           \/ \E C, X \in SUBSET Content : RepairMetadata(C, X)
           \/ Environment \/ UNCHANGED vars
    PROVE  Keeps
<1>0. Shapes /\ mounted \in Root
  BY DEF GateInvariant, RootsExist
<1>1. CASE RecoverClaims
  BY <1>0, <1>1, AllKeep, RequeueKeeps DEF RecoverClaims, Keeps, files
<1>2. CASE RequeueFailed
  BY <1>0, <1>2, AllKeep, ReopenKeeps DEF RequeueFailed, Keeps, files
<1>3. CASE Restart
  <2>1. ScanKeeps /\ UploadKeeps /\ WorkersKeep
    BY <1>3, NothingStarted DEF Restart, ScanKeeps, UploadKeeps, WorkersKeep, Working
  <2> QED BY <1>0, <1>3, <2>1, RequeueKeeps DEF Restart, Keeps, files
<1>4. ASSUME NEW l \in DOMAIN locs, Settle(l) PROVE Keeps
  BY <1>0, <1>4, AllKeep DEF Settle, Keeps, files
<1>5. ASSUME NEW C \in SUBSET Content, NEW X \in SUBSET Content, RepairMetadata(C, X) PROVE Keeps
  <2> DEFINE again == {c \in WithoutJob(C) : Failures(c) # {}}
             back == UNION {Latest(Failures(c)) : c \in again}
             js == Requeue(jobs, back)
             all(id) == InsertFor(js, id)
  <2>1. PICK id : jobs' = Reopen(Without(all(id), FailuresOf(all(id), C)), X)
    BY <1>5 DEF RepairMetadata
  <2>2. ASSUME NEW G, OfGenerations(jobs, G), root.generation \in G PROVE OfGenerations(jobs', G)
    <3>1. OfGenerations(js, G)
      <4> HIDE DEF back
      <4> QED BY <2>2, RequeueKeeps
    <3>2. OfGenerations(all(id), G)
      <4> HIDE DEF js
      <4> QED BY <2>2, <3>1 DEF InsertFor, OfGenerations
    <3> HIDE DEF all
    <3> QED BY <2>1, <3>2, WithoutKeeps, ReopenKeeps
  <2> QED BY <1>0, <1>5, <2>2, AllKeep DEF RepairMetadata, Keeps, files
<1>6. ASSUME NEW p \in Path, NEW f, NEW inPlace, ChangeFile(p, f, inPlace) PROVE Keeps
  <2>1. ScanKeeps
    BY <1>0, <1>6 DEF ChangeFile, Shapes, ScanKeeps
  <2> QED BY <1>0, <1>6, <2>1, AllKeep DEF ChangeFile, Keeps
<1>7. ASSUME NEW r \in Root, Mount(r) PROVE Keeps
  <2>1. ScanKeeps
    BY <1>0, <1>7 DEF Mount, Shapes, ScanKeeps
  <2> QED BY <1>0, <1>7, <2>1, AllKeep DEF Mount, Keeps
<1>8. CASE UNCHANGED vars
  BY <1>0, <1>8, AllKeep DEF vars, Keeps
<1> QED BY <1>1, <1>2, <1>3, <1>4, <1>5, <1>6, <1>7, <1>8 DEF Environment

\* Whoever begins does so under the root and the generation of the moment.
LEMMA BeginInvariant ==
    ASSUME GateInvariant,
           \/ StartScan
           \/ \E p \in Path : OpenUpload(p)
           \/ \E w \in Worker, j \in DOMAIN jobs : StartJob(w, j)
    PROVE  GateInvariant'
<1>0. Shapes /\ RootsExist /\ GateHeld /\ JobsHeld /\ mounted \in Root /\ NoRoot \notin Root
  BY MediaAssumption DEF GateInvariant, RootsExist
<1>1. CASE StartScan
  <2>1. /\ {"pc", "mode", "root", "gen", "pending"} \subseteq DOMAIN scan'
        /\ scan'.root = mounted /\ scan'.gen = root.generation /\ scan'.pending = root.pending
        /\ root.identity \in {NoRoot, mounted}
    BY <1>1, NothingStarted DEF StartScan
  <2>2. UNCHANGED <<mounted, root, jobs, upload, worker>>
    BY <1>1 DEF StartScan, files, catalog
  <2>3. Shapes' /\ RootsExist' /\ GateHeld'
    BY <1>0, <2>1, <2>2 DEF Shapes, RootsExist, GateHeld
  <2>4. JobsHeld'
    BY <1>0, <2>2 DEF JobsHeld, OfGenerations
  <2> QED BY <2>3, <2>4 DEF GateInvariant
<1>2. ASSUME NEW p \in Path, OpenUpload(p) PROVE GateInvariant'
  <2>1. /\ upload'.root = root.identity /\ upload'.gen = root.generation
        /\ upload'.root \in Root
    BY <1>0, <1>2 DEF OpenUpload, Trusted
  <2>2. UNCHANGED <<mounted, root, jobs, scan, worker>>
    BY <1>2 DEF OpenUpload, files, catalog
  <2>3. Shapes' /\ RootsExist' /\ GateHeld'
    BY <1>0, <2>1, <2>2 DEF Shapes, RootsExist, GateHeld
  <2>4. JobsHeld'
    BY <1>0, <2>2 DEF JobsHeld, OfGenerations
  <2> QED BY <2>3, <2>4 DEF GateInvariant
<1>3. ASSUME NEW w \in Worker, NEW j \in DOMAIN jobs, StartJob(w, j) PROVE GateInvariant'
  <2>1. /\ DOMAIN worker' = Worker /\ {"pc", "root", "gen"} \subseteq DOMAIN worker'[w]
        /\ worker'[w].root = root.identity /\ worker'[w].gen = root.generation
        /\ worker'[w].root \in Root
        /\ \A v \in Worker : v # w => worker'[v] = worker[v]
    BY <1>0, <1>3 DEF StartJob, Trusted, Claimable, Shapes
  <2>2. UNCHANGED <<mounted, root, jobs, scan, upload>>
    BY <1>3 DEF StartJob, files, catalog
  <2>3. Shapes' /\ RootsExist' /\ GateHeld'
    BY <1>0, <2>1, <2>2 DEF Shapes, RootsExist, GateHeld
  <2>4. JobsHeld'
    BY <1>0, <2>2 DEF JobsHeld, OfGenerations
  <2> QED BY <2>3, <2>4 DEF GateInvariant
<1> QED BY <1>1, <1>2, <1>3

\* The end of a scan establishes the root it began with: if nobody had one, no
\* worker and no upload is at work. If it settles a pending reconciliation it
\* deletes the jobs of other generations in the same transaction.
LEMMA FinishInvariant == ASSUME GateInvariant, FinishScan PROVE GateInvariant'
<1>0. /\ Shapes /\ RootsExist /\ GateHeld /\ JobsHeld /\ NoRoot \notin Root
      /\ scan.root \in Root /\ scan.gen = root.generation /\ scan.pending = root.pending
      /\ root.identity \in {NoRoot, scan.root}
  BY MediaAssumption DEF GateInvariant, RootsExist, GateHeld, FinishScan
<1>1. /\ root'.identity = scan.root /\ root'.generation = root.generation
      /\ root'.pending = StillPending
      /\ UNCHANGED <<mounted, upload, worker>> /\ scan' = NoScan
  BY <1>0 DEF FinishScan, files
<1>2. Shapes' /\ RootsExist'
  BY <1>0, <1>1, NothingStarted DEF Shapes, RootsExist
<1>3. GateHeld'
  <2>1. \A w \in Worker : worker[w].pc \in Working =>
          root.identity = scan.root /\ worker[w].root = scan.root /\ worker[w].gen = root.generation
    BY <1>0 DEF RootsExist, GateHeld
  <2>2. upload.pc = "opened" =>
          root.identity = scan.root /\ upload.root = scan.root /\ upload.gen = root.generation
    BY <1>0 DEF RootsExist, GateHeld
  <2> QED BY <1>1, <2>1, <2>2, NothingStarted DEF GateHeld
<1>4. JobsHeld'
  <2>1. OfGenerations(jobs', Nat)
    <3>1. jobs' = jobs \/ \E gone : jobs' = Without(jobs, gone)
      BY DEF FinishScan
    <3> QED BY <1>0, <3>1, WithoutKeeps DEF JobsHeld
  <2>2. ASSUME ~StillPending PROVE OfGenerations(jobs', {root.generation})
    <3>1. CASE scan.pending /\ scan.mode = "reconciliation"
      <4>1. jobs' = Without(jobs, {j \in DOMAIN jobs : jobs[j].gen # root.generation})
        BY <1>0, <3>1 DEF FinishScan
      <4> QED BY <1>0, <4>1 DEF JobsHeld, OfGenerations, Without
    <3>2. CASE ~(scan.pending /\ scan.mode = "reconciliation")
      BY <1>0, <2>2, <3>2 DEF FinishScan, StillPending, JobsHeld
    <3> QED BY <3>1, <3>2
  <2> QED BY <1>1, <2>1, <2>2 DEF JobsHeld
<1> QED BY <1>2, <1>3, <1>4 DEF GateInvariant

\* A root is accepted while nobody is under the gate.
LEMMA AcceptInvariant == ASSUME GateInvariant, AcceptRoot PROVE GateInvariant'
<1>1. /\ scan.pc = "idle" /\ upload.pc = "idle" /\ \A w \in Worker : worker[w].pc \notin Working
      /\ UNCHANGED <<mounted, jobs, scan, upload, worker>>
      /\ root'.generation = root.generation + 1 /\ root'.pending = TRUE
  BY DEF AcceptRoot, Shared, files
<1>2. Shapes' /\ RootsExist' /\ GateHeld'
  BY <1>1 DEF GateInvariant, Shapes, RootsExist, GateHeld
<1>3. JobsHeld'
  BY <1>1 DEF GateInvariant, JobsHeld, OfGenerations
<1> QED BY <1>2, <1>3 DEF GateInvariant

LEMMA GateInit == Init => GateInvariant
<1> SUFFICES ASSUME Init PROVE GateInvariant
  OBVIOUS
<1>1. Shapes
  BY NothingStarted DEF Init, Shapes
<1>2. RootsExist /\ GateHeld
  BY NothingStarted DEF Init, RootsExist, GateHeld, Working
<1>3. JobsHeld
  BY DEF Init, JobsHeld, OfGenerations
<1> QED BY <1>1, <1>2, <1>3 DEF GateInvariant

LEMMA GateStep == GateInvariant /\ [Next]_vars => GateInvariant'
<1> SUFFICES ASSUME GateInvariant, [Next]_vars PROVE GateInvariant'
  OBVIOUS
<1>1. ASSUME Keeps PROVE GateInvariant'
  BY <1>1, KeepsInvariant
<1>2. CASE ScanNext
  BY <1>1, <1>2, BeginInvariant, FinishInvariant, ScanStepKeeps DEF ScanNext
<1>3. CASE UploadNext
  BY <1>1, <1>3, BeginInvariant, UploadStepKeeps DEF UploadNext
<1>4. ASSUME NEW w \in Worker, WorkerNext(w) PROVE GateInvariant'
  BY <1>1, <1>4, BeginInvariant, WorkerStepKeeps DEF WorkerNext
<1>5. CASE Faults
  BY <1>1, <1>5, ScanStepKeeps, UploadStepKeeps, OtherStepKeeps, WorkerStepKeeps DEF Faults
<1>6. CASE AdminNext
  BY <1>1, <1>6, AcceptInvariant, OtherStepKeeps DEF AdminNext
<1>7. CASE RecoverClaims \/ Environment \/ UNCHANGED vars \/ \E l \in DOMAIN locs : Settle(l)
  BY <1>1, <1>7, OtherStepKeeps
<1> QED BY <1>2, <1>3, <1>4, <1>5, <1>6, <1>7 DEF Next

-----------------------------------------------------------------------------
(* Theorems.                                                               *)

\* The invariant of the transition gate of a Local media root.
THEOREM GateSound == Spec => []GateInvariant
BY GateInit, GateStep, PTL DEF Spec

\* Whoever works under the gate (acquireTrustedLocalMediaRoot, a scan) still
\* has the root, the generation and the pending reconciliation it began with.
THEOREM PromotionWaits == Spec => []GateHeld
<1>1. GateInvariant => GateHeld
  BY DEF GateInvariant
<1> QED BY <1>1, GateSound, PTL

\* After the reconciliation that an accepted root requires, the queue holds no
\* job of an older generation, and none arrives later.
THEOREM OldJobsGone == Spec => []CurrentJobs
<1>1. GateInvariant => CurrentJobs
  BY DEF GateInvariant, JobsHeld, OfGenerations, CurrentJobs
<1> QED BY <1>1, GateSound, PTL

-----------------------------------------------------------------------------
(* Rows, and what an observation of a file leaves of them.                 *)

\* Every value of the record of a scan.
ScanState ==
    [pc : {"idle", "walk", "mark", "bar", "dirs", "finish"}, begun : BOOLEAN,
     mode : {"quick", "reconciliation"},
     root : Root \cup {NoRoot}, gen : Nat, pending : BOOLEAN, prev : Root \cup {NoRoot},
     todo : SUBSET Dirs, list : SUBSET Path, seen : SUBSET Path, batch : SUBSET (Path \X File),
     found : BOOLEAN, checked : SUBSET Dirs, fresh : SUBSET Dirs, retry : SUBSET Dirs,
     blocked : SUBSET Dirs, missing : SUBSET Nat, barred : SUBSET Nat, touched : SUBSET Nat,
     calm : BOOLEAN, alone : BOOLEAN]
Asset == [visibility : {"none", "active", "permission_blocked", "missing"}, primary : Nat]
\* A worker that holds a claim, and one that relies on what it saw of the file.
Claiming == {"claimed", "hashing", "changed", "absent", "hashed"}
Seeing == {"hashing", "changed", "absent", "hashed"}

\* The rows: the row that became missing last is a row of its path, the identity of a row is
\* that of its file, and a path has one row that is not missing (the unique index of
\* local_asset_locations).
TablesOK ==
    /\ locs \in Seq(Location) /\ latest \in [Path -> Nat]
    /\ \A p \in Path : latest[p] # 0 => latest[p] \in DOMAIN locs /\ locs[latest[p]].path = p
    /\ \A l \in DOMAIN locs :
         /\ locs[l].asset \in {NoAsset, ContentOf[locs[l].file]}
         /\ locs[l].status = "discovered" => locs[l].asset = NoAsset
    /\ \A p \in Path : \A l, k \in Current(p) : l = k

\* Rowids are 1, 2, ..., and each has a row.
LEMMA Rowids ==
    ASSUME locs \in Seq(Location)
    PROVE  /\ DOMAIN locs = 1..Len(locs) /\ Len(locs) \in Nat /\ 0 \notin DOMAIN locs
           /\ \A l \in DOMAIN locs : locs[l] \in Location
OBVIOUS

\* Row l of path p after an observation of version f: no other row of p is shown, and an identity
\* is kept only if the version is the one it was computed from.
Observed(l, row, p, f) ==
    /\ row \in Location /\ row.path = p /\ row.file = f /\ row.status \in {"discovered", "active"}
    /\ l \in DOMAIN locs \/ l = Len(locs) + 1
    /\ l \in DOMAIN locs => locs[l].path = p
    /\ Current(p) \subseteq {l}
    /\ row.asset # NoAsset => /\ row.status = "active" /\ l \in DOMAIN locs /\ row.asset = locs[l].asset
                              /\ row.asset = ContentOf[f]

\* The row that an observation is compared with is the one of the path that is not missing, if any.
LEMMA ExistingRow ==
    ASSUME TablesOK, NEW p \in Path
    PROVE  /\ Existing(p) # 0 => Existing(p) \in DOMAIN locs /\ locs[Existing(p)].path = p
           /\ Current(p) \subseteq {Existing(p)}
           /\ Existing(p) # 0 /\ locs[Existing(p)].status # "missing" => Existing(p) \in Current(p)
           /\ Existing(p) = 0 \/ locs[Existing(p)].status = "missing" => Current(p) = {}
<1>1. CASE Current(p) # {}
  <2>1. Existing(p) \in Current(p)
    BY <1>1 DEF Existing
  <2>2. Existing(p) \in DOMAIN locs /\ locs[Existing(p)].path = p /\ locs[Existing(p)].status # "missing"
    BY <2>1 DEF Current
  <2> QED BY <2>1, <2>2, Rowids DEF TablesOK
<1>2. CASE Current(p) = {}
  <2>1. Existing(p) = latest[p]
    BY <1>2 DEF Existing
  <2> QED BY <1>2, <2>1 DEF TablesOK, Current
<1> QED BY <1>1, <1>2

\* An observation leaves such a row, which waits for metadata exactly if a job is asked for.
LEMMA UpsertRow ==
    ASSUME TablesOK, NEW p \in Path, NEW f \in File, NEW wait \in BOOLEAN
    PROVE  LET u == Upsert(p, f, wait)
           IN  /\ Observed(u.loc, u.row, p, f)
               /\ u.needs \in BOOLEAN /\ (u.needs <=> u.row.status = "discovered")
<1> DEFINE l == Existing(p)
           was == IF l = 0 THEN "none" ELSE locs[l].status
           same == l # 0 /\ locs[l].file = f
           u == Upsert(p, f, wait)
<1> SUFFICES /\ Observed(u.loc, u.row, p, f)
              /\ u.needs \in BOOLEAN /\ (u.needs <=> u.row.status = "discovered")
  OBVIOUS
<1>0. /\ l # 0 => /\ l \in DOMAIN locs /\ locs[l].path = p /\ locs[l] \in Location
                  /\ locs[l].asset \in {NoAsset, ContentOf[locs[l].file]}
                  /\ locs[l].status = "discovered" => locs[l].asset = NoAsset
      /\ Current(p) \subseteq {l}
      /\ was \in {"none", "missing"} => Current(p) = {}
      /\ was \in Status \cup {"none"} /\ (l = 0 <=> was = "none")
      /\ Len(locs) \in Nat /\ NoAsset \notin Content
  BY ExistingRow, Rowids, MediaAssumption DEF TablesOK, Location, Status
<1>1. /\ Discovered(p, f, wait) \in Location /\ Discovered(p, f, wait).path = p
      /\ Discovered(p, f, wait).file = f /\ Discovered(p, f, wait).status = "discovered"
      /\ Discovered(p, f, wait).asset = NoAsset
  BY DEF Discovered, Location, Status
<1>2. CASE same /\ was \in {"active", "discovered"}
  <2>1. u = [loc |-> l, row |-> locs[l], needs |-> was = "discovered"]
    BY <1>2 DEF Upsert
  <2>2. l # 0 /\ locs[l].file = f /\ locs[l].status = was
    BY <1>2
  <2> HIDE DEF l, u
  <2>3. u.loc = l /\ u.row = locs[l] /\ u.needs = (was = "discovered")
    BY <2>1
  <2> QED BY <1>0, <1>2, <2>2, <2>3 DEF Observed
<1>3. CASE same /\ was \in {"missing", "permission_blocked"} /\ locs[l].asset # NoAsset
  <2>1. u = [loc |-> l, row |-> [locs[l] EXCEPT !.status = "active"], needs |-> FALSE]
    BY <1>3 DEF Upsert
  <2>2. l # 0 /\ locs[l].file = f /\ locs[l].status = was
    BY <1>3
  <2> DEFINE row == [locs[l] EXCEPT !.status = "active"]
  <2>4. /\ row \in Location /\ row.path = p /\ row.file = f /\ row.status = "active"
        /\ row.asset = locs[l].asset
    BY <1>0, <2>2 DEF Location, Status
  <2> HIDE DEF l, u, row
  <2>3. u.loc = l /\ u.row = row /\ u.needs = FALSE
    BY <2>1 DEF row
  <2> QED BY <1>0, <1>3, <2>2, <2>3, <2>4 DEF Observed
<1>4. CASE /\ ~(same /\ was \in {"active", "discovered"})
           /\ ~(same /\ was \in {"missing", "permission_blocked"} /\ locs[l].asset # NoAsset)
           /\ l = 0 \/ (~same /\ was = "missing")
  <2>1. u = [loc |-> Len(locs) + 1, row |-> Discovered(p, f, wait), needs |-> TRUE]
    BY <1>4 DEF Upsert
  <2>2. was \in {"none", "missing"} /\ Len(locs) + 1 \notin DOMAIN locs
    BY <1>0, <1>4, Rowids DEF TablesOK
  <2> HIDE DEF l, u
  <2>3. u.loc = Len(locs) + 1 /\ u.row = Discovered(p, f, wait) /\ u.needs = TRUE
    BY <2>1
  <2> QED BY <1>0, <1>1, <2>2, <2>3 DEF Observed
<1>5. CASE /\ ~(same /\ was \in {"active", "discovered"})
           /\ ~(same /\ was \in {"missing", "permission_blocked"} /\ locs[l].asset # NoAsset)
           /\ ~(l = 0 \/ (~same /\ was = "missing"))
  <2>1. u = [loc |-> l, row |-> Discovered(p, f, wait), needs |-> TRUE]
    BY <1>5 DEF Upsert
  <2>2. l # 0
    BY <1>5
  <2> HIDE DEF l, u
  <2>3. u.loc = l /\ u.row = Discovered(p, f, wait) /\ u.needs = TRUE
    BY <2>1
  <2> QED BY <1>0, <1>1, <2>2, <2>3 DEF Observed
<1> HIDE DEF u, same, was, l
<1> QED BY <1>2, <1>3, <1>4, <1>5

-----------------------------------------------------------------------------
(* Transactions that write a row, or mark several.                         *)

\* What the writers of single rows have in common.
Recorded(l, row) ==
    /\ row \in Location
    /\ l \in DOMAIN locs \/ l = Len(locs) + 1
    /\ l \in DOMAIN locs => row.path = locs[l].path
    /\ row.asset \in {NoAsset, ContentOf[row.file]}
    /\ row.status = "discovered" => row.asset = NoAsset
    /\ row.status # "missing" => Current(row.path) \subseteq {l}
\* No transaction deletes a row or moves it to another path.
RowsStay ==
    /\ locs' \in Seq(Location) /\ DOMAIN locs \subseteq DOMAIN locs'
    /\ \A l \in DOMAIN locs : locs'[l].path = locs[l].path

\* A row is appended or replaced, and no other changes.
LEMMA StoredRows ==
    ASSUME locs \in Seq(Location), NEW l, NEW row \in Location, Store(l, row),
           l \in DOMAIN locs \/ l = Len(locs) + 1
    PROVE  /\ locs' \in Seq(Location) /\ DOMAIN locs' = DOMAIN locs \cup {l}
           /\ locs'[l] = row /\ \A k \in DOMAIN locs : k # l => locs'[k] = locs[k]
<1>1. CASE l > Len(locs)
  <2>1. l = Len(locs) + 1
    BY <1>1, Rowids
  <2> QED BY <1>1, <2>1, Rowids DEF Store
<1>2. CASE ~(l > Len(locs))
  <2>1. l \in DOMAIN locs
    BY <1>2, Rowids
  <2> QED BY <1>2, <2>1, Rowids DEF Store
<1> QED BY <1>1, <1>2

\* Writing one row keeps the tables.
LEMMA StoreTables ==
    ASSUME TablesOK, NEW l, NEW row, Recorded(l, row), Store(l, row),
           latest' = latest \/ (l \in DOMAIN locs /\ latest' = [latest EXCEPT ![row.path] = l])
    PROVE  TablesOK' /\ RowsStay
<1>0. /\ locs \in Seq(Location) /\ row \in Location /\ row.path \in Path
      /\ l \in DOMAIN locs \/ l = Len(locs) + 1
  BY DEF TablesOK, Recorded, Location
<1>1. /\ locs' \in Seq(Location) /\ DOMAIN locs' = DOMAIN locs \cup {l}
      /\ locs'[l] = row /\ \A k \in DOMAIN locs : k # l => locs'[k] = locs[k]
  BY <1>0, StoredRows
<1>2. RowsStay
  BY <1>1 DEF RowsStay, Recorded
<1>3. /\ latest' \in [Path -> Nat]
      /\ \A p \in Path : latest'[p] # 0 => latest'[p] \in DOMAIN locs' /\ locs'[latest'[p]].path = p
  <2>1. CASE latest' = latest
    BY <1>2, <2>1 DEF TablesOK, RowsStay
  <2>2. CASE l \in DOMAIN locs /\ latest' = [latest EXCEPT ![row.path] = l]
    <3>1. l \in Nat
      BY <1>0, <2>2, Rowids
    <3> QED BY <1>0, <1>1, <1>2, <2>2, <3>1 DEF TablesOK, RowsStay
  <2> QED BY <2>1, <2>2
<1>4. \A k \in DOMAIN locs' :
        /\ locs'[k].asset \in {NoAsset, ContentOf[locs'[k].file]}
        /\ locs'[k].status = "discovered" => locs'[k].asset = NoAsset
  BY <1>1 DEF TablesOK, Recorded
<1>5. \A p \in Path : \A j, k \in Current(p)' : j = k
  <2> SUFFICES ASSUME NEW p \in Path, NEW j \in Current(p)', NEW k \in Current(p)', j # k PROVE FALSE
    OBVIOUS
  <2>1. /\ j \in DOMAIN locs' /\ k \in DOMAIN locs' /\ locs'[j].path = p /\ locs'[k].path = p
        /\ locs'[j].status # "missing" /\ locs'[k].status # "missing"
    BY DEF Current
  <2>2. CASE j # l /\ k # l
    <3>1. j \in Current(p) /\ k \in Current(p)
      BY <1>1, <2>1, <2>2 DEF Current
    <3> QED BY <3>1 DEF TablesOK
  <2>3. CASE j = l
    <3>1. k \in Current(p) /\ row.path = p /\ row.status # "missing"
      BY <1>1, <2>1, <2>3 DEF Current
    <3> QED BY <2>3, <3>1 DEF Recorded
  <2>4. CASE k = l
    <3>1. j \in Current(p) /\ row.path = p /\ row.status # "missing"
      BY <1>1, <2>1, <2>4 DEF Current
    <3> QED BY <2>4, <3>1 DEF Recorded
  <2> QED BY <2>2, <2>3, <2>4
<1> QED BY <1>1, <1>2, <1>3, <1>4, <1>5 DEF TablesOK

\* The rows of a batch that are idle still take the status, and no other changes.
LEMMA MarkRows ==
    ASSUME TablesOK, NEW ids \in SUBSET DOMAIN locs, NEW status \in {"missing", "permission_blocked"},
           Mark(ids, status)
    PROVE  /\ locs' \in Seq(Location) /\ DOMAIN locs' = DOMAIN locs
           /\ \A l \in DOMAIN locs :
                IF l \in ids /\ Idle(l) THEN locs'[l] = [locs[l] EXCEPT !.status = status]
                ELSE locs'[l] = locs[l]
<1> DEFINE now == {l \in ids : Idle(l)}
<1>1. locs' = [l \in DOMAIN locs |->
                 IF l \in now THEN [locs[l] EXCEPT !.status = status] ELSE locs[l]]
  BY DEF Mark
<1>2. \A l \in DOMAIN locs : locs[l] \in Location /\ [locs[l] EXCEPT !.status = status] \in Location
  BY Rowids DEF TablesOK, Location, Status
<1>3. DOMAIN locs = 1..Len(locs) /\ Len(locs) \in Nat
  BY Rowids DEF TablesOK
<1>4. locs' \in Seq(Location)
  <2>1. \A l \in 1..Len(locs) : locs'[l] \in Location
    BY <1>1, <1>2, <1>3
  <2> HIDE DEF now
  <2> QED BY <1>1, <1>3, <2>1
<1> QED BY <1>1, <1>4

\* Marking rows keeps the tables.
LEMMA MarkTables ==
    ASSUME TablesOK, NEW ids \in SUBSET DOMAIN locs, NEW status \in {"missing", "permission_blocked"},
           Mark(ids, status)
    PROVE  TablesOK' /\ RowsStay
<1>1. /\ locs' \in Seq(Location) /\ DOMAIN locs' = DOMAIN locs
      /\ \A l \in DOMAIN locs :
            /\ locs'[l].path = locs[l].path /\ locs'[l].asset = locs[l].asset
            /\ locs'[l].file = locs[l].file
            /\ locs'[l].status = locs[l].status
               \/ (locs'[l].status = status /\ locs[l].status # "missing")
  <2>1. \A l \in DOMAIN locs : locs[l] \in Location
    BY Rowids DEF TablesOK
  <2> QED BY <2>1, MarkRows DEF Location, Idle
<1>2. latest' \in [Path -> Nat]
      /\ \A p \in Path : latest'[p] # 0 => latest'[p] \in DOMAIN locs' /\ locs'[latest'[p]].path = p
  <2> DEFINE now == {l \in ids : Idle(l)}
             mine(p) == {l \in now : locs[l].path = p}
  <2>1. latest' = IF status # "missing" THEN latest
                  ELSE [p \in Path |-> IF mine(p) = {} THEN latest[p] ELSE CHOOSE l \in mine(p) : TRUE]
    BY DEF Mark
  <2>2. \A p \in Path : mine(p) # {} =>
          LET l == CHOOSE l \in mine(p) : TRUE
          IN  l \in DOMAIN locs /\ locs[l].path = p /\ l \in Nat
    BY Rowids DEF TablesOK
  <2> HIDE DEF mine
  <2>3. \A p \in Path : /\ latest'[p] \in Nat
                        /\ latest'[p] # 0 => latest'[p] \in DOMAIN locs /\ locs[latest'[p]].path = p
    BY <2>1, <2>2 DEF TablesOK
  <2>4. latest' \in [Path -> Nat]
    BY <2>1, <2>3 DEF TablesOK
  <2> QED BY <1>1, <2>3, <2>4
<1>3. \A p \in Path : Current(p)' \subseteq Current(p)
  BY <1>1 DEF Current
<1> QED BY <1>1, <1>2, <1>3 DEF TablesOK, RowsStay

\* The settling period of a row ends, and nothing else.
LEMMA SettleTables ==
    ASSUME TablesOK, NEW i \in DOMAIN locs, Settle(i)
    PROVE  /\ TablesOK' /\ RowsStay /\ DOMAIN locs' = DOMAIN locs
           /\ \A l \in DOMAIN locs : /\ locs'[l].status = locs[l].status /\ locs'[l].asset = locs[l].asset
                                     /\ locs'[l].file = locs[l].file
<1>0. /\ locs' = [locs EXCEPT ![i].settling = FALSE] /\ latest' = latest
      /\ \A l \in DOMAIN locs : locs[l] \in Location
      /\ DOMAIN locs = 1..Len(locs) /\ Len(locs) \in Nat
  BY Rowids DEF Settle, TablesOK
<1>1. /\ DOMAIN locs' = DOMAIN locs
      /\ \A l \in DOMAIN locs :
            /\ locs'[l].path = locs[l].path /\ locs'[l].asset = locs[l].asset
            /\ locs'[l].file = locs[l].file /\ locs'[l].status = locs[l].status
            /\ locs'[l] \in Location
  BY <1>0 DEF Location
<1>2. locs' \in Seq(Location)
  <2>1. locs' \in [1..Len(locs) -> Location]
    BY <1>0, <1>1
  <2> QED BY <1>0, <2>1
<1>3. \A p \in Path : Current(p)' = Current(p)
  BY <1>1 DEF Current
<1> QED BY <1>0, <1>1, <1>2, <1>3 DEF TablesOK, RowsStay

-----------------------------------------------------------------------------
(* The other tables, and what the writers do to the row they write.        *)

\* A scan names rows that exist.
ScanOK ==
    /\ scan \in ScanState
    /\ scan.missing \subseteq DOMAIN locs /\ scan.barred \subseteq DOMAIN locs
    /\ scan.touched \subseteq DOMAIN locs
UploadOK == upload.pc = "opened" => upload.path \in Path /\ upload.file \in File
\* The worker's job, its row as it was read, and the version it saw.
WorkerState ==
    [pc : {"idle", "failing", "deferring"} \cup Working, job : Nat, loc : Nat, gen : Nat,
     snap : Location \cup {Unborn}, file : File \cup {NoFile}, root : Root \cup {NoRoot}]
\* Who holds a claim has a job and its row; who looks at the file has seen a version of it, or none.
WorkerOK(k) ==
    /\ k \in WorkerState
    /\ k.pc # "idle" => k.job # 0 /\ k.loc \in DOMAIN locs
    /\ k.pc \in Working => k.snap \in Location /\ k.snap.path = locs[k.loc].path
    /\ k.pc \in {"hashing", "hashed"} => k.file = k.snap.file
    /\ k.pc \in {"hashing", "changed", "hashed"} => k.file \in File
    /\ k.pc = "absent" => k.file = NoFile
    /\ k.pc \in Seeing => k.snap.status # "missing"
WorkersOK == worker \in [Worker -> WorkerState] /\ \A w \in Worker : WorkerOK(worker[w])
\* Each job is of a row in L.
JobTable(js, L) ==
    /\ js \in [DOMAIN js -> Job] /\ DOMAIN js \subseteq 1..MaxJob
    /\ \A j \in DOMAIN js : js[j].loc \in L
\* Files, root and ghosts.
WorldOK ==
    /\ disk \in [Root -> [Path -> File \cup {NoFile}]] /\ mounted \in Root
    /\ root \in [identity : Root \cup {NoRoot}, generation : Nat, pending : BOOLEAN]
    /\ clean \subseteq Dirs /\ steady \subseteq Path /\ stray \subseteq DOMAIN locs
    /\ stamped \subseteq Worker \cup {"upload"}
\* Every identity that a row has is an asset.
AssetsOK ==
    /\ assets \in [Content -> Asset]
    /\ \A l \in DOMAIN locs :
         locs[l].asset # NoAsset => assets[locs[l].asset].visibility # "none"
\* All of this.
Types == WorldOK /\ TablesOK /\ AssetsOK /\ ScanOK /\ UploadOK /\ WorkersOK /\ JobTable(jobs, DOMAIN locs)

\* The assets in C are those whose rows a step may have changed.
Covers(C, l, row) ==
    /\ row.asset # NoAsset => l \in DOMAIN locs /\ row.asset = locs[l].asset
    /\ l \in DOMAIN locs /\ locs[l].asset \in Content \ C =>
         row.asset = locs[l].asset /\ row.status = locs[l].status
\* A scan or an upload has written down row l: a row that waits has been queued for generation g,
\* and the assets that the row leaves or joins are recomputed.
Refreshed(l, row, g) ==
    /\ Recorded(l, row) /\ Store(l, row)
    /\ IF row.status = "discovered" THEN jobs' = Queue(jobs, l, g) /\ FreeJobs # {}
       ELSE jobs' = jobs \/ jobs' = Regenerate(jobs, l, g)
    /\ \E C \in SUBSET Content : Reassess(C, FALSE) /\ Covers(C, l, row)

\* The assets recomputed after an observation are those whose rows it may have changed.
LEMMA AffectedCovers ==
    ASSUME TablesOK, NEW u, NEW row, NEW p, NEW f, Observed(u.loc, u.row, p, f),
           row.asset = u.row.asset, row.status = u.row.status
    PROVE  Affected(u) \in SUBSET Content /\ Covers(Affected(u), u.loc, row)
<1>1. \A l \in DOMAIN locs : locs[l] \in Location /\ locs[l].asset \in Content \cup {NoAsset}
  BY Rowids DEF TablesOK, Location
<1>2. Affected(u) \in SUBSET Content
  BY <1>1 DEF Affected, AssetOf
<1>3. CASE u.loc \in DOMAIN locs /\ locs[u.loc].asset \in Content \ Affected(u)
  <2>1. u.row = locs[u.loc]
    BY <1>1, <1>3, MediaAssumption DEF Affected, AssetOf
  <2> QED BY <1>2, <2>1 DEF Covers, Observed
<1>4. CASE ~(u.loc \in DOMAIN locs /\ locs[u.loc].asset \in Content \ Affected(u))
  BY <1>2, <1>4 DEF Covers, Observed
<1> QED BY <1>3, <1>4

\* flushPendingPaths writes down one path.
LEMMA FlushEffect ==
    ASSUME TablesOK, NEW p \in Path, NEW f \in File, FlushPath(p, f)
    PROVE  \E l, row : /\ Observed(l, row, p, f) /\ Refreshed(l, row, scan.gen)
                       /\ scan' = [scan EXCEPT !.batch = @ \ {<<p, f>>}, !.touched = @ \cup {l}]
<1>1. PICK wait \in BOOLEAN : LET u == Upsert(p, f, wait)
         IN  /\ Store(u.loc, u.row)
             /\ u.needs => FreeJobs # {}
             /\ jobs' = IF u.needs THEN Queue(jobs, u.loc, scan.gen)
                        ELSE IF scan.pending THEN Regenerate(jobs, u.loc, scan.gen)
                        ELSE jobs
             /\ Reassess(Affected(u), FALSE)
             /\ scan' = [scan EXCEPT !.batch = @ \ {<<p, f>>}, !.touched = @ \cup {u.loc}]
  BY DEF FlushPath
<1> DEFINE u == Upsert(p, f, wait)
<1>2. /\ Observed(u.loc, u.row, p, f) /\ u.needs \in BOOLEAN
      /\ u.needs <=> u.row.status = "discovered"
  BY UpsertRow
<1> HIDE DEF u
<1>3. /\ Store(u.loc, u.row) /\ Reassess(Affected(u), FALSE)
      /\ IF u.needs THEN jobs' = Queue(jobs, u.loc, scan.gen) /\ FreeJobs # {}
         ELSE jobs' = jobs \/ jobs' = Regenerate(jobs, u.loc, scan.gen)
      /\ scan' = [scan EXCEPT !.batch = @ \ {<<p, f>>}, !.touched = @ \cup {u.loc}]
  BY <1>1 DEF u
<1>4. Affected(u) \in SUBSET Content /\ Covers(Affected(u), u.loc, u.row)
  BY <1>2, AffectedCovers
<1>5. Recorded(u.loc, u.row)
  BY <1>2 DEF Observed, Recorded
<1> QED BY <1>2, <1>3, <1>4, <1>5 DEF Refreshed

\* QueueCommittedLocalUpload writes down the file of the upload.
LEMMA UploadEffect ==
    ASSUME TablesOK, UploadOK, QueueUpload
    PROVE  \E l, row : /\ Observed(l, row, upload.path, upload.file)
                       /\ Refreshed(l, row, upload.gen) /\ Dates("upload", l)
<1> DEFINE u == Upsert(upload.path, upload.file, FALSE)
           row == IF u.needs THEN [u.row EXCEPT !.settling = FALSE] ELSE u.row
<1>0. upload.path \in Path /\ upload.file \in File
  BY DEF QueueUpload, UploadOK
<1>1. /\ Store(u.loc, row) /\ Reassess(Affected(u), FALSE)
      /\ IF u.needs THEN jobs' = Queue(jobs, u.loc, upload.gen) /\ FreeJobs # {} ELSE jobs' = jobs
      /\ Dates("upload", u.loc)
  BY DEF QueueUpload
<1>2. /\ Observed(u.loc, u.row, upload.path, upload.file) /\ u.needs \in BOOLEAN
      /\ u.needs <=> u.row.status = "discovered"
  BY <1>0, UpsertRow
<1> HIDE DEF u
<1>3. /\ row \in Location /\ row.path = u.row.path /\ row.file = u.row.file
      /\ row.status = u.row.status /\ row.asset = u.row.asset
  BY <1>2 DEF Observed, Location
<1> HIDE DEF row
<1>4. Affected(u) \in SUBSET Content /\ Covers(Affected(u), u.loc, row)
  BY <1>2, <1>3, AffectedCovers
<1>5. Observed(u.loc, row, upload.path, upload.file)
  BY <1>2, <1>3 DEF Observed
<1>6. Recorded(u.loc, row)
  BY <1>5 DEF Observed, Recorded
<1> QED BY <1>1, <1>2, <1>3, <1>4, <1>5, <1>6 DEF Refreshed

\* A registration makes the row active, or gives the job back.
RegisterRow(w) ==
    [locs[worker[w].loc] EXCEPT !.status = "active", !.asset = ContentOf[worker[w].file],
                                !.file = worker[w].file]

\* registerLocalMetadata makes the row active, with the identity of what was read.
LEMMA RegisterEffect ==
    ASSUME TablesOK, WorkersOK, NEW w \in Worker, Register(w), Eligible(w)
    PROVE  LET l == worker[w].loc
               row == RegisterRow(w)
           IN  /\ Recorded(l, row) /\ Store(l, row) /\ l \in DOMAIN locs
               /\ row.path = locs[l].path /\ row.file = worker[w].file /\ row.status = "active"
               /\ row.asset = ContentOf[row.file] /\ row.asset \in Content
               /\ locs[l].asset \in {NoAsset, row.asset} /\ locs[l].status # "missing"
<1> DEFINE k == worker[w]
           l == k.loc
           row == [locs[l] EXCEPT !.status = "active", !.asset = ContentOf[k.file], !.file = k.file]
<1>0. Store(l, row) /\ k.pc = "hashed"
  BY DEF Register
<1>1. /\ l \in DOMAIN locs /\ locs[l] \in Location
      /\ k.file \in File /\ k.snap.file = k.file /\ k.snap.status # "missing"
  BY <1>0, Rowids DEF WorkersOK, WorkerOK, Working, Seeing, TablesOK
<1>2. locs[l].status = k.snap.status /\ locs[l].file = k.file
  BY <1>1 DEF Eligible
<1>3. /\ row \in Location /\ row.path = locs[l].path /\ row.file = k.file /\ row.status = "active"
      /\ row.asset = ContentOf[k.file] /\ row.asset \in Content /\ row.asset # NoAsset
  <2> DEFINE c == ContentOf[k.file]
             given == locs[l]
  <2>1. c \in Content /\ c # NoAsset
    BY <1>1, MediaAssumption
  <2>2. given \in Location
    BY <1>1
  <2>3. row = [given EXCEPT !.status = "active", !.asset = c, !.file = k.file]
    OBVIOUS
  <2> HIDE DEF c, given, row
  <2>4. /\ row \in Location /\ row.path = given.path /\ row.file = k.file /\ row.status = "active"
        /\ row.asset = c
    BY <1>1, <2>1, <2>2, <2>3 DEF Location, Status
  <2> QED BY <2>1, <2>4 DEF c, given
<1>4. locs[l].asset \in {NoAsset, row.asset} /\ locs[l].status # "missing"
  BY <1>1, <1>2, <1>3 DEF TablesOK
<1>5. Current(row.path) \subseteq {l}
  <2>1. l \in Current(row.path) /\ row.path \in Path
    BY <1>1, <1>3, <1>4 DEF Current, Location
  <2> QED BY <2>1 DEF TablesOK
<1> HIDE DEF row
<1>6. Recorded(l, row)
  BY <1>1, <1>3, <1>5 DEF Recorded
<1> QED BY <1>0, <1>1, <1>3, <1>4, <1>6 DEF row, RegisterRow

\* resettleLocalMetadataJob writes the row again, or is refused by the unique index.
LEMMA ResettleEffect ==
    ASSUME TablesOK, WorkersOK, NEW w \in Worker, Resettle(w)
    PROVE  LET l == worker[w].loc
               row == Discovered(worker[w].snap.path, worker[w].file, TRUE)
           IN  /\ l \in DOMAIN locs /\ worker[w].snap.path = locs[l].path
               /\ worker[w].snap.path \in Path /\ worker[w].file \in File
               /\ row.status = "discovered" /\ row.asset = NoAsset
               /\ row.path = locs[l].path /\ row.file = worker[w].file
               /\ \/ /\ Recorded(l, row) /\ Store(l, row) /\ Reassess(Content, TRUE)
                     /\ jobs' = Requeue(jobs, {worker[w].job}) /\ Dates(w, l) /\ Rests(w)
                  \/ Unwinds(w, "failing") /\ UNCHANGED <<locs, steady, stray, assets, jobs, scan>>
<1> DEFINE k == worker[w]
           row == Discovered(k.snap.path, k.file, TRUE)
<1>1. /\ k.loc \in DOMAIN locs /\ k.snap \in Location /\ k.snap.path = locs[k.loc].path
      /\ k.file \in File /\ k.snap.path \in Path
  BY DEF Resettle, WorkersOK, WorkerOK, Working, Location
<1>2. /\ row \in Location /\ row.path = k.snap.path /\ row.file = k.file
      /\ row.status = "discovered" /\ row.asset = NoAsset
  BY <1>1 DEF Discovered, Location, Status
<1>3. \/ /\ Current(k.snap.path) \subseteq {k.loc} /\ Store(k.loc, row) /\ Reassess(Content, TRUE)
         /\ jobs' = Requeue(jobs, {k.job}) /\ Dates(w, k.loc) /\ Rests(w)
      \/ Unwinds(w, "failing") /\ UNCHANGED <<locs, steady, stray, assets, jobs, scan>>
  BY DEF Resettle, history
<1> HIDE DEF row
<1>4. Current(k.snap.path) \subseteq {k.loc} => Recorded(k.loc, row)
  BY <1>1, <1>2 DEF Recorded
<1> QED BY <1>1, <1>2, <1>3, <1>4 DEF row

AbsentRow(w) == [locs[worker[w].loc] EXCEPT !.status = "missing"]

\* markLocalLocationMissing marks the row that the worker holds.
LEMMA AbsentEffect ==
    ASSUME TablesOK, WorkersOK, NEW w \in Worker, MarkAbsent(w)
    PROVE  LET l == worker[w].loc
               row == AbsentRow(w)
           IN  /\ l \in DOMAIN locs /\ Recorded(l, row) /\ Store(l, row) /\ Reassess(Content, TRUE)
               /\ row.path = locs[l].path /\ row.path = worker[w].snap.path /\ row.path \in Path
               /\ row.status = "missing" /\ row.asset = locs[l].asset
               /\ worker[w].file = NoFile
               /\ latest' = latest \/ latest' = [latest EXCEPT ![row.path] = l]
<1> DEFINE k == worker[w]
           row == [locs[k.loc] EXCEPT !.status = "missing"]
<1>1. /\ k.loc \in DOMAIN locs /\ k.snap \in Location /\ k.snap.path = locs[k.loc].path
      /\ locs[k.loc] \in Location /\ k.file = NoFile
  BY Rowids DEF MarkAbsent, WorkersOK, WorkerOK, Working, TablesOK
<1>2. /\ row \in Location /\ row.path = locs[k.loc].path /\ row.file = locs[k.loc].file
      /\ row.status = "missing" /\ row.asset = locs[k.loc].asset /\ row.path \in Path
  BY <1>1 DEF Location, Status
<1>3. /\ Store(k.loc, row) /\ Reassess(Content, TRUE)
      /\ latest' = latest \/ latest' = [latest EXCEPT ![k.snap.path] = k.loc]
  BY DEF MarkAbsent
<1> HIDE DEF row
<1>4. Recorded(k.loc, row)
  BY <1>1, <1>2 DEF Recorded, TablesOK
<1> QED BY <1>1, <1>2, <1>3, <1>4 DEF row, AbsentRow

-----------------------------------------------------------------------------
(* Assets: whoever changes rows recomputes the assets they belong to.      *)

\* No row has an identity that it did not have before.
Inherits ==
    \A l \in DOMAIN locs' : locs'[l].asset # NoAsset =>
        l \in DOMAIN locs /\ locs[l].asset = locs'[l].asset
\* Rows of other assets than those in C stay as they are.
Spares(C) ==
    \A l \in DOMAIN locs : locs[l].asset \in Content \ C =>
        l \in DOMAIN locs' /\ locs'[l].asset = locs[l].asset /\ locs'[l].status = locs[l].status
Showing == AssetsOK /\ VisibleIfHeld

\* Recomputing the assets C makes the tables agree again if only rows of C have changed.
LEMMA ReassessKeeps ==
    ASSUME TablesOK, Showing, locs' \in Seq(Location), NEW C \in SUBSET Content, NEW keep \in BOOLEAN,
           Reassess(C, keep), Inherits, Spares(C)
    PROVE  Showing'
<1>1. PICK pick \in [C -> 0..Len(locs')] :
        /\ \A c \in C : pick[c] \in Primaries(locs', c, keep)
        /\ assets' = [c \in Content |->
             IF c \in C /\ assets[c].visibility # "none"
             THEN [visibility |-> Visibility(locs', c), primary |-> pick[c]] ELSE assets[c]]
  BY DEF Reassess
<1>2. /\ Len(locs') \in Nat /\ \A c \in Content : assets[c] \in Asset
      /\ \A c \in C : pick[c] \in Nat
      /\ \A c \in Content : Visibility(locs', c) \in {"active", "permission_blocked", "missing"}
      /\ DOMAIN locs' = 1..Len(locs')
      /\ \A l \in DOMAIN locs : locs[l].asset \in Content \cup {NoAsset}
      /\ \A l \in DOMAIN locs' : locs'[l].asset \in Content \cup {NoAsset}
  <2>1. \A l \in DOMAIN locs : locs[l] \in Location
    BY Rowids DEF TablesOK
  <2>2. \A l \in DOMAIN locs' : locs'[l] \in Location
    OBVIOUS
  <2>3. \A c \in C : pick[c] \in Nat
    BY <1>1
  <2> QED BY <2>1, <2>2, <2>3 DEF Showing, AssetsOK, Visibility, Location
<1>3. \A c \in Content : assets'[c] \in Asset
                          /\ (assets[c].visibility # "none" <=> assets'[c].visibility # "none")
  <2> SUFFICES ASSUME NEW c \in Content
               PROVE  /\ assets'[c] \in Asset
                      /\ (assets[c].visibility # "none" <=> assets'[c].visibility # "none")
    OBVIOUS
  <2>1. CASE c \in C /\ assets[c].visibility # "none"
    <3>1. assets'[c] = [visibility |-> Visibility(locs', c), primary |-> pick[c]]
      BY <1>1, <2>1
    <3> QED BY <1>2, <2>1, <3>1 DEF Asset
  <2>2. CASE ~(c \in C /\ assets[c].visibility # "none")
    BY <1>1, <1>2, <2>2
  <2> QED BY <2>1, <2>2
<1>4. AssetsOK'
  <2>1. assets' \in [Content -> Asset]
    BY <1>1, <1>3
  <2> QED BY <1>2, <1>3, <2>1 DEF Inherits, Showing, AssetsOK
<1>5. VisibleIfHeld'
  <2> DEFINE Shows(a, ls, c) ==
               /\ IF a[c].visibility = "active" THEN a[c].primary \in Holders(ls, c, "active")
                  ELSE a[c].primary = 0 /\ Holders(ls, c, "active") = {}
               /\ a[c].visibility = "permission_blocked" <=>
                     Holders(ls, c, "active") = {} /\ Holders(ls, c, "permission_blocked") # {}
  <2>0. \A c \in Content : Shows(assets, locs, c)
    BY DEF Showing, VisibleIfHeld
  <2> SUFFICES ASSUME NEW c \in Content PROVE Shows(assets', locs', c)
    BY DEF VisibleIfHeld
  <2>1. CASE c \in C /\ assets[c].visibility # "none"
    <3>1. /\ assets'[c].visibility = Visibility(locs', c) /\ assets'[c].primary = pick[c]
          /\ pick[c] \in Primaries(locs', c, keep)
      BY <1>1, <2>1
    <3> QED BY <3>1 DEF Visibility, Primaries
  <2>2. CASE c \notin C
    <3>1. assets'[c] = assets[c]
      BY <1>1, <2>2
    <3>2. \A s : Holders(locs', c, s) = Holders(locs, c, s)
      BY <2>2, MediaAssumption DEF Holders, Inherits, Spares
    <3> QED BY <2>0, <3>1, <3>2
  <2>3. CASE assets[c].visibility = "none"
    <3>1. assets'[c] = assets[c]
      BY <1>1, <2>3
    <3>2. \A s : Holders(locs', c, s) = {} /\ Holders(locs, c, s) = {}
      BY <2>3, MediaAssumption DEF Holders, Inherits, Showing, AssetsOK
    <3> QED BY <2>0, <3>1, <3>2
  <2> QED BY <2>1, <2>2, <2>3
<1> QED BY <1>4, <1>5 DEF Showing

\* An observation leaves every asset shown as its rows demand.
LEMMA RefreshedShows ==
    ASSUME TablesOK, Showing, NEW l, NEW row, NEW g, Refreshed(l, row, g), latest' = latest
    PROVE  Showing' /\ TablesOK' /\ RowsStay
<1>1. PICK C \in SUBSET Content : Reassess(C, FALSE) /\ Covers(C, l, row)
  BY DEF Refreshed
<1>2. TablesOK' /\ RowsStay
  BY StoreTables DEF Refreshed
<1>3. /\ locs' \in Seq(Location) /\ DOMAIN locs' = DOMAIN locs \cup {l}
      /\ locs'[l] = row /\ \A k \in DOMAIN locs : k # l => locs'[k] = locs[k]
  <2>1. Recorded(l, row) /\ Store(l, row)
    BY DEF Refreshed
  <2>2. locs \in Seq(Location) /\ row \in Location /\ (l \in DOMAIN locs \/ l = Len(locs) + 1)
    BY <2>1 DEF Recorded, TablesOK
  <2> QED BY <2>1, <2>2, StoredRows
<1>4. Inherits /\ Spares(C)
  BY <1>1, <1>3 DEF Covers, Inherits, Spares
<1> QED BY <1>1, <1>2, <1>3, <1>4, ReassessKeeps

\* A step that recomputes everything.
LEMMA RecordedShows ==
    ASSUME TablesOK, Showing, NEW l, NEW row, Recorded(l, row), Store(l, row), Reassess(Content, TRUE),
           l \in DOMAIN locs, row.asset \in {NoAsset, locs[l].asset}
    PROVE  Showing'
<1>1. locs \in Seq(Location) /\ row \in Location
  BY DEF Recorded, TablesOK
<1>2. /\ locs' \in Seq(Location) /\ DOMAIN locs' = DOMAIN locs \cup {l}
      /\ locs'[l] = row /\ \A k \in DOMAIN locs : k # l => locs'[k] = locs[k]
  BY <1>1, StoredRows
<1>3. Inherits /\ Spares(Content)
  BY <1>2 DEF Inherits, Spares
<1> QED BY <1>2, <1>3, ReassessKeeps

\* A batch of rows becomes missing or blocked: so do the assets that have no other row.
LEMMA MarkShows ==
    ASSUME TablesOK, Showing, NEW ids \in SUBSET DOMAIN locs,
           NEW status \in {"missing", "permission_blocked"}, Mark(ids, status)
    PROVE  Showing'
<1> DEFINE now == {l \in ids : Idle(l)}
           lost == UNION {AssetOf(l) : l \in now}
<1>1. Reassess(lost, FALSE)
  BY DEF Mark
<1>2. \A l \in DOMAIN locs : locs[l] \in Location
  BY Rowids DEF TablesOK
<1>3. /\ locs' \in Seq(Location) /\ DOMAIN locs' = DOMAIN locs
      /\ \A l \in DOMAIN locs : locs'[l].asset = locs[l].asset
      /\ \A l \in DOMAIN locs : l \notin now => locs'[l] = locs[l]
  BY <1>2, MarkRows DEF Location
<1>4. lost \in SUBSET Content /\ \A l \in now : locs[l].asset \in lost \cup {NoAsset}
  BY <1>2 DEF AssetOf, Location
<1> HIDE DEF lost, now
<1>5. Inherits /\ Spares(lost)
  BY <1>3, <1>4, MediaAssumption DEF Inherits, Spares
<1> QED BY <1>1, <1>3, <1>4, <1>5, ReassessKeeps

\* A registration shows its asset.
LEMMA RegisterShows ==
    ASSUME TablesOK, WorkersOK, Showing, NEW w \in Worker, Register(w), Eligible(w)
    PROVE  Showing'
<1> DEFINE l == worker[w].loc
           row == RegisterRow(w)
           c == ContentOf[worker[w].file]
<1>1. /\ Recorded(l, row) /\ Store(l, row) /\ l \in DOMAIN locs
      /\ row.status = "active" /\ row.asset = c /\ c \in Content
      /\ locs[l].asset \in {NoAsset, c}
  BY RegisterEffect
<1>2. assets' = [assets EXCEPT ![c] = [visibility |-> "active",
                    primary |-> IF assets[c].primary = 0 THEN l ELSE assets[c].primary]]
  BY DEF Register
<1>0. assets \in [Content -> Asset] /\ l \in Nat /\ l # 0
  BY <1>1, Rowids DEF Showing, AssetsOK, TablesOK
<1> HIDE DEF l, row, c
<1>3. /\ locs' \in Seq(Location) /\ DOMAIN locs' = DOMAIN locs
      /\ locs'[l] = row /\ \A k \in DOMAIN locs : k # l => locs'[k] = locs[k]
  <2>1. locs \in Seq(Location) /\ row \in Location /\ (l \in DOMAIN locs \/ l = Len(locs) + 1)
    BY <1>1 DEF Recorded, TablesOK
  <2> QED BY <1>1, <2>1, StoredRows
<1>4. /\ assets' \in [Content -> Asset]
      /\ \A d \in Content : assets[d].visibility # "none" => assets'[d].visibility # "none"
      /\ assets'[c].visibility = "active"
      /\ assets'[c].primary = IF assets[c].primary = 0 THEN l ELSE assets[c].primary
      /\ \A d \in Content \ {c} : assets'[d] = assets[d]
  BY <1>0, <1>1, <1>2 DEF Asset
<1>5. \A k \in DOMAIN locs : locs[k].asset \in Content \cup {NoAsset}
  BY Rowids DEF TablesOK, Location
<1>6. AssetsOK'
  <2> SUFFICES ASSUME NEW k \in DOMAIN locs, locs'[k].asset # NoAsset
               PROVE  assets'[locs'[k].asset].visibility # "none"
    BY <1>3, <1>4 DEF AssetsOK
  <2>1. CASE k = l
    BY <1>1, <1>3, <1>4, <2>1
  <2>2. CASE k # l
    BY <1>3, <1>4, <1>5, <2>2 DEF Showing, AssetsOK
  <2> QED BY <2>1, <2>2
<1>7. VisibleIfHeld'
  <2> DEFINE Shows(a, ls, d) ==
               /\ IF a[d].visibility = "active" THEN a[d].primary \in Holders(ls, d, "active")
                  ELSE a[d].primary = 0 /\ Holders(ls, d, "active") = {}
               /\ a[d].visibility = "permission_blocked" <=>
                     Holders(ls, d, "active") = {} /\ Holders(ls, d, "permission_blocked") # {}
  <2>0. \A d \in Content : Shows(assets, locs, d)
    BY DEF Showing, VisibleIfHeld
  <2> SUFFICES ASSUME NEW d \in Content PROVE Shows(assets', locs', d)
    BY DEF VisibleIfHeld
  <2>1. CASE d = c
    <3>1. l \in Holders(locs', c, "active")
      BY <1>1, <1>3 DEF Holders
    <3>2. assets[c].primary # 0 => assets[c].primary \in Holders(locs, c, "active")
      BY <1>1, <2>0
    <3>3. Holders(locs, c, "active") \subseteq Holders(locs', c, "active")
      BY <1>1, <1>3 DEF Holders
    <3> QED BY <1>4, <2>1, <3>1, <3>2, <3>3
  <2>2. CASE d # c
    <3>1. \A s : Holders(locs', d, s) = Holders(locs, d, s)
      BY <1>1, <1>3, <2>2, MediaAssumption DEF Holders
    <3> QED BY <1>4, <2>0, <2>2, <3>1
  <2> QED BY <2>1, <2>2
<1> QED BY <1>6, <1>7 DEF Showing

\* Rows keep identity and status, and assets are as they were.
LEMMA SameShows ==
    ASSUME TablesOK, Showing, assets' = assets, locs' \in Seq(Location), DOMAIN locs' = DOMAIN locs,
           \A l \in DOMAIN locs : locs'[l].status = locs[l].status /\ locs'[l].asset = locs[l].asset
    PROVE  Showing'
<1>1. \A c \in Content : \A s : Holders(locs', c, s) = Holders(locs, c, s)
  BY DEF Holders
<1>2. AssetsOK'
  BY DEF Showing, AssetsOK
<1>3. VisibleIfHeld'
  BY <1>1 DEF Showing, VisibleIfHeld
<1> QED BY <1>2, <1>3 DEF Showing

-----------------------------------------------------------------------------
(* Every step either is one of the writers or leaves the rows alone.       *)

\* The steps that write rows.
RowWriters ==
    \/ \E e \in scan.batch : FlushPath(e[1], e[2])
    \/ MarkMissing \/ MarkBlocked \/ FinishScan \/ QueueUpload
    \/ \E w \in Worker : (Register(w) /\ Eligible(w)) \/ Resettle(w) \/ MarkAbsent(w)
    \/ \E l \in DOMAIN locs : Settle(l)

\* The ghosts follow the files, and the one worker whose job is dropped.
Noted ==
    \/ UNCHANGED <<steady, stray>>
    \/ Environment \/ StartScan \/ \E w \in Worker : DropMissing(w)

\* No other step writes a row.
LEMMA RowCases ==
    ASSUME [Next]_vars
    PROVE  RowWriters \/ (UNCHANGED <<locs, latest, assets>> /\ Noted)
<1>1. CASE ScanNext
  BY <1>1 DEF ScanNext, RowWriters, BeginScan, StartScan, RefuseScan, EnterDirectory, VisitFile, FindMissing,
     SaveDirectories, catalog, history, Noted
<1>2. CASE UploadNext
  BY <1>2 DEF UploadNext, RowWriters, OpenUpload, catalog, history, Noted
<1>3. ASSUME NEW w \in Worker, WorkerNext(w) PROVE RowWriters \/ (UNCHANGED <<locs, latest, assets>> /\ Noted)
  <2>1. CASE Register(w)
    BY <2>1 DEF Register, RowWriters, history, Noted
  <2>2. CASE ~Register(w)
    BY <1>3, <2>2 DEF WorkerNext, RowWriters, StartJob, Claim, DropMissing, OpenFile, HashFile, FailJob,
       DeferClaim, catalog, history, Noted
  <2> QED BY <2>1, <2>2
<1>4. CASE Faults
  BY <1>4 DEF Faults, AbortScan, UploadFails, Restart, Break, catalog, history, Noted
<1>5. CASE AdminNext
  BY <1>5 DEF AdminNext, AcceptRoot, RequeueFailed, RepairMetadata, history, Noted
<1>6. CASE RecoverClaims \/ Environment \/ UNCHANGED vars
  BY <1>6 DEF RecoverClaims, Environment, ChangeFile, Mount, vars, history, Noted
<1>7. CASE \E l \in DOMAIN locs : Settle(l)
  BY <1>7 DEF RowWriters
<1> QED BY <1>1, <1>2, <1>3, <1>4, <1>5, <1>6, <1>7 DEF Next

\* What a scan has read is a path with a version.
LEMMA BatchEntry ==
    ASSUME ScanOK, NEW e \in scan.batch
    PROVE  e[1] \in Path /\ e[2] \in File /\ e = <<e[1], e[2]>>
BY DEF ScanOK, ScanState

\* Every step keeps the rows, and assets shown as the rows demand.
LEMMA RowsStep ==
    ASSUME Types, VisibleIfHeld, [Next]_vars
    PROVE  TablesOK' /\ RowsStay /\ Showing'
<1>0. TablesOK /\ Showing /\ ScanOK /\ UploadOK /\ WorkersOK
  BY DEF Types, Showing
<1>1. CASE UNCHANGED <<locs, latest, assets>>
  <2>1. RowsStay /\ TablesOK'
    BY <1>0, <1>1 DEF TablesOK, Current, RowsStay
  <2>2. Showing'
    BY <1>0, <1>1 DEF Showing, AssetsOK, VisibleIfHeld, Holders
  <2> QED BY <2>1, <2>2
<1>2. ASSUME NEW e \in scan.batch, FlushPath(e[1], e[2]) PROVE TablesOK' /\ RowsStay /\ Showing'
  <2>1. latest' = latest
    BY <1>2 DEF FlushPath
  <2>2. PICK l, row : Refreshed(l, row, scan.gen)
    BY <1>0, <1>2, BatchEntry, FlushEffect
  <2> QED BY <1>0, <2>1, <2>2, RefreshedShows
<1>3. CASE QueueUpload
  <2>1. latest' = latest
    BY <1>3 DEF QueueUpload
  <2>2. PICK l, row : Refreshed(l, row, upload.gen)
    BY <1>0, <1>3, UploadEffect
  <2> QED BY <1>0, <2>1, <2>2, RefreshedShows
<1>4. CASE MarkMissing \/ MarkBlocked
  <2>1. \E ids \in SUBSET DOMAIN locs, status \in {"missing", "permission_blocked"} : Mark(ids, status)
    BY <1>0, <1>4 DEF MarkMissing, MarkBlocked, ScanOK
  <2> QED BY <1>0, <2>1, MarkTables, MarkShows
<1>5. CASE FinishScan
  <2>1. locs' = locs /\ latest' = latest /\ (assets' = assets \/ Reassess(Content, TRUE))
    BY <1>5 DEF FinishScan
  <2>2. RowsStay /\ TablesOK'
    BY <1>0, <2>1 DEF TablesOK, Current, RowsStay
  <2>3. CASE assets' = assets
    BY <1>1, <2>1, <2>3
  <2>4. CASE Reassess(Content, TRUE)
    <3>1. locs' \in Seq(Location) /\ Inherits /\ Spares(Content)
      BY <1>0, <2>1 DEF TablesOK, Inherits, Spares
    <3> QED BY <1>0, <2>2, <2>4, <3>1, ReassessKeeps
  <2> QED BY <2>1, <2>2, <2>3, <2>4
<1>6. ASSUME NEW w \in Worker, Register(w), Eligible(w) PROVE TablesOK' /\ RowsStay /\ Showing'
  <2>1. latest' = latest
    BY <1>6 DEF Register
  <2>2. PICK l, row : Recorded(l, row) /\ Store(l, row)
    BY <1>0, <1>6, RegisterEffect
  <2>3. TablesOK' /\ RowsStay
    BY <1>0, <2>1, <2>2, StoreTables
  <2> QED BY <1>0, <1>6, <2>3, RegisterShows
<1>7. ASSUME NEW w \in Worker, Resettle(w) PROVE TablesOK' /\ RowsStay /\ Showing'
  <2>1. latest' = latest
    BY <1>7 DEF Resettle
  <2> DEFINE l == worker[w].loc
             row == Discovered(worker[w].snap.path, worker[w].file, TRUE)
  <2>2. /\ l \in DOMAIN locs /\ row.asset = NoAsset
        /\ \/ Recorded(l, row) /\ Store(l, row) /\ Reassess(Content, TRUE)
           \/ UNCHANGED <<locs, assets>>
    BY <1>0, <1>7, ResettleEffect
  <2> HIDE DEF l, row
  <2>3. CASE Recorded(l, row) /\ Store(l, row) /\ Reassess(Content, TRUE)
    <3>1. TablesOK' /\ RowsStay
      BY <1>0, <2>1, <2>3, StoreTables
    <3> QED BY <1>0, <2>2, <2>3, <3>1, RecordedShows
  <2>4. CASE UNCHANGED <<locs, assets>>
    BY <1>1, <2>1, <2>4
  <2> QED BY <2>2, <2>3, <2>4
<1>8. ASSUME NEW w \in Worker, MarkAbsent(w) PROVE TablesOK' /\ RowsStay /\ Showing'
  <2> DEFINE l == worker[w].loc
             row == AbsentRow(w)
  <2>1. /\ l \in DOMAIN locs /\ Recorded(l, row) /\ Store(l, row) /\ Reassess(Content, TRUE)
        /\ row.asset = locs[l].asset
        /\ latest' = latest \/ latest' = [latest EXCEPT ![row.path] = l]
    BY <1>0, <1>8, AbsentEffect
  <2> HIDE DEF l, row
  <2>2. TablesOK' /\ RowsStay
    BY <1>0, <2>1, StoreTables
  <2> QED BY <1>0, <2>1, <2>2, RecordedShows
<1>9. ASSUME NEW l \in DOMAIN locs, Settle(l) PROVE TablesOK' /\ RowsStay /\ Showing'
  <2>1. /\ TablesOK' /\ RowsStay /\ DOMAIN locs' = DOMAIN locs /\ assets' = assets
        /\ \A k \in DOMAIN locs : locs'[k].status = locs[k].status /\ locs'[k].asset = locs[k].asset
    BY <1>0, <1>9, SettleTables DEF Settle
  <2>2. locs' \in Seq(Location)
    BY <2>1 DEF RowsStay
  <2> QED BY <1>0, <2>1, <2>2, SameShows
<1> QED BY <1>1, <1>2, <1>3, <1>4, <1>5, <1>6, <1>7, <1>8, <1>9, RowCases DEF RowWriters

-----------------------------------------------------------------------------
(* Jobs: what each operation on the table keeps of it.                     *)

\* What a transaction does to the table of jobs: no job changes its row, new
\* jobs take free ids.
Evolves(js, ks, L) ==
    /\ ks \in [DOMAIN ks -> Job] /\ DOMAIN ks \subseteq 1..MaxJob
    /\ \A j \in DOMAIN ks : IF j \in DOMAIN js THEN ks[j].loc = js[j].loc
                            ELSE j \in FreeJobs /\ ks[j].loc \in L
\* Jobs that are not in own keep their status.
Spared(js, ks, own) ==
    \A j \in DOMAIN js \ own : js[j].status = "running" => j \in DOMAIN ks /\ ks[j] = js[j]
\* No row has two jobs of one generation to be done.
LiveOnce(js) ==
    \A i, j \in DOMAIN js :
        (js[i].loc = js[j].loc /\ js[i].status # "failed" /\ js[j].status # "failed") => i = j
\* Row l has a job of generation g.
Serves(js, l, g) == \E j \in DOMAIN js : js[j].loc = l /\ js[j].gen = g

\* What has evolved is a table of jobs.
LEMMA EvolvedTable ==
    ASSUME NEW js, NEW ks, NEW L, NEW M, JobTable(js, M), Evolves(js, ks, L), M \subseteq L
    PROVE  JobTable(ks, L)
BY DEF JobTable, Evolves

\* Two operations after one another.
LEMMA EvolvesOn ==
    ASSUME NEW js, NEW L, Evolves(jobs, js, L), NEW ks, NEW M, Evolves(js, ks, M), L \subseteq M
    PROVE  Evolves(jobs, ks, M)
BY DEF Evolves, FreeJobs

\* Two operations after one another.
LEMMA SparedOn ==
    ASSUME NEW js, NEW ks, NEW ms, NEW own, Spared(js, ks, own), Spared(ks, ms, own)
    PROVE  Spared(js, ms, own)
BY DEF Spared

\* Deleting jobs.
LEMMA WithoutJobs ==
    ASSUME NEW js, NEW M, JobTable(js, M), NEW gone
    PROVE  /\ Evolves(js, Without(js, gone), {})
           /\ LiveOnce(js) => LiveOnce(Without(js, gone))
           /\ DOMAIN Without(js, gone) = DOMAIN js \ gone
           /\ \A j \in DOMAIN js \ gone : Without(js, gone)[j] = js[j]
BY DEF JobTable, Evolves, LiveOnce, Without

\* Queueing running or failed jobs again.
LEMMA RequeueJobs ==
    ASSUME NEW js, NEW M, JobTable(js, M), NEW back
    PROVE  /\ Evolves(js, Requeue(js, back), {})
           /\ \A own : back \cap {j \in DOMAIN js : js[j].status = "running"} \subseteq own
                         => Spared(js, Requeue(js, back), own)
           /\ \A l, g : Serves(js, l, g) => Serves(Requeue(js, back), l, g)
           /\ DOMAIN Requeue(js, back) = DOMAIN js
           /\ \A j \in DOMAIN js :
                /\ Requeue(js, back)[j].loc = js[j].loc /\ Requeue(js, back)[j].gen = js[j].gen
                /\ IF j \in back THEN Requeue(js, back)[j].status = "queued"
                   ELSE Requeue(js, back)[j] = js[j]
<1> DEFINE ks == Requeue(js, back)
<1>1. DOMAIN ks = DOMAIN js
  BY DEF Requeue
<1>2. \A j \in DOMAIN js : js[j] \in Job
  BY DEF JobTable
<1>3. \A j \in DOMAIN js :
         /\ ks[j] \in Job /\ ks[j].loc = js[j].loc /\ ks[j].gen = js[j].gen
         /\ IF j \in back THEN ks[j].status = "queued" ELSE ks[j] = js[j]
  BY <1>2 DEF Requeue, Job
<1> SUFFICES /\ Evolves(js, ks, {})
             /\ \A own : back \cap {j \in DOMAIN js : js[j].status = "running"} \subseteq own
                         => Spared(js, ks, own)
             /\ \A l, g : Serves(js, l, g) => Serves(ks, l, g)
  BY <1>1, <1>3
<1>4. ks \in [DOMAIN ks -> Job]
  <2>1. ks = [j \in DOMAIN js |-> ks[j]]
    BY DEF Requeue
  <2> QED BY <1>1, <1>3, <2>1
<1> HIDE DEF ks
<1> QED BY <1>1, <1>3, <1>4 DEF JobTable, Evolves, Spared, Serves

\* Giving the queued jobs of a row the present generation.
LEMMA RegenerateJobs ==
    ASSUME NEW js, NEW M, JobTable(js, M), NEW l, NEW g \in Nat
    PROVE  /\ Evolves(js, Regenerate(js, l, g), {})
           /\ Spared(js, Regenerate(js, l, g), {})
           /\ \A k : Serves(js, k, g) => Serves(Regenerate(js, l, g), k, g)
           /\ LiveOnce(js) => LiveOnce(Regenerate(js, l, g))
           /\ \A j \in DOMAIN js : js[j].loc = l /\ js[j].status = "queued"
                                     => Serves(Regenerate(js, l, g), l, g)
<1> DEFINE ks == Regenerate(js, l, g)
<1>1. DOMAIN ks = DOMAIN js
  BY DEF Regenerate
<1>2. \A j \in DOMAIN js : js[j] \in Job
  BY DEF JobTable
<1>3. \A j \in DOMAIN js :
         /\ ks[j] \in Job /\ ks[j].loc = js[j].loc /\ ks[j].status = js[j].status
         /\ IF js[j].loc = l /\ js[j].status = "queued" THEN ks[j].gen = g ELSE ks[j] = js[j]
  BY <1>2 DEF Regenerate, Job
<1>4. ks \in [DOMAIN ks -> Job]
  <2>1. ks = [j \in DOMAIN js |-> ks[j]]
    BY DEF Regenerate
  <2> QED BY <1>1, <1>3, <2>1
<1> HIDE DEF ks
<1>5. /\ Evolves(js, ks, {}) /\ Spared(js, ks, {})
      /\ \A k : Serves(js, k, g) => Serves(ks, k, g)
      /\ LiveOnce(js) => LiveOnce(ks)
      /\ \A j \in DOMAIN js : js[j].loc = l /\ js[j].status = "queued" => Serves(ks, l, g)
  BY <1>1, <1>3, <1>4 DEF JobTable, Evolves, Spared, Serves, LiveOnce
<1> QED BY <1>5 DEF ks

\* A set of numbers that is not empty has a least element.
LEMMA Least ==
    ASSUME NEW S \in SUBSET Nat, S # {}
    PROVE  \E x \in S : \A y \in S : x <= y
<1> DEFINE R == OpToRel(<, Nat)
<1>1. PICK x \in S : \A y \in S : ~(<<y, x>> \in R)
  BY WFMin, NatLessThanWellFounded, Zenon
<1>2. \A m, n \in Nat : m < n => <<m, n>> \in R
  BY Zenon DEF OpToRel
<1> HIDE DEF R
<1>3. ASSUME NEW y \in S PROVE x <= y
  <2>1. x \in Nat /\ y \in Nat
    OBVIOUS
  <2>2. ~(y < x)
    BY <1>1, <1>2, <2>1, Zenon
  <2> QED BY <2>1, <2>2
<1> QED BY <1>3

\* A new job takes the least free number.
LEMMA LeastFree ==
    ASSUME FreeJobs # {}
    PROVE  (CHOOSE j \in FreeJobs : \A k \in FreeJobs : j <= k) \in FreeJobs
<1>1. FreeJobs \in SUBSET Nat
  BY DEF FreeJobs
<1>2. \E x \in FreeJobs : \A y \in FreeJobs : x <= y
  BY <1>1, Least
<1> QED BY <1>2

\* The latest of some jobs is one of them.
LEMMA LatestJob ==
    ASSUME NEW J \in SUBSET (1..MaxJob)
    PROVE  /\ Latest(J) \subseteq J
           /\ \A i, j \in Latest(J) : i = j
           /\ J # {} => Latest(J) # {}
<1>1. CASE J = {}
  BY <1>1 DEF Latest
<1>2. CASE J # {}
  <2> DEFINE S == {MaxJob - j : j \in J}
  <2>0. \A j \in J : MaxJob - j \in Nat
    BY BoundAssumption
  <2>1. S \in SUBSET Nat /\ S # {}
    BY <1>2, <2>0
  <2>2. PICK x \in S : \A y \in S : x <= y
    BY <2>1, Least
  <2>3. PICK j \in J : x = MaxJob - j
    OBVIOUS
  <2>4. ASSUME NEW k \in J PROVE k <= j
    <3>1. x <= MaxJob - k
      BY <2>2
    <3> QED BY <2>3, <3>1, BoundAssumption
  <2>5. (CHOOSE i \in J : \A k \in J : k <= i) \in J
    BY <2>4
  <2> HIDE DEF S
  <2> QED BY <1>2, <2>5 DEF Latest
<1> QED BY <1>1, <1>2

\* Inserting a job.
LEMMA InsertJobs ==
    ASSUME NEW js, NEW M, JobTable(js, M), NEW l \in Nat, NEW g \in Nat, FreeJobs # {},
           DOMAIN js \cap FreeJobs = {}
    PROVE  /\ Evolves(js, Insert(js, l, g), {l})
           /\ Spared(js, Insert(js, l, g), {})
           /\ \A k, h : Serves(js, k, h) => Serves(Insert(js, l, g), k, h)
           /\ LiveOnce(js) /\ (\A j \in DOMAIN js : js[j].loc = l => js[j].status = "failed")
                => LiveOnce(Insert(js, l, g))
           /\ Serves(Insert(js, l, g), l, g)
<1> DEFINE new == CHOOSE j \in FreeJobs : \A k \in FreeJobs : j <= k
           job == [loc |-> l, gen |-> g, status |-> "queued"]
           ks == Insert(js, l, g)
<1>1. new \in FreeJobs
  BY LeastFree
<1>2. ks = [j \in DOMAIN js \cup {new} |-> IF j = new THEN job ELSE js[j]]
  BY DEF Insert
<1>3. job \in Job /\ job.loc = l /\ job.gen = g /\ job.status = "queued"
  BY DEF Job
<1> HIDE DEF new, job, ks
<1>4. /\ DOMAIN ks = DOMAIN js \cup {new} /\ new \notin DOMAIN js /\ ks[new] = job
      /\ \A j \in DOMAIN js : ks[j] = js[j]
  BY <1>1, <1>2
<1>5. ks \in [DOMAIN ks -> Job] /\ DOMAIN ks \subseteq 1..MaxJob
  BY <1>1, <1>2, <1>3, <1>4 DEF JobTable, FreeJobs
<1>6. /\ Evolves(js, ks, {l}) /\ Spared(js, ks, {})
      /\ \A k, h : Serves(js, k, h) => Serves(ks, k, h)
      /\ Serves(ks, l, g)
  BY <1>1, <1>3, <1>4, <1>5 DEF Evolves, Spared, Serves
<1>7. LiveOnce(js) /\ (\A j \in DOMAIN js : js[j].loc = l => js[j].status = "failed") => LiveOnce(ks)
  <2> SUFFICES ASSUME LiveOnce(js), \A j \in DOMAIN js : js[j].loc = l => js[j].status = "failed",
                      NEW i \in DOMAIN ks, NEW j \in DOMAIN ks, ks[i].loc = ks[j].loc,
                      ks[i].status # "failed", ks[j].status # "failed"
               PROVE  i = j
    BY DEF LiveOnce
  <2>1. CASE i \in DOMAIN js /\ j \in DOMAIN js
    BY <1>4, <2>1 DEF LiveOnce
  <2>2. CASE i \notin DOMAIN js \/ j \notin DOMAIN js
    <3>1. i = new \/ j = new
      BY <1>4, <2>2
    <3> QED BY <1>3, <1>4, <3>1
  <2> QED BY <2>1, <2>2
<1> QED BY <1>6, <1>7 DEF ks

\* Queueing row l leaves a job of generation g, and none of another row is touched.
LEMMA QueueJobs ==
    ASSUME JobTable(jobs, DOMAIN locs), NEW l \in Nat, NEW g \in Nat, FreeJobs # {}
    PROVE  /\ Evolves(jobs, Queue(jobs, l, g), {l})
           /\ Spared(jobs, Queue(jobs, l, g), {})
           /\ \A k : Serves(jobs, k, g) => Serves(Queue(jobs, l, g), k, g)
           /\ LiveOnce(jobs) /\ (\A j \in DOMAIN jobs : jobs[j].gen = g)
                => LiveOnce(Queue(jobs, l, g))
           /\ Serves(Queue(jobs, l, g), l, g)
<1>0. DOMAIN jobs \cap FreeJobs = {} /\ \A j \in DOMAIN jobs : jobs[j] \in Job
  BY DEF FreeJobs, JobTable
<1>1. CASE \E j \in DOMAIN jobs : jobs[j].loc = l /\ jobs[j].status = "queued"
  <2>1. Queue(jobs, l, g) = Regenerate(jobs, l, g)
    BY <1>1 DEF Queue
  <2>2. Evolves(jobs, Regenerate(jobs, l, g), {l})
    BY RegenerateJobs DEF Evolves
  <2> QED BY <1>1, <2>1, <2>2, RegenerateJobs
<1>2. CASE /\ ~(\E j \in DOMAIN jobs : jobs[j].loc = l /\ jobs[j].status = "queued")
           /\ Jobs(jobs, l, g, {"running"}) # {}
  <2>1. Queue(jobs, l, g) = jobs
    BY <1>2 DEF Queue
  <2>2. Serves(jobs, l, g)
    BY <1>2 DEF Jobs, Serves
  <2> QED BY <2>1, <2>2 DEF Evolves, Spared, JobTable
<1>3. CASE /\ ~(\E j \in DOMAIN jobs : jobs[j].loc = l /\ jobs[j].status = "queued")
           /\ Jobs(jobs, l, g, {"running"}) = {}
  <2>1. Queue(jobs, l, g) = Insert(jobs, l, g)
    BY <1>3 DEF Queue
  <2>2. (\A j \in DOMAIN jobs : jobs[j].gen = g)
           => \A j \in DOMAIN jobs : jobs[j].loc = l => jobs[j].status = "failed"
    BY <1>0, <1>3 DEF Jobs, Job
  <2> QED BY <1>0, <2>1, <2>2, InsertJobs
<1> QED BY <1>1, <1>2, <1>3

\* requeueFailedLocalMetadataJobsInTx queues a job only of rows that have none to be done, and
\* deletes failed ones only of rows that have one.
LEMMA ReopenJobs ==
    ASSUME NEW js, NEW M, JobTable(js, M), NEW X, root.generation \in Nat
    PROVE  /\ Evolves(js, Reopen(js, X), {})
           /\ Spared(js, Reopen(js, X), {})
           /\ \A l : Serves(js, l, root.generation) => Serves(Reopen(js, X), l, root.generation)
           /\ LiveOnce(js) /\ OfGenerations(js, {root.generation}) => LiveOnce(Reopen(js, X))
<1> DEFINE g == root.generation
           job(l, status) == Jobs(js, l, root.generation, {status})
           rows == {l \in DOMAIN locs : locs[l].asset \notin X /\ job(l, "failed") # {}}
           back(l) == IF job(l, "running") # {} THEN {}
                      ELSE IF job(l, "queued") # {} THEN Latest(job(l, "queued"))
                      ELSE Latest(job(l, "failed"))
           again == UNION {back(l) : l \in rows}
           now == Requeue(js, again)
           gone == UNION {Jobs(now, l, root.generation, {"failed"}) :
                            l \in {k \in rows : Live(now, k) # {}}}
           ks == Without(now, gone)
<1>1. Reopen(js, X) = ks
  BY DEF Reopen
<1>2. \A l, s : job(l, s) \in SUBSET (1..MaxJob)
  BY DEF Jobs, JobTable
<1>3. ASSUME NEW l, NEW j \in back(l)
      PROVE  /\ job(l, "running") = {}
             /\ j \in job(l, "queued") \/ (j \in job(l, "failed") /\ job(l, "queued") = {})
  <2>1. job(l, "running") = {} /\ back(l) = IF job(l, "queued") # {} THEN Latest(job(l, "queued"))
                                            ELSE Latest(job(l, "failed"))
    OBVIOUS
  <2> HIDE DEF back, job
  <2> QED BY <1>2, <2>1, LatestJob
<1>4. \A l : \A i, j \in back(l) : i = j
  BY <1>2, LatestJob
<1>5. \A j \in gone : /\ j \in DOMAIN now /\ now[j].status = "failed"
                      /\ Live(now, now[j].loc) # {}
  BY DEF Jobs
<1>6. \A j \in again : /\ j \in DOMAIN js /\ js[j].status \in {"queued", "failed"}
                       /\ js[j].gen = g /\ j \in back(js[j].loc)
                       /\ js[j].status = "failed" =>
                            job(js[j].loc, "running") = {} /\ job(js[j].loc, "queued") = {}
  <2> SUFFICES ASSUME NEW j \in again
               PROVE  /\ j \in DOMAIN js /\ js[j].status \in {"queued", "failed"}
                      /\ js[j].gen = g /\ j \in back(js[j].loc)
                      /\ js[j].status = "failed" =>
                            job(js[j].loc, "running") = {} /\ job(js[j].loc, "queued") = {}
    OBVIOUS
  <2>1. PICK l \in rows : j \in back(l)
    OBVIOUS
  <2> HIDE DEF back, rows, again
  <2>2. /\ job(l, "running") = {}
        /\ j \in job(l, "queued") \/ (j \in job(l, "failed") /\ job(l, "queued") = {})
    BY <1>3, <2>1
  <2>3. \A s : j \in job(l, s) => j \in DOMAIN js /\ js[j].loc = l /\ js[j].gen = g /\ js[j].status = s
    BY DEF Jobs
  <2> HIDE DEF job
  <2> QED BY <2>1, <2>2, <2>3
<1>7. \A j \in DOMAIN js : js[j] \in Job
  BY DEF JobTable
<1> HIDE DEF rows, back, again, gone
<1>8. /\ Evolves(js, now, {}) /\ Spared(js, now, {}) /\ DOMAIN now = DOMAIN js
      /\ \A l : Serves(js, l, g) => Serves(now, l, g)
      /\ \A j \in DOMAIN js : /\ now[j].loc = js[j].loc /\ now[j].gen = js[j].gen
                              /\ IF j \in again THEN now[j].status = "queued" ELSE now[j] = js[j]
  BY <1>6, RequeueJobs
<1>9. JobTable(now, M)
  BY <1>8 DEF JobTable, Evolves
<1> HIDE DEF now
<1>10. /\ Evolves(now, ks, {}) /\ (LiveOnce(now) => LiveOnce(ks))
       /\ DOMAIN ks = DOMAIN now \ gone /\ \A j \in DOMAIN now \ gone : ks[j] = now[j]
  BY <1>9, WithoutJobs
<1> HIDE DEF ks
<1>11. Evolves(js, ks, {})
  <2>1. /\ ks \in [DOMAIN ks -> Job] /\ DOMAIN ks \subseteq 1..MaxJob
        /\ \A j \in DOMAIN ks : j \in DOMAIN now /\ ks[j].loc = now[j].loc
    BY <1>10 DEF Evolves
  <2> QED BY <1>8, <2>1 DEF Evolves
<1>12. Spared(js, ks, {})
  <2>1. Spared(now, ks, {})
    BY <1>5, <1>10 DEF Spared
  <2> QED BY <1>8, <2>1, SparedOn
<1>13. ASSUME NEW l, Serves(js, l, g) PROVE Serves(ks, l, g)
  <2>1. PICK j \in DOMAIN now : now[j].loc = l /\ now[j].gen = g
    BY <1>8, <1>13 DEF Serves
  <2>2. CASE j \in gone
    <3>1. PICK k \in DOMAIN now : now[k].loc = l /\ now[k].gen = g /\ now[k].status # "failed"
      BY <1>5, <2>1, <2>2 DEF Live, Jobs
    <3>2. k \notin gone
      BY <1>5, <3>1
    <3> QED BY <1>10, <3>1, <3>2 DEF Serves
  <2>3. CASE j \notin gone
    BY <1>10, <2>1, <2>3 DEF Serves
  <2> QED BY <2>2, <2>3
<1>14. ASSUME LiveOnce(js), OfGenerations(js, {g}) PROVE LiveOnce(ks)
  <2> SUFFICES ASSUME NEW i \in DOMAIN now, NEW j \in DOMAIN now, now[i].loc = now[j].loc,
                      now[i].status # "failed", now[j].status # "failed", i # j
               PROVE  FALSE
    BY <1>10 DEF LiveOnce
  <2>0. /\ i \in DOMAIN js /\ j \in DOMAIN js /\ js[i].loc = js[j].loc
        /\ js[i].gen = g /\ js[j].gen = g
    BY <1>8, <1>14 DEF OfGenerations
  <2>1. \A m, n \in {i, j} : m # n /\ js[m].status = "failed" => FALSE
    <3> SUFFICES ASSUME NEW m \in {i, j}, NEW n \in {i, j}, m # n, js[m].status = "failed"
                 PROVE  FALSE
      OBVIOUS
    <3>1. m \in again
      BY <1>8, <2>0
    <3>2. job(js[m].loc, "running") = {} /\ job(js[m].loc, "queued") = {} /\ m \in back(js[m].loc)
      BY <1>6, <3>1
    <3>3. js[n].status = "failed"
      BY <1>7, <2>0, <3>2 DEF Jobs, Job
    <3>4. n \in again
      BY <1>8, <2>0, <3>3
    <3>5. n \in back(js[m].loc)
      BY <1>6, <2>0, <3>4
    <3> QED BY <1>4, <3>2, <3>5
  <2> QED BY <1>14, <2>0, <2>1 DEF LiveOnce
<1>15. /\ Evolves(js, ks, {}) /\ Spared(js, ks, {})
       /\ \A l : Serves(js, l, g) => Serves(ks, l, g)
       /\ LiveOnce(js) /\ OfGenerations(js, {g}) => LiveOnce(ks)
  BY <1>11, <1>12, <1>13, <1>14
<1> HIDE DEF job
<1> QED BY <1>1, <1>15

\* The jobs that a repair inserts.
LEMMA InsertedFor ==
    ASSUME NEW js, NEW M, JobTable(js, M), DOMAIN js \cap FreeJobs = {}, root.generation \in Nat,
           NEW D, NEW id \in [D -> FreeJobs], \A c, k \in D : id[c] = id[k] => c = k,
           NEW L \in SUBSET Nat, \A c \in D : Target(c) \in L
    PROVE  /\ Evolves(js, InsertFor(js, id), L) /\ Spared(js, InsertFor(js, id), {})
           /\ \A j \in DOMAIN InsertFor(js, id) : j \in DOMAIN js \/ \E c \in D : j = id[c]
           /\ \A j \in DOMAIN js : /\ j \in DOMAIN InsertFor(js, id)
                                   /\ InsertFor(js, id)[j] = js[j]
           /\ \A c \in D : /\ InsertFor(js, id)[id[c]].loc = Target(c)
                           /\ InsertFor(js, id)[id[c]].gen = root.generation
<1> DEFINE new == {id[c] : c \in D}
           job(c) == [loc |-> Target(c), gen |-> root.generation, status |-> "queued"]
           ks == InsertFor(js, id)
<1>1. DOMAIN id = D
  OBVIOUS
<1>2. ks = [j \in DOMAIN js \cup new |->
              IF j \notin new THEN js[j] ELSE job(CHOOSE c \in D : id[c] = j)]
  BY <1>1 DEF InsertFor
<1>3. \A c \in D : (CHOOSE k \in D : id[k] = id[c]) = c
  OBVIOUS
<1>4. \A c \in D : job(c) \in Job /\ job(c).loc = Target(c) /\ job(c).gen = root.generation
  BY DEF Job
<1>5. new \subseteq FreeJobs /\ new \cap DOMAIN js = {} /\ new \subseteq 1..MaxJob
  BY DEF FreeJobs
<1>6. \A c \in D : id[c] \in new
  OBVIOUS
<1>7. \A j \in new : \E c \in D : j = id[c]
  OBVIOUS
<1> HIDE DEF new, job, ks
<1>8. /\ DOMAIN ks = DOMAIN js \cup new
      /\ \A j \in DOMAIN js : ks[j] = js[j]
      /\ \A c \in D : ks[id[c]] = job(c)
  BY <1>2, <1>3, <1>5, <1>6
<1>9. \A j \in DOMAIN ks : ks[j] \in Job
  BY <1>4, <1>7, <1>8 DEF JobTable
<1>10. ks \in [DOMAIN ks -> Job] /\ DOMAIN ks \subseteq 1..MaxJob
  BY <1>2, <1>5, <1>8, <1>9 DEF JobTable
<1>11. \A j \in new : ks[j].loc \in L
  BY <1>4, <1>7, <1>8
<1>12. Evolves(js, ks, L) /\ Spared(js, ks, {})
  BY <1>5, <1>8, <1>10, <1>11 DEF Evolves, Spared
<1>13. /\ \A j \in DOMAIN ks : j \in DOMAIN js \/ \E c \in D : j = id[c]
       /\ \A j \in DOMAIN js : j \in DOMAIN ks /\ ks[j] = js[j]
       /\ \A c \in D : ks[id[c]].loc = Target(c) /\ ks[id[c]].gen = root.generation
  BY <1>4, <1>7, <1>8
<1> QED BY <1>12, <1>13 DEF ks

\* An asset that is shown is served by one of its rows.
LEMMA TargetRow ==
    ASSUME TablesOK, VisibleIfHeld, NEW c \in Content, assets[c].visibility = "active"
    PROVE  Target(c) \in DOMAIN locs /\ Target(c) \in Nat /\ locs[Target(c)].asset = c
<1>1. assets[c].primary \in Holders(locs, c, "active")
  BY DEF VisibleIfHeld
<1>2. Target(c) = assets[c].primary
  BY <1>1 DEF Target
<1> QED BY <1>1, <1>2, Rowids DEF Holders, TablesOK

\* RepairLocalMetadata leaves a row at most one job, and loses none that serves a row.
LEMMA RepairJobs ==
    ASSUME TablesOK, VisibleIfHeld, JobTable(jobs, DOMAIN locs), root.generation \in Nat,
           NEW C \in SUBSET Content, NEW X \in SUBSET Content, RepairMetadata(C, X)
    PROVE  /\ Evolves(jobs, jobs', DOMAIN locs)
           /\ Spared(jobs, jobs', {})
           /\ \A l \in DOMAIN locs : locs[l].asset = NoAsset /\ Serves(jobs, l, root.generation)
                => Serves(jobs', l, root.generation)
           /\ LiveOnce(jobs) /\ OfGenerations(jobs, {root.generation}) => LiveOnce(jobs')
<1> DEFINE g == root.generation
           again == {c \in WithoutJob(C) : Failures(c) # {}}
           back == UNION {Latest(Failures(c)) : c \in again}
           js == Requeue(jobs, back)
           D == WithoutJob(C) \ again
<1>0. \A j \in DOMAIN jobs : jobs[j] \in Job
  BY DEF JobTable
<1>1. PICK id \in [D -> FreeJobs] :
        /\ \A c, k \in D : id[c] = id[k] => c = k
        /\ jobs' = Reopen(Without(InsertFor(js, id), FailuresOf(InsertFor(js, id), C)), X)
  BY DEF RepairMetadata
<1> DEFINE all == InsertFor(js, id)
           cut == Without(all, FailuresOf(all, C))
<1>2. \A c \in WithoutJob(C) : Target(c) \in DOMAIN locs /\ Target(c) \in Nat /\ locs[Target(c)].asset = c
  BY TargetRow DEF RepairMetadata, WithoutJob
<1>3. \A c : Failures(c) \in SUBSET (1..MaxJob)
  BY DEF Failures, Jobs, JobTable
<1>4. \A j \in back : \E c \in again : j \in Latest(Failures(c)) /\ j \in Failures(c)
  BY <1>3, LatestJob
<1>5. \A c : \A i, j \in Latest(Failures(c)) : i = j
  BY <1>3, LatestJob
<1>6. \A c : \A j \in Failures(c) : j \in DOMAIN jobs /\ jobs[j].loc = Target(c) /\ jobs[j].gen = g
                                    /\ jobs[j].status = "failed"
  BY DEF Failures, Jobs
<1>7. \A c \in WithoutJob(C) : \A l \in DOMAIN locs : locs[l].asset = c => Live(jobs, l) = {}
  BY DEF WithoutJob
<1>8. again \subseteq WithoutJob(C) /\ D = WithoutJob(C) \ again
  OBVIOUS
<1> HIDE DEF again, back, D, js, all, cut
<1>9. /\ Evolves(jobs, js, {}) /\ Spared(jobs, js, {}) /\ DOMAIN js = DOMAIN jobs
      /\ \A l : Serves(jobs, l, g) => Serves(js, l, g)
      /\ \A j \in DOMAIN jobs : /\ js[j].loc = jobs[j].loc /\ js[j].gen = jobs[j].gen
                                /\ IF j \in back THEN js[j].status = "queued" ELSE js[j] = jobs[j]
  BY <1>4, <1>6, RequeueJobs DEF js
<1>10. JobTable(js, DOMAIN locs)
  <2>1. Evolves(jobs, js, DOMAIN locs)
    BY <1>9 DEF Evolves
  <2> QED BY <2>1, EvolvedTable
<1>11. /\ Evolves(js, all, DOMAIN locs) /\ Spared(js, all, {})
       /\ \A j \in DOMAIN all : j \in DOMAIN js \/ \E c \in D : j = id[c]
       /\ \A j \in DOMAIN js : j \in DOMAIN all /\ all[j] = js[j]
       /\ \A c \in D : all[id[c]].loc = Target(c) /\ all[id[c]].gen = g
  <2>1. DOMAIN js \cap FreeJobs = {}
    BY <1>9 DEF FreeJobs
  <2>2. \A c \in D : Target(c) \in DOMAIN locs
    BY <1>2, <1>8
  <2>3. id \in [D -> FreeJobs] /\ \A c, k \in D : id[c] = id[k] => c = k
    BY <1>1
  <2>4. DOMAIN locs \in SUBSET Nat
    BY Rowids DEF TablesOK
  <2> QED BY <1>10, <2>1, <2>2, <2>3, <2>4, InsertedFor DEF all
<1>12. JobTable(all, DOMAIN locs) /\ Evolves(jobs, all, DOMAIN locs) /\ Spared(jobs, all, {})
  <2>1. Evolves(jobs, all, DOMAIN locs)
    BY <1>9, <1>11, EvolvesOn
  <2> QED BY <1>9, <1>10, <1>11, <2>1, EvolvedTable, SparedOn
<1>13. /\ Evolves(all, cut, {}) /\ (LiveOnce(all) => LiveOnce(cut))
       /\ DOMAIN cut = DOMAIN all \ FailuresOf(all, C)
       /\ \A j \in DOMAIN all \ FailuresOf(all, C) : cut[j] = all[j]
  BY <1>12, WithoutJobs DEF cut
<1>14. JobTable(cut, DOMAIN locs) /\ Evolves(jobs, cut, DOMAIN locs) /\ Spared(jobs, cut, {})
  <2>1. Evolves(all, cut, DOMAIN locs)
    BY <1>13 DEF Evolves
  <2>2. Spared(all, cut, {})
    BY <1>13 DEF Spared, FailuresOf
  <2>3. Evolves(jobs, cut, DOMAIN locs)
    BY <1>12, <2>1, EvolvesOn
  <2> QED BY <1>12, <2>1, <2>2, <2>3, EvolvedTable, SparedOn
<1>15. jobs' = Reopen(cut, X)
  BY <1>1 DEF all, cut
<1>16. /\ Evolves(cut, Reopen(cut, X), {}) /\ Spared(cut, Reopen(cut, X), {})
       /\ \A l : Serves(cut, l, g) => Serves(Reopen(cut, X), l, g)
       /\ LiveOnce(cut) /\ OfGenerations(cut, {g}) => LiveOnce(Reopen(cut, X))
  BY <1>14, ReopenJobs
<1>17. Evolves(jobs, jobs', DOMAIN locs) /\ Spared(jobs, jobs', {})
  <2>1. Evolves(cut, jobs', DOMAIN locs)
    BY <1>15, <1>16 DEF Evolves
  <2> QED BY <1>14, <1>15, <1>16, <2>1, EvolvesOn, SparedOn
<1>18. ASSUME NEW l \in DOMAIN locs, locs[l].asset = NoAsset, Serves(jobs, l, g)
       PROVE  Serves(jobs', l, g)
  <2>1. PICK j \in DOMAIN js : js[j].loc = l /\ js[j].gen = g
    BY <1>9, <1>18 DEF Serves
  <2>2. j \in DOMAIN all /\ all[j] = js[j]
    BY <1>11
  <2>3. j \notin FailuresOf(all, C)
    BY <1>18, <2>1, <2>2, MediaAssumption DEF FailuresOf
  <2>4. Serves(cut, l, g)
    BY <1>13, <2>1, <2>2, <2>3 DEF Serves
  <2> QED BY <1>15, <1>16, <2>4
<1>19. ASSUME LiveOnce(jobs), OfGenerations(jobs, {g}) PROVE LiveOnce(jobs')
  <2>1. \A j \in DOMAIN jobs : jobs[j].gen = g
    BY <1>19 DEF OfGenerations
  <2>2. \A c \in WithoutJob(C) : \A j \in DOMAIN jobs :
           jobs[j].loc = Target(c) => jobs[j].status = "failed"
    BY <1>0, <1>2, <1>7, <2>1 DEF Live, Jobs, Job
  <2>3. \A j \in back : \E c \in again : /\ j \in DOMAIN jobs /\ jobs[j].loc = Target(c)
                                          /\ jobs[j].status = "failed" /\ j \in Latest(Failures(c))
    BY <1>4, <1>6
  <2>4. \A b, c \in WithoutJob(C) : Target(b) = Target(c) => b = c
    BY <1>2
  <2>5. LiveOnce(js)
    <3> SUFFICES ASSUME NEW i \in DOMAIN jobs, NEW j \in DOMAIN jobs, jobs[i].loc = jobs[j].loc,
                        js[i].status # "failed", js[j].status # "failed", i # j
                 PROVE  FALSE
      BY <1>9 DEF LiveOnce
    <3>1. \A m, n \in {i, j} : m # n /\ m \in back => FALSE
      <4> SUFFICES ASSUME NEW m \in {i, j}, NEW n \in {i, j}, m # n, m \in back PROVE FALSE
        OBVIOUS
      <4>1. PICK c \in again : jobs[m].loc = Target(c) /\ m \in Latest(Failures(c))
        BY <2>3
      <4>2. jobs[n].status = "failed"
        BY <1>8, <2>2, <4>1
      <4>3. n \in back
        BY <1>9, <4>2
      <4>4. PICK d \in again : jobs[n].loc = Target(d) /\ n \in Latest(Failures(d))
        BY <2>3, <4>3
      <4>5. c = d
        BY <1>8, <2>4, <4>1, <4>4
      <4> QED BY <1>5, <4>1, <4>4, <4>5
    <3>2. js[i] = jobs[i] /\ js[j] = jobs[j]
      BY <1>9, <3>1
    <3> QED BY <1>19, <3>2 DEF LiveOnce
  <2>6. ASSUME NEW c \in D, NEW j \in DOMAIN js, js[j].loc = Target(c) PROVE js[j].status = "failed"
    <3>1. jobs[j].status = "failed" /\ j \in DOMAIN jobs /\ jobs[j].loc = Target(c)
      BY <1>8, <1>9, <2>2, <2>6
    <3>2. j \notin back
      BY <1>8, <2>3, <2>4, <3>1
    <3> QED BY <1>9, <3>1, <3>2
  <2>7. LiveOnce(all)
    <3> SUFFICES ASSUME NEW i \in DOMAIN all, NEW j \in DOMAIN all, all[i].loc = all[j].loc,
                        all[i].status # "failed", all[j].status # "failed"
                 PROVE  i = j
      BY DEF LiveOnce
    <3>1. CASE i \in DOMAIN js /\ j \in DOMAIN js
      BY <1>11, <2>5, <3>1 DEF LiveOnce
    <3>2. ASSUME NEW c \in D, i = id[c] PROVE i = j
      <4>1. all[i].loc = Target(c)
        BY <1>11, <3>2
      <4>2. j \notin DOMAIN js
        BY <1>11, <2>6, <4>1
      <4>3. PICK d \in D : j = id[d]
        BY <1>11, <4>2
      <4>4. all[j].loc = Target(d)
        BY <1>11, <4>3
      <4>5. c = d
        BY <1>8, <2>4, <4>1, <4>4
      <4> QED BY <3>2, <4>3, <4>5
    <3>3. ASSUME NEW c \in D, j = id[c], i \in DOMAIN js PROVE FALSE
      <4>1. all[j].loc = Target(c)
        BY <1>11, <3>3
      <4> QED BY <1>11, <2>6, <3>3, <4>1
    <3> QED BY <1>11, <3>1, <3>2, <3>3
  <2>8. OfGenerations(cut, {g})
    <3>1. \A j \in DOMAIN all : all[j].gen = g
      BY <1>9, <1>11, <2>1
    <3>2. \A j \in DOMAIN cut : cut[j].gen = g /\ cut[j] \in Job
      BY <1>13, <1>14, <3>1 DEF JobTable
    <3> QED BY <3>2 DEF OfGenerations, Job
  <2> QED BY <1>13, <1>15, <1>16, <2>7, <2>8
<1> QED BY <1>17, <1>18, <1>19

-----------------------------------------------------------------------------
(* Claims: the jobs that workers hold, and what a step leaves of the       *)
(* others.                                                                 *)

\* The claim of a worker: its job is running until the worker gives it up.
Claims ==
    /\ \A w \in Worker :
         /\ worker[w].pc \in Claiming =>
              /\ worker[w].job \in DOMAIN jobs
              /\ jobs[worker[w].job].loc = worker[w].loc
              /\ jobs[worker[w].job].gen = worker[w].gen
              /\ jobs[worker[w].job].status = "running"
         /\ worker[w].pc = "read" /\ worker[w].job \in DOMAIN jobs =>
              jobs[worker[w].job].loc = worker[w].loc
         /\ worker[w].pc # "idle" => worker[w].job \notin remembered
    /\ \A v, w \in Worker : v # w /\ worker[v].pc # "idle" => worker[v].job # worker[w].job

\* What a step does to the jobs, but for the running jobs in own.
Serving ==
    \A l \in DOMAIN locs : Waits(l)' /\ l \notin stray' /\ Serves(jobs, l, root.generation)
                             => Serves(jobs', l, root.generation)
\* What a step may do to the jobs, apart from those in own: the table goes on, rows that wait go on
\* being served, the jobs that others hold stay, and no row has two to be done.
Onward(own) ==
    /\ Evolves(jobs, jobs', DOMAIN locs') /\ Spared(jobs, jobs', own)
    /\ (LiveOnce(jobs) /\ OfGenerations(jobs, {root.generation})) => LiveOnce(jobs')
    /\ Serving
\* The rows, the assets, the gate and the claims.
Tables == Types /\ VisibleIfHeld /\ GateInvariant /\ Claims

\* A step that leaves the jobs alone.
LEMMA SameJobs == ASSUME JobTable(jobs, DOMAIN locs), jobs' = jobs PROVE Onward({})
BY DEF JobTable, Onward, Evolves, Spared, Serving

\* An observation queues the row that waits.
LEMMA RefreshedJobs ==
    ASSUME JobTable(jobs, DOMAIN locs), TablesOK, NEW l, NEW row, Refreshed(l, row, root.generation),
           root.generation \in Nat
    PROVE  Onward({})
<1> DEFINE g == root.generation
<1>0. l \in Nat /\ l \in DOMAIN locs'
  <2>1. /\ locs \in Seq(Location) /\ row \in Location /\ Store(l, row)
        /\ l \in DOMAIN locs \/ l = Len(locs) + 1
    BY DEF Refreshed, Recorded, TablesOK
  <2>2. l \in Nat
    BY <2>1, Rowids
  <2> QED BY <2>1, <2>2, StoredRows
<1>1. CASE FreeJobs # {} /\ jobs' = Queue(jobs, l, g)
  <2>1. /\ Evolves(jobs, jobs', {l}) /\ Spared(jobs, jobs', {})
        /\ \A k : Serves(jobs, k, g) => Serves(jobs', k, g)
        /\ LiveOnce(jobs) /\ (\A j \in DOMAIN jobs : jobs[j].gen = g) => LiveOnce(jobs')
    BY <1>0, <1>1, QueueJobs
  <2>2. Evolves(jobs, jobs', DOMAIN locs')
    BY <1>0, <2>1 DEF Evolves
  <2> QED BY <2>1, <2>2 DEF Onward, Serving, OfGenerations
<1>2. CASE jobs' = Regenerate(jobs, l, g)
  <2>1. /\ Evolves(jobs, jobs', {}) /\ Spared(jobs, jobs', {})
        /\ \A k : Serves(jobs, k, g) => Serves(jobs', k, g)
        /\ LiveOnce(jobs) => LiveOnce(jobs')
    BY <1>2, RegenerateJobs
  <2>2. Evolves(jobs, jobs', DOMAIN locs')
    BY <2>1 DEF Evolves
  <2> QED BY <2>1, <2>2 DEF Onward, Serving
<1>3. CASE jobs' = jobs
  BY <1>3, SameJobs
<1> QED BY <1>1, <1>2, <1>3 DEF Refreshed

\* A job is deleted whose row waits no longer.
LEMMA WithoutOnward ==
    ASSUME JobTable(jobs, DOMAIN locs), NEW gone, jobs' = Without(jobs, gone),
           \A l \in DOMAIN locs : \A j \in DOMAIN jobs \cap gone :
              jobs[j].loc = l => ~Waits(l)' \/ l \in stray' \/ jobs[j].gen # root.generation
    PROVE  Onward(gone)
<1>0. /\ Evolves(jobs, Without(jobs, gone), {})
      /\ LiveOnce(jobs) => LiveOnce(Without(jobs, gone))
      /\ DOMAIN Without(jobs, gone) = DOMAIN jobs \ gone
      /\ \A j \in DOMAIN jobs \ gone : Without(jobs, gone)[j] = jobs[j]
  BY WithoutJobs
<1>1. /\ (LiveOnce(jobs) => LiveOnce(jobs'))
      /\ DOMAIN jobs' = DOMAIN jobs \ gone
      /\ \A j \in DOMAIN jobs \ gone : jobs'[j] = jobs[j]
  BY <1>0
<1>2. Evolves(jobs, jobs', {})
  BY <1>0
<1>3. Evolves(jobs, jobs', DOMAIN locs')
  BY <1>2 DEF Evolves
<1>4. Serving
  BY <1>1 DEF Serving, Serves
<1>5. Spared(jobs, jobs', gone)
  BY <1>1 DEF Spared
<1> QED BY <1>1, <1>2, <1>3, <1>4, <1>5 DEF Onward

\* Jobs are queued again.
LEMMA RequeueOnward ==
    ASSUME JobTable(jobs, DOMAIN locs), NEW back, jobs' = Requeue(jobs, back), NEW own,
           \A j \in back \cap DOMAIN jobs : jobs[j].status = "running" /\ j \in own
    PROVE  Onward(own)
<1>1. /\ Evolves(jobs, jobs', {})
      /\ \A l, g : Serves(jobs, l, g) => Serves(jobs', l, g)
      /\ DOMAIN jobs' = DOMAIN jobs
      /\ \A j \in DOMAIN jobs : /\ jobs'[j].loc = jobs[j].loc
                                /\ jobs'[j].status = "failed" <=> jobs[j].status = "failed"
  BY RequeueJobs
<1>2. Spared(jobs, jobs', own)
  BY RequeueJobs
<1>3. Evolves(jobs, jobs', DOMAIN locs')
  BY <1>1 DEF Evolves
<1>4. LiveOnce(jobs) => LiveOnce(jobs')
  BY <1>1 DEF LiveOnce
<1> QED BY <1>1, <1>2, <1>3, <1>4 DEF Onward, Serving

\* A claim fails.
LEMMA FailedOnward ==
    ASSUME JobTable(jobs, DOMAIN locs), NEW own,
           jobs' = [j \in DOMAIN jobs |-> IF j \in own THEN [jobs[j] EXCEPT !.status = "failed"]
                                          ELSE jobs[j]]
    PROVE  Onward(own)
<1>1. \A j \in DOMAIN jobs : jobs[j] \in Job
  BY DEF JobTable
<1>2. \A j \in DOMAIN jobs : /\ jobs'[j] \in Job /\ jobs'[j].loc = jobs[j].loc
                             /\ jobs'[j].gen = jobs[j].gen
                             /\ IF j \in own THEN jobs'[j].status = "failed" ELSE jobs'[j] = jobs[j]
  BY <1>1 DEF Job
<1>3. DOMAIN jobs' = DOMAIN jobs /\ jobs' \in [DOMAIN jobs' -> Job]
  BY <1>2
<1>4. Evolves(jobs, jobs', DOMAIN locs') /\ Spared(jobs, jobs', own)
  BY <1>2, <1>3 DEF JobTable, Evolves, Spared
<1>5. (LiveOnce(jobs) => LiveOnce(jobs')) /\ Serving
  BY <1>2, <1>3 DEF LiveOnce, Serving, Serves
<1> QED BY <1>4, <1>5 DEF Onward

\* A queued job is claimed.
LEMMA ClaimedOnward ==
    ASSUME JobTable(jobs, DOMAIN locs), NEW i \in DOMAIN jobs, jobs[i].status = "queued",
           jobs' = [jobs EXCEPT ![i].status = "running"]
    PROVE  /\ Onward({}) /\ DOMAIN jobs' = DOMAIN jobs /\ jobs'[i].status = "running"
           /\ \A j \in DOMAIN jobs : jobs'[j].loc = jobs[j].loc /\ jobs'[j].gen = jobs[j].gen
<1>1. \A j \in DOMAIN jobs : jobs[j] \in Job
  BY DEF JobTable
<1>2. \A j \in DOMAIN jobs : /\ jobs'[j] \in Job /\ jobs'[j].loc = jobs[j].loc
                             /\ jobs'[j].gen = jobs[j].gen
                             /\ IF j = i THEN jobs'[j].status = "running" ELSE jobs'[j] = jobs[j]
  BY <1>1 DEF Job
<1>3. DOMAIN jobs' = DOMAIN jobs /\ jobs' \in [DOMAIN jobs' -> Job]
  <2>1. DOMAIN jobs' = DOMAIN jobs /\ jobs' = [j \in DOMAIN jobs |-> jobs'[j]]
    BY <1>1 DEF JobTable
  <2> QED BY <1>2, <2>1
<1>4. Evolves(jobs, jobs', DOMAIN locs') /\ Spared(jobs, jobs', {})
  BY <1>2, <1>3 DEF JobTable, Evolves, Spared
<1>5. (LiveOnce(jobs) => LiveOnce(jobs')) /\ Serving
  BY <1>2, <1>3 DEF LiveOnce, Serving, Serves
<1> QED BY <1>2, <1>3, <1>4, <1>5 DEF Onward

\* The jobs in own are held by nobody.
ClaimsOutside(own) ==
    \A v \in Worker : worker[v].pc \in Claiming /\ worker'[v].pc \in Claiming
                        => worker[v].job \notin own

\* A scan and an upload keep the jobs of the rows that wait.
LEMMA ScanJobs ==
    ASSUME Tables, ScanNext \/ UploadNext
    PROVE  \E own : Onward(own) /\ ClaimsOutside(own)
<1>0. /\ JobTable(jobs, DOMAIN locs) /\ TablesOK /\ ScanOK /\ UploadOK /\ root.generation \in Nat
      /\ GateHeld
  BY DEF Tables, Types, WorldOK, GateInvariant
<1>1. CASE jobs' = jobs
  BY <1>0, <1>1, SameJobs DEF ClaimsOutside
<1>2. ASSUME NEW e \in scan.batch, FlushPath(e[1], e[2]) PROVE Onward({})
  <2>1. scan.gen = root.generation
    BY <1>0, <1>2 DEF FlushPath, GateHeld
  <2>2. PICK l, row : Refreshed(l, row, root.generation)
    BY <1>0, <1>2, <2>1, BatchEntry, FlushEffect
  <2> QED BY <1>0, <2>2, RefreshedJobs
<1>3. ASSUME QueueUpload PROVE Onward({})
  <2>1. upload.gen = root.generation
    BY <1>0, <1>3 DEF QueueUpload, GateHeld
  <2>2. PICK l, row : Refreshed(l, row, root.generation)
    BY <1>0, <1>3, <2>1, UploadEffect
  <2> QED BY <1>0, <2>2, RefreshedJobs
<1>4. CASE FinishScan /\ jobs' # jobs
  <2> DEFINE gone == {j \in DOMAIN jobs : jobs[j].gen # scan.gen}
  <2>1. /\ jobs' = Without(jobs, gone) /\ worker' = worker /\ locs' = locs
    BY <1>4 DEF FinishScan
  <2>2. scan.gen = root.generation
    BY <1>0, <1>4 DEF FinishScan, GateHeld
  <2>3. Onward(gone)
    BY <1>0, <2>1, <2>2, WithoutOnward
  <2>4. ClaimsOutside(gone)
    <3> SUFFICES ASSUME NEW v \in Worker, worker[v].pc \in Claiming PROVE worker[v].job \notin gone
      BY DEF ClaimsOutside
    <3>1. jobs[worker[v].job].gen = worker[v].gen
      BY DEF Tables, Claims
    <3>2. worker[v].gen = root.generation
      BY <1>0 DEF GateHeld, Claiming, Working
    <3> QED BY <2>2, <3>1, <3>2
  <2> QED BY <2>3, <2>4
<1>5. CASE ScanNext
  <2>1. \/ jobs' = jobs \/ FinishScan \/ \E e \in scan.batch : FlushPath(e[1], e[2])
    BY <1>5 DEF ScanNext, BeginScan, StartScan, RefuseScan, EnterDirectory, VisitFile, FindMissing, MarkMissing, MarkBlocked,
       SaveDirectories, catalog
  <2> QED BY <1>1, <1>2, <1>4, <2>1 DEF ClaimsOutside
<1>6. CASE UploadNext
  <2>1. jobs' = jobs \/ QueueUpload
    BY <1>6 DEF UploadNext, OpenUpload, catalog
  <2> QED BY <1>1, <1>3, <2>1 DEF ClaimsOutside
<1> QED BY <1>5, <1>6

\* A worker changes the job that it holds.
LEMMA WorkerJobs ==
    ASSUME Tables, NEW w \in Worker, WorkerNext(w) \/ Break(w)
    PROVE  \E own : Onward(own) /\ ClaimsOutside(own)
<1> DEFINE l == worker[w].loc
           j == worker[w].job
<1>0. /\ JobTable(jobs, DOMAIN locs) /\ TablesOK /\ WorkersOK /\ Claims
      /\ worker \in [Worker -> WorkerState]
  BY DEF Tables, Types, WorkersOK
<1>1. CASE jobs' = jobs
  BY <1>0, <1>1, SameJobs DEF ClaimsOutside
<1>2. ASSUME worker[w].pc # "idle", worker'[w].pc \notin Claiming PROVE ClaimsOutside({j})
  BY <1>0, <1>2 DEF ClaimsOutside, Claims, Claiming
<1>3. ASSUME Rests(w) PROVE worker'[w].pc = "idle" /\ worker'[w].pc \notin Claiming
  BY <1>0, <1>3 DEF Rests, Resting, Claiming
<1>4. CASE Claim(w) /\ jobs' # jobs
  <2>1. Claimable(j) /\ jobs' = [jobs EXCEPT ![j].status = "running"]
    BY <1>4 DEF Claim
  <2>2. Onward({})
    BY <1>0, <2>1, ClaimedOnward DEF Claimable
  <2> QED BY <2>2 DEF ClaimsOutside
<1>5. CASE DropMissing(w)
  <2>1. /\ jobs' = Without(jobs, {j}) /\ Rests(w) /\ worker[w].pc = "claimed" /\ locs' = locs
        /\ stray' = IF locs[l].status = "missing" THEN stray ELSE stray \cup {l}
    BY <1>5 DEF DropMissing
  <2>2. jobs[j].loc = l
    BY <1>0, <2>1 DEF Claims, Claiming
  <2>3. \A k \in DOMAIN locs : \A i \in DOMAIN jobs \cap {j} :
           jobs[i].loc = k => ~Waits(k)' \/ k \in stray' \/ jobs[i].gen # root.generation
    BY <2>1, <2>2 DEF Waits
  <2>4. Onward({j})
    BY <1>0, <2>1, <2>3, WithoutOnward
  <2> QED BY <1>2, <1>3, <2>1, <2>4
<1>6. CASE Register(w) /\ Eligible(w)
  <2>1. /\ jobs' = Without(jobs, {j}) /\ Rests(w) /\ worker[w].pc = "hashed"
    BY <1>6 DEF Register
  <2>2. jobs[j].loc = l
    BY <1>0, <2>1 DEF Claims, Claiming
  <2>3. l \in DOMAIN locs /\ locs'[l].status = "active"
    <3>1. /\ Recorded(l, RegisterRow(w)) /\ Store(l, RegisterRow(w)) /\ l \in DOMAIN locs
          /\ RegisterRow(w).status = "active"
      BY <1>0, <1>6, RegisterEffect
    <3>2. locs'[l] = RegisterRow(w)
      BY <1>0, <3>1, StoredRows DEF Recorded, TablesOK
    <3> QED BY <3>1, <3>2
  <2>4. \A k \in DOMAIN locs : \A i \in DOMAIN jobs \cap {j} :
           jobs[i].loc = k => ~Waits(k)' \/ k \in stray' \/ jobs[i].gen # root.generation
    BY <2>2, <2>3 DEF Waits
  <2>5. Onward({j})
    BY <1>0, <2>1, <2>4, WithoutOnward
  <2> QED BY <1>2, <1>3, <2>1, <2>5
<1>7. CASE Register(w) /\ ~Eligible(w)
  <2>1. /\ jobs' = Requeue(jobs, {k \in {j} : Running(k)}) /\ Rests(w) /\ worker[w].pc = "hashed"
    BY <1>7 DEF Register, GivenBack
  <2>2. Onward({j})
    BY <1>0, <2>1, RequeueOnward DEF Running
  <2> QED BY <1>2, <1>3, <2>1, <2>2
<1>8. CASE Resettle(w) /\ jobs' # jobs
  <2>1. jobs' = Requeue(jobs, {j}) /\ Rests(w) /\ worker[w].pc = "changed"
    BY <1>8 DEF Resettle
  <2>2. jobs[j].status = "running"
    BY <1>0, <2>1 DEF Claims, Claiming
  <2>3. Onward({j})
    BY <1>0, <2>1, <2>2, RequeueOnward
  <2> QED BY <1>2, <1>3, <2>1, <2>3
<1>9. CASE FailJob(w)
  <2>1. /\ \/ jobs' = [i \in DOMAIN jobs |-> IF i \in Claimed(w, {"queued", "running"})
                         THEN [jobs[i] EXCEPT !.status = "failed"] ELSE jobs[i]]
           \/ jobs' = Requeue(jobs, Claimed(w, {"running"}))
        /\ Rests(w) /\ worker[w].pc = "failing"
    BY <1>9 DEF FailJob
  <2>2. Claimed(w, {"queued", "running"}) \subseteq {j} /\ Claimed(w, {"running"}) \subseteq {j}
        /\ \A i \in Claimed(w, {"running"}) : jobs[i].status = "running"
    BY DEF Claimed
  <2>3. Onward(Claimed(w, {"queued", "running"})) \/ Onward({j})
    BY <1>0, <2>1, <2>2, FailedOnward, RequeueOnward
  <2>4. ClaimsOutside({j})
    BY <1>2, <1>3, <2>1
  <2> QED BY <2>2, <2>3, <2>4 DEF ClaimsOutside
<1>10. CASE DeferClaim(w)
  <2>1. /\ jobs' = Requeue(jobs, Claimed(w, {"running"})) \/ jobs' = jobs
        /\ Rests(w) /\ worker[w].pc = "deferring"
    BY <1>10 DEF DeferClaim
  <2>2. Claimed(w, {"running"}) \subseteq {j}
        /\ \A i \in Claimed(w, {"running"}) : jobs[i].status = "running"
    BY DEF Claimed
  <2>3. jobs' = jobs \/ Onward({j})
    BY <1>0, <2>1, <2>2, RequeueOnward
  <2> QED BY <1>1, <1>2, <1>3, <2>1, <2>3
<1>11. CASE Break(w) \/ (\E i \in DOMAIN jobs : StartJob(w, i)) \/ OpenFile(w) \/ HashFile(w) \/ MarkAbsent(w)
  <2>1. jobs' = jobs
    BY <1>11 DEF Break, StartJob, OpenFile, HashFile, MarkAbsent, catalog
  <2> QED BY <1>1, <2>1
<1> HIDE DEF l, j
<1> QED BY <1>1, <1>4, <1>5, <1>6, <1>7, <1>8, <1>9, <1>10, <1>11 DEF WorkerNext

\* Every step lets the jobs go on, and what it ends was held by nobody else.
LEMMA JobsStep ==
    ASSUME Tables, [Next]_vars
    PROVE  \E own : Onward(own) /\ ClaimsOutside(own)
<1>0. /\ JobTable(jobs, DOMAIN locs) /\ TablesOK /\ WorkersOK /\ Claims /\ root.generation \in Nat
      /\ VisibleIfHeld
  BY DEF Tables, Types, WorldOK
<1>1. CASE jobs' = jobs
  BY <1>0, <1>1, SameJobs DEF ClaimsOutside
<1>2. CASE RecoverClaims
  <2> DEFINE back == {j \in remembered : Running(j)}
  <2>1. jobs' = Requeue(jobs, back) /\ worker' = worker
    BY <1>2 DEF RecoverClaims
  <2>2. Onward(remembered)
    BY <1>0, <2>1, RequeueOnward DEF Running
  <2>3. ClaimsOutside(remembered)
    BY <1>0 DEF ClaimsOutside, Claims, Claiming
  <2> QED BY <2>2, <2>3
<1>3. CASE Restart
  <2>1. jobs' = Requeue(jobs, {j \in DOMAIN jobs : Running(j)})
        /\ worker' = [w \in Worker |-> Resting]
    BY <1>3 DEF Restart
  <2>2. Onward(DOMAIN jobs)
    BY <1>0, <2>1, RequeueOnward DEF Running
  <2>3. ClaimsOutside(DOMAIN jobs)
    BY <2>1, NothingStarted DEF ClaimsOutside, Claiming
  <2> QED BY <2>2, <2>3
<1>4. CASE RequeueFailed
  <2>1. jobs' = Reopen(jobs, {}) /\ UNCHANGED <<locs, stray>>
    BY <1>4 DEF RequeueFailed, history
  <2>2. /\ Evolves(jobs, jobs', {}) /\ Spared(jobs, jobs', {})
        /\ \A l : Serves(jobs, l, root.generation) => Serves(jobs', l, root.generation)
        /\ LiveOnce(jobs) /\ OfGenerations(jobs, {root.generation}) => LiveOnce(jobs')
    BY <1>0, <2>1, ReopenJobs
  <2>3. Evolves(jobs, jobs', DOMAIN locs')
    BY <2>2 DEF Evolves
  <2>4. Onward({})
    BY <2>2, <2>3 DEF Onward, Serving
  <2> QED BY <2>4 DEF ClaimsOutside
<1>5. ASSUME NEW C \in SUBSET Content, NEW X \in SUBSET Content, RepairMetadata(C, X)
      PROVE  Onward({})
  <2>1. /\ Evolves(jobs, jobs', DOMAIN locs) /\ Spared(jobs, jobs', {})
        /\ \A l \in DOMAIN locs : locs[l].asset = NoAsset /\ Serves(jobs, l, root.generation)
                => Serves(jobs', l, root.generation)
        /\ LiveOnce(jobs) /\ OfGenerations(jobs, {root.generation}) => LiveOnce(jobs')
    BY <1>0, <1>5, RepairJobs
  <2>2. locs' = locs
    BY <1>5 DEF RepairMetadata
  <2>3. Serving
    BY <1>0, <2>1, <2>2 DEF Serving, Waits, TablesOK
  <2> QED BY <2>1, <2>2, <2>3 DEF Onward
<1>6. CASE Faults
  <2>1. jobs' = jobs \/ Restart
    BY <1>6 DEF Faults, AbortScan, UploadFails, Break, catalog
  <2> QED BY <1>1, <1>3, <2>1
<1>7. CASE AdminNext
  <2>1. jobs' = jobs \/ RequeueFailed \/ \E C, X \in SUBSET Content : RepairMetadata(C, X)
    BY <1>7 DEF AdminNext, AcceptRoot
  <2> QED BY <1>1, <1>4, <1>5, <2>1 DEF ClaimsOutside
<1>8. CASE Environment \/ UNCHANGED vars \/ \E l \in DOMAIN locs : Settle(l)
  <2>1. jobs' = jobs
    BY <1>8 DEF Environment, ChangeFile, Mount, vars, Settle
  <2> QED BY <1>1, <2>1
<1> QED BY <1>2, <1>6, <1>7, <1>8, ScanJobs, WorkerJobs DEF Next

-----------------------------------------------------------------------------
(* The record of the scan keeps its shape.                                 *)

LEMMA NoScanOK == NoScan \in ScanState /\ NoScan.missing = {} /\ NoScan.barred = {} /\ NoScan.touched = {}
BY DEF NoScan, ScanState

\* Marks and touched rows stay rows.
LEMMA SameScanOK == ASSUME ScanOK, RowsStay, scan' = scan PROVE ScanOK'
BY DEF ScanOK, RowsStay

\* A row that another writer updates is remembered as touched.
LEMMA TouchScanOK ==
    ASSUME ScanOK, locs \in Seq(Location), RowsStay, NEW l \in DOMAIN locs', Dated(l)
    PROVE  ScanOK'
<1>1. l \in Nat
  BY DEF RowsStay
<1>2. scan' = scan \/ \E touched \in {scan.touched \cup {l}, scan.touched \ {l}} :
                        scan' = [scan EXCEPT !.touched = touched]
  BY DEF Dated, Touch, Untouch
<1>3. CASE scan' = scan
  BY <1>3, SameScanOK
<1>4. ASSUME NEW touched, touched \subseteq scan.touched \cup {l},
             scan' = [scan EXCEPT !.touched = touched]
      PROVE  ScanOK'
  <2>1. touched \in SUBSET Nat /\ scan \in ScanState
    BY <1>1, <1>4 DEF ScanOK, ScanState
  <2>2. scan' = [scan EXCEPT !.touched = touched]
    BY <1>4
  <2>3. scan' \in ScanState /\ scan'.missing = scan.missing /\ scan'.barred = scan.barred
        /\ scan'.touched = touched
    BY <2>1, <2>2, SMTT(30) DEF ScanState
  <2> QED BY <1>4, <2>3 DEF ScanOK, RowsStay
<1> QED BY <1>2, <1>3, <1>4

\* The directory of a path is one of the directories.
LEMMA DirOf == \A p \in Path : Dir[p] \in Dirs
BY DEF Dirs

\* A scan reads the time of its start.
LEMMA BeginScanOK ==
    ASSUME NEW mode \in {"quick", "reconciliation"}, BeginScan(mode)
    PROVE  scan' \in ScanState /\ scan'.missing = {} /\ scan'.barred = {} /\ scan'.touched = {}
<1> DEFINE solo == upload.pc = "idle" /\ \A w \in Worker : worker[w].pc \notin Working
<1>1. scan' = [NoScan EXCEPT !.begun = TRUE, !.mode = mode, !.calm = TRUE, !.alone = solo]
  BY DEF BeginScan
<1>2. solo \in BOOLEAN
  OBVIOUS
<1> HIDE DEF solo
<1>3. scan' = [pc |-> "idle", begun |-> TRUE, mode |-> mode, root |-> NoRoot, gen |-> 0,
           pending |-> FALSE, prev |-> NoRoot, todo |-> {}, list |-> {}, seen |-> {},
           batch |-> {}, found |-> FALSE, checked |-> {}, fresh |-> {}, retry |-> {},
           blocked |-> {}, missing |-> {}, barred |-> {}, touched |-> {},
           calm |-> TRUE, alone |-> solo]
  BY <1>1 DEF NoScan
<1> QED BY <1>2, <1>3 DEF ScanState

\* A scan walks.
LEMMA StartScanOK ==
    ASSUME Types, StartScan
    PROVE  scan' \in ScanState /\ scan'.missing = {} /\ scan'.barred = {}
           /\ scan'.touched = scan.touched
<1> DEFINE found == IF scan.mode = "reconciliation" THEN {}
                    ELSE {Dir[locs[l].path] : l \in
                            {k \in DOMAIN locs : locs[k].status = "permission_blocked"}}
<1>1. scan' = [NoScan EXCEPT !.pc = "walk", !.mode = scan.mode, !.root = mounted,
                  !.gen = root.generation, !.pending = root.pending, !.prev = root.identity,
                  !.todo = Dirs, !.touched = scan.touched, !.calm = scan.calm,
                  !.alone = scan.alone, !.checked = found]
  BY DEF StartScan
<1>2. /\ found \in SUBSET Dirs /\ mounted \in Root /\ root.generation \in Nat
      /\ root.pending \in BOOLEAN /\ root.identity \in Root \cup {NoRoot}
      /\ scan.mode \in {"quick", "reconciliation"} /\ scan.touched \in SUBSET Nat
      /\ scan.calm \in BOOLEAN /\ scan.alone \in BOOLEAN
  <2>1. \A l \in DOMAIN locs : Dir[locs[l].path] \in Dirs
    BY DirOf, Rowids DEF Types, TablesOK, Location
  <2>2. found \in SUBSET Dirs
    BY <2>1
  <2>3. scan \in ScanState
    BY DEF Types, ScanOK
  <2> HIDE DEF found
  <2> QED BY <2>2, <2>3 DEF Types, WorldOK, ScanState
<1> HIDE DEF found
<1>3. scan' = [pc |-> "walk", begun |-> FALSE, mode |-> scan.mode, root |-> mounted,
           gen |-> root.generation, pending |-> root.pending, prev |-> root.identity,
           todo |-> Dirs, list |-> {}, seen |-> {},
           batch |-> {}, found |-> FALSE, checked |-> found, fresh |-> {}, retry |-> {},
           blocked |-> {}, missing |-> {}, barred |-> {}, touched |-> scan.touched,
           calm |-> scan.calm, alone |-> scan.alone]
  BY <1>1 DEF NoScan
<1> QED BY <1>2, <1>3 DEF ScanState

\* A directory is entered, or a file visited.
LEMMA WalkScanOK ==
    ASSUME Types, RootsExist,
           (\E d \in Dirs : EnterDirectory(d)) \/ (\E p \in Path : VisitFile(p))
    PROVE  /\ scan' \in ScanState /\ scan'.missing = scan.missing /\ scan'.barred = scan.barred
           /\ scan'.touched = scan.touched
<1> DEFINE OK == /\ scan' \in ScanState /\ scan'.missing = scan.missing
                 /\ scan'.barred = scan.barred /\ scan'.touched = scan.touched
<1>0. scan \in ScanState /\ (scan.pc # "idle" => scan.root \in Root)
      /\ disk \in [Root -> [Path -> File \cup {NoFile}]]
  BY DEF Types, ScanOK, WorldOK, RootsExist
<1>1. ASSUME NEW d \in Dirs, EnterDirectory(d) PROVE OK
  <2> DEFINE checked == IF Inspects(d) THEN scan.checked \cup {d} ELSE scan.checked
             list == IF Inspects(d) THEN {p \in Path : Dir[p] = d /\ disk[scan.root][p] # NoFile} ELSE {}
             entered == [scan EXCEPT !.todo = scan.todo \ {d}, !.fresh = scan.fresh \cup {d},
                                     !.checked = checked]
  <2>1. \/ scan' = [entered EXCEPT !.list = list]
        \/ scan' = [entered EXCEPT !.blocked = entered.blocked \cup {d}, !.calm = FALSE]
    BY <1>1 DEF EnterDirectory
  <2>2. checked \in SUBSET Dirs /\ list \in SUBSET Path
    BY <1>0 DEF ScanState
  <2> HIDE DEF checked, list
  <2>3. /\ entered \in ScanState /\ entered.missing = scan.missing
        /\ entered.barred = scan.barred /\ entered.touched = scan.touched
    BY <1>0, <2>2 DEF ScanState
  <2> HIDE DEF entered
  <2>4. CASE scan' = [entered EXCEPT !.list = list]
    BY <2>2, <2>3, <2>4 DEF ScanState
  <2>5. CASE scan' = [entered EXCEPT !.blocked = entered.blocked \cup {d}, !.calm = FALSE]
    BY <2>3, <2>5 DEF ScanState
  <2> QED BY <2>1, <2>4, <2>5
<1>2. ASSUME NEW p \in Path, VisitFile(p) PROVE OK
  <2> DEFINE f == disk[scan.root][p]
             visited == [scan EXCEPT !.list = scan.list \ {p}, !.seen = scan.seen \cup {p}]
  <2>1. \/ /\ f # NoFile
           /\ scan' = [visited EXCEPT !.batch = visited.batch \cup {<<p, f>>}, !.found = TRUE]
        \/ scan' = [visited EXCEPT !.retry = visited.retry \cup {Dir[p]}, !.calm = FALSE]
    BY <1>2 DEF VisitFile
  <2>2. f \in File \cup {NoFile}
    <3>1. scan.pc # "idle"
      BY <1>2 DEF VisitFile
    <3>2. scan.root \in Root
      BY <1>0, <3>1
    <3> QED BY <1>0, <3>2
  <2> HIDE DEF f
  <2>3. /\ visited \in ScanState /\ visited.missing = scan.missing
        /\ visited.barred = scan.barred /\ visited.touched = scan.touched
    BY <1>0 DEF ScanState
  <2> HIDE DEF visited
  <2>4. CASE f # NoFile /\ scan' = [visited EXCEPT !.batch = visited.batch \cup {<<p, f>>}, !.found = TRUE]
    <3>1. visited.batch \cup {<<p, f>>} \in SUBSET (Path \X File)
      BY <2>2, <2>3, <2>4 DEF ScanState
    <3> DEFINE batch == visited.batch \cup {<<p, f>>}
    <3>2. batch \in SUBSET (Path \X File) /\ scan' = [visited EXCEPT !.batch = batch, !.found = TRUE]
      BY <2>4, <3>1
    <3> HIDE DEF batch
    <3> QED BY <2>3, <3>2 DEF ScanState
  <2>5. CASE scan' = [visited EXCEPT !.retry = visited.retry \cup {Dir[p]}, !.calm = FALSE]
    <3>1. Dir[p] \in Dirs
      BY DirOf
    <3> HIDE DEF OK
    <3> QED BY <2>3, <2>5, <3>1 DEF ScanState, OK
  <2> QED BY <2>1, <2>4, <2>5
<1> QED BY <1>1, <1>2

\* Rows are found missing, or marked.
LEMMA MarkScanOK ==
    ASSUME Types, FindMissing \/ MarkMissing \/ MarkBlocked \/ SaveDirectories
    PROVE  /\ scan' \in ScanState /\ scan'.missing \subseteq DOMAIN locs
           /\ scan'.barred \subseteq DOMAIN locs /\ scan'.touched \subseteq DOMAIN locs
<1> DEFINE OK == /\ scan' \in ScanState /\ scan'.missing \subseteq DOMAIN locs
                 /\ scan'.barred \subseteq DOMAIN locs /\ scan'.touched \subseteq DOMAIN locs
<1>0. /\ scan \in ScanState /\ scan.missing \subseteq DOMAIN locs
      /\ scan.barred \subseteq DOMAIN locs /\ scan.touched \subseteq DOMAIN locs
  BY DEF Types, ScanOK
<1>1. CASE FindMissing
  <2>1. PICK missing, barred \in SUBSET DOMAIN locs :
          \/ scan' = NoScan
          \/ scan' = [scan EXCEPT !.pc = "mark", !.missing = missing, !.barred = barred,
                                  !.seen = {}, !.checked = {}, !.blocked = {}, !.found = FALSE]
    <3> DEFINE idle == {l \in DOMAIN locs : Idle(l)}
               unseen == {l \in idle : locs[l].path \notin scan.seen}
               barred == {l \in unseen : Dir[locs[l].path] \in scan.blocked}
               missing == {l \in unseen \ barred : Covered(locs[l].path)}
    <3>1. missing \in SUBSET DOMAIN locs /\ barred \in SUBSET DOMAIN locs
      OBVIOUS
    <3>2. \/ scan' = NoScan
          \/ scan' = [scan EXCEPT !.pc = "mark", !.missing = missing, !.barred = barred,
                                  !.seen = {}, !.checked = {}, !.blocked = {}, !.found = FALSE]
      BY <1>1 DEF FindMissing
    <3> HIDE DEF missing, barred
    <3> QED BY <3>1, <3>2
  <2>2. DOMAIN locs \in SUBSET Nat
    BY Rowids DEF Types, TablesOK
  <2>3. CASE scan' = NoScan
    BY <2>3, NoScanOK
  <2>4. CASE scan' = [scan EXCEPT !.pc = "mark", !.missing = missing, !.barred = barred,
                                  !.seen = {}, !.checked = {}, !.blocked = {}, !.found = FALSE]
    <3> DEFINE cleared == [scan EXCEPT !.seen = {}, !.checked = {}, !.blocked = {}, !.found = FALSE]
    <3>1. cleared \in ScanState /\ cleared.touched = scan.touched
      BY <1>0 DEF ScanState
    <3>2. scan' = [cleared EXCEPT !.pc = "mark", !.missing = missing, !.barred = barred]
      BY <1>0, <2>4 DEF ScanState
    <3> HIDE DEF cleared
    <3> QED BY <1>0, <2>2, <3>1, <3>2 DEF ScanState
  <2> QED BY <2>1, <2>3, <2>4
<1>2. CASE MarkMissing
  <2>1. scan' = [scan EXCEPT !.pc = "bar", !.missing = {}]
    BY <1>2 DEF MarkMissing
  <2> QED BY <1>0, <2>1 DEF ScanState
<1>3. CASE MarkBlocked
  <2>1. scan' = [scan EXCEPT !.pc = "dirs", !.barred = {}, !.touched = {}]
    BY <1>3 DEF MarkBlocked
  <2> QED BY <1>0, <2>1 DEF ScanState
<1>4. CASE SaveDirectories
  <2>1. scan' = [scan EXCEPT !.pc = "finish", !.fresh = {}, !.retry = {}]
    BY <1>4 DEF SaveDirectories
  <2> QED BY <1>0, <2>1 DEF ScanState
<1> QED BY <1>1, <1>2, <1>3, <1>4

\* Files change under a scan.
LEMMA EnvironmentScanOK ==
    ASSUME Types, Environment
    PROVE  /\ scan' \in ScanState /\ scan'.missing = scan.missing /\ scan'.barred = scan.barred
           /\ scan'.touched = scan.touched
<1>1. scan \in ScanState
  BY DEF Types, ScanOK
<1>2. ASSUME NEW p \in Path, NEW f, NEW inPlace, ChangeFile(p, f, inPlace)
      PROVE  \E fresh \in SUBSET Dirs :
                scan' = scan \/ scan' = [scan EXCEPT !.calm = FALSE, !.fresh = fresh]
  <2> DEFINE fresh == IF inPlace THEN scan.fresh ELSE scan.fresh \ {Dir[p]}
  <2>1. fresh \in SUBSET Dirs
    BY <1>1 DEF ScanState
  <2>2. scan' = scan \/ scan' = [scan EXCEPT !.calm = FALSE, !.fresh = fresh]
    BY <1>2 DEF ChangeFile
  <2> HIDE DEF fresh
  <2> QED BY <2>1, <2>2
<1>3. ASSUME NEW r \in Root, Mount(r) PROVE scan' = scan \/ scan' = [scan EXCEPT !.calm = FALSE]
  BY <1>3 DEF Mount
<1>4. CASE scan' = scan \/ scan' = [scan EXCEPT !.calm = FALSE]
  <2>1. CASE scan' = scan
    BY <1>1, <2>1
  <2>2. CASE scan' = [scan EXCEPT !.calm = FALSE]
    BY <1>1, <2>2 DEF ScanState
  <2> QED BY <1>4, <2>1, <2>2
<1>5. ASSUME NEW fresh \in SUBSET Dirs, scan' = [scan EXCEPT !.calm = FALSE, !.fresh = fresh]
      PROVE  /\ scan' \in ScanState /\ scan'.missing = scan.missing /\ scan'.barred = scan.barred
             /\ scan'.touched = scan.touched
  BY <1>1, <1>5 DEF ScanState
<1> QED BY <1>2, <1>3, <1>4, <1>5 DEF Environment

\* What a recorded row leaves of the table.
LEMMA StoreDomain ==
    ASSUME TablesOK, NEW l, NEW row, Recorded(l, row), Store(l, row)
    PROVE  /\ l \in DOMAIN locs' /\ locs'[l] = row /\ \A k \in DOMAIN locs : k # l => locs'[k] = locs[k]
           /\ DOMAIN locs' = DOMAIN locs \cup {l} /\ row \in Location
<1>1. locs \in Seq(Location) /\ row \in Location /\ (l \in DOMAIN locs \/ l = Len(locs) + 1)
  BY DEF Recorded, TablesOK
<1>2. /\ DOMAIN locs' = DOMAIN locs \cup {l}
      /\ locs'[l] = row /\ \A k \in DOMAIN locs : k # l => locs'[k] = locs[k]
  BY <1>1, StoredRows
<1> QED BY <1>1, <1>2

\* Every step keeps the record of the scan.
LEMMA ScanStep ==
    ASSUME Tables, RowsStay, [Next]_vars
    PROVE  ScanOK'
<1>0. ScanOK /\ TablesOK /\ UploadOK /\ WorkersOK /\ Types /\ RootsExist /\ locs \in Seq(Location)
  BY DEF Tables, Types, GateInvariant, TablesOK
<1>1. CASE scan' = scan
  BY <1>0, <1>1, SameScanOK
<1>2. CASE scan' = NoScan
  BY <1>2, NoScanOK DEF ScanOK
<1>3. ASSUME scan' \in ScanState, scan'.missing \subseteq DOMAIN locs,
             scan'.barred \subseteq DOMAIN locs, scan'.touched \subseteq DOMAIN locs
      PROVE  ScanOK'
  BY <1>3 DEF ScanOK, RowsStay
<1>4. CASE ScanNext
  <2>1. CASE StartScan
    BY <1>0, <1>3, <2>1, StartScanOK DEF ScanOK
  <2>6. ASSUME NEW mode \in {"quick", "reconciliation"}, BeginScan(mode) PROVE ScanOK'
    BY <1>3, <2>6, BeginScanOK
  <2>2. CASE (\E d \in Dirs : EnterDirectory(d)) \/ (\E p \in Path : VisitFile(p))
    BY <1>0, <1>3, <2>2, WalkScanOK DEF ScanOK
  <2>3. CASE FindMissing \/ MarkMissing \/ MarkBlocked \/ SaveDirectories
    BY <1>0, <1>3, <2>3, MarkScanOK
  <2>4. ASSUME NEW e \in scan.batch, FlushPath(e[1], e[2]) PROVE ScanOK'
    <3>0. e[1] \in Path /\ e[2] \in File
      BY <1>0, BatchEntry
    <3>1. PICK l, row : /\ Refreshed(l, row, scan.gen)
                        /\ scan' = [scan EXCEPT !.batch = scan.batch \ {<<e[1], e[2]>>},
                                                !.touched = scan.touched \cup {l}]
      BY <1>0, <2>4, <3>0, FlushEffect
    <3>2. l \in DOMAIN locs' /\ l \in Nat
      <4>1. Recorded(l, row) /\ Store(l, row)
        BY <3>1 DEF Refreshed
      <4>2. l \in DOMAIN locs \/ l = Len(locs) + 1
        BY <4>1 DEF Recorded
      <4>3. l \in Nat
        BY <1>0, <4>2, Rowids
      <4> QED BY <1>0, <4>1, <4>3, StoreDomain
    <3> DEFINE batch == scan.batch \ {<<e[1], e[2]>>}
               touched == scan.touched \cup {l}
    <3>3. scan' = [scan EXCEPT !.batch = batch, !.touched = touched]
      BY <3>1
    <3>4. batch \in SUBSET (Path \X File) /\ touched \in SUBSET Nat /\ touched \subseteq DOMAIN locs'
      BY <1>0, <3>2 DEF ScanOK, ScanState, RowsStay
    <3> HIDE DEF batch, touched
    <3>5. scan' \in ScanState /\ scan'.missing = scan.missing /\ scan'.barred = scan.barred
          /\ scan'.touched = touched
      BY <1>0, <3>3, <3>4 DEF ScanOK, ScanState
    <3> QED BY <1>0, <3>4, <3>5 DEF ScanOK, RowsStay
  <2>5. CASE FinishScan \/ RefuseScan
    BY <1>2, <2>5 DEF FinishScan, RefuseScan
  <2> QED BY <1>4, <2>1, <2>2, <2>3, <2>4, <2>5, <2>6 DEF ScanNext
<1>5. CASE QueueUpload
  <2>1. PICK l, row : Refreshed(l, row, upload.gen) /\ Dates("upload", l)
    BY <1>0, <1>5, UploadEffect
  <2>2. l \in DOMAIN locs'
    BY <1>0, <2>1, StoreDomain DEF Refreshed
  <2> QED BY <1>0, <2>1, <2>2, TouchScanOK, DatesCases
<1>6. ASSUME NEW w \in Worker, Register(w) PROVE ScanOK'
  <2>1. CASE Eligible(w)
    <3>1. worker[w].loc \in DOMAIN locs /\ Dates(w, worker[w].loc)
      BY <1>0, <1>6, <2>1, RegisterEffect DEF Register
    <3>2. worker[w].loc \in DOMAIN locs'
      BY <3>1 DEF RowsStay
    <3> QED BY <1>0, <3>1, <3>2, TouchScanOK, DatesCases
  <2>2. CASE ~Eligible(w)
    BY <1>1, <1>6, <2>2 DEF Register
  <2> QED BY <2>1, <2>2
<1>7. ASSUME NEW w \in Worker, Resettle(w) PROVE ScanOK'
  <2>1. worker[w].loc \in DOMAIN locs /\ (Dates(w, worker[w].loc) \/ scan' = scan)
    BY <1>0, <1>7, ResettleEffect
  <2>2. worker[w].loc \in DOMAIN locs'
    BY <2>1 DEF RowsStay
  <2> QED BY <1>0, <1>1, <2>1, <2>2, TouchScanOK, DatesCases
<1>8. CASE Environment
  BY <1>0, <1>3, <1>8, EnvironmentScanOK DEF ScanOK
<1>9. CASE UploadNext
  <2>1. CASE \E p \in Path : OpenUpload(p)
    BY <1>1, <2>1 DEF OpenUpload
  <2> QED BY <1>5, <1>9, <2>1 DEF UploadNext
<1>10. ASSUME NEW w \in Worker, WorkerNext(w) PROVE ScanOK'
  <2>1. scan' = scan \/ Register(w) \/ Resettle(w)
    BY <1>10 DEF WorkerNext, StartJob, Claim, DropMissing, OpenFile, HashFile, MarkAbsent, FailJob, DeferClaim
  <2> QED BY <1>1, <1>6, <1>7, <2>1
<1>11. CASE Faults \/ AdminNext \/ RecoverClaims \/ UNCHANGED vars \/ \E l \in DOMAIN locs : Settle(l)
  <2>1. scan' = scan \/ scan' = NoScan
    BY <1>11 DEF Faults, AbortScan, UploadFails, Restart, Break, AdminNext, AcceptRoot, RequeueFailed,
       RepairMetadata, RecoverClaims, vars, Settle
  <2> QED BY <1>1, <1>2, <2>1
<1> QED BY <1>4, <1>8, <1>9, <1>10, <1>11 DEF Next

\* An upload has a file when it is opened.
LEMMA UploadStep ==
    ASSUME Tables, [Next]_vars
    PROVE  UploadOK'
<1>0. UploadOK /\ disk \in [Root -> [Path -> File \cup {NoFile}]] /\ mounted \in Root
  BY DEF Tables, Types, WorldOK
<1>1. ASSUME NEW p \in Path, OpenUpload(p) PROVE UploadOK'
  <2>1. disk[mounted][p] \in File
    BY <1>0, <1>1 DEF OpenUpload
  <2> QED BY <1>1, <2>1 DEF OpenUpload, UploadOK
<1>2. CASE upload' = upload
  BY <1>0, <1>2 DEF UploadOK
<1>3. CASE upload' = NoUpload
  BY <1>3, NothingStarted DEF UploadOK
<1>4. CASE ScanNext
  BY <1>2, <1>4 DEF ScanNext, BeginScan, StartScan, RefuseScan, EnterDirectory, VisitFile, FlushPath, FindMissing,
     MarkMissing, MarkBlocked, SaveDirectories, FinishScan
<1>5. CASE UploadNext
  BY <1>1, <1>3, <1>5 DEF UploadNext, QueueUpload
<1>6. ASSUME NEW w \in Worker, WorkerNext(w) PROVE UploadOK'
  BY <1>2, <1>6 DEF WorkerNext, StartJob, Claim, DropMissing, OpenFile, HashFile, Register, Resettle,
     MarkAbsent, FailJob, DeferClaim
<1>7. CASE Faults
  BY <1>2, <1>3, <1>7 DEF Faults, AbortScan, UploadFails, Restart, Break
<1>8. CASE AdminNext \/ RecoverClaims \/ UNCHANGED vars \/ \E l \in DOMAIN locs : Settle(l)
  BY <1>2, <1>8 DEF AdminNext, AcceptRoot, RequeueFailed, RepairMetadata, RecoverClaims, vars, Settle
<1>9. CASE Environment
  BY <1>2, <1>9 DEF Environment, ChangeFile, Mount
<1> QED BY <1>4, <1>5, <1>6, <1>7, <1>8, <1>9 DEF Next

-----------------------------------------------------------------------------
(* The files, the root, and the workers.                                   *)

\* Who writes rows, and where the notes about them come from.
LEMMA HistoryCases ==
    ASSUME TablesOK, ScanOK, UploadOK, WorkersOK, [Next]_vars
    PROVE  \/ UNCHANGED <<steady, stray>>
           \/ \E l, row : Recorded(l, row) /\ Store(l, row) /\ UNCHANGED files
           \/ \E w \in Worker : DropMissing(w)
           \/ StartScan \/ Environment
<1> DEFINE G == \/ UNCHANGED <<steady, stray>>
                \/ \E l, row : Recorded(l, row) /\ Store(l, row) /\ UNCHANGED files
                \/ \E w \in Worker : DropMissing(w)
                \/ StartScan \/ Environment
<1>1. ASSUME NEW e \in scan.batch, FlushPath(e[1], e[2]) PROVE G
  <2>0. e[1] \in Path /\ e[2] \in File
    BY BatchEntry
  <2>1. PICK l, row : Refreshed(l, row, scan.gen)
    BY <1>1, <2>0, FlushEffect
  <2> QED BY <1>1, <2>1 DEF Refreshed, FlushPath
<1>2. CASE QueueUpload
  <2>1. PICK l, row : Refreshed(l, row, upload.gen)
    BY <1>2, UploadEffect
  <2> QED BY <1>2, <2>1 DEF Refreshed, QueueUpload
<1>3. ASSUME NEW w \in Worker, Register(w) PROVE G
  <2>1. CASE Eligible(w)
    <3>1. PICK l, row : Recorded(l, row) /\ Store(l, row)
      BY <1>3, <2>1, RegisterEffect
    <3> QED BY <1>3, <3>1 DEF Register
  <2>2. CASE ~Eligible(w)
    BY <1>3, <2>2 DEF Register, history
  <2> QED BY <2>1, <2>2
<1>4. ASSUME NEW w \in Worker, Resettle(w) PROVE G
  <2> DEFINE row == Discovered(worker[w].snap.path, worker[w].file, TRUE)
  <2>1. \/ Recorded(worker[w].loc, row) /\ Store(worker[w].loc, row)
        \/ UNCHANGED <<steady, stray>>
    BY <1>4, ResettleEffect
  <2> HIDE DEF row
  <2> QED BY <1>4, <2>1 DEF Resettle, history
<1>5. ASSUME NEW w \in Worker, MarkAbsent(w) PROVE G
  <2>1. PICK l, row : Recorded(l, row) /\ Store(l, row)
    BY <1>5, AbsentEffect
  <2> QED BY <1>5, <2>1 DEF MarkAbsent
<1>6. CASE ScanNext
  BY <1>1, <1>6 DEF ScanNext, BeginScan, StartScan, RefuseScan, EnterDirectory, VisitFile, FindMissing,
     MarkMissing, MarkBlocked, SaveDirectories, FinishScan, history
<1>7. CASE UploadNext
  BY <1>2, <1>7 DEF UploadNext, OpenUpload
<1>8. ASSUME NEW w \in Worker, WorkerNext(w) PROVE G
  <2>1. CASE UNCHANGED <<steady, stray>> \/ DropMissing(w)
    BY <2>1
  <2>2. \/ UNCHANGED <<steady, stray>> \/ DropMissing(w) \/ Register(w) \/ Resettle(w)
        \/ MarkAbsent(w)
    BY <1>8 DEF WorkerNext, StartJob, Claim, OpenFile, HashFile, FailJob, DeferClaim, history
  <2> QED BY <1>3, <1>4, <1>5, <2>1, <2>2
<1>9. CASE Faults \/ AdminNext \/ RecoverClaims \/ UNCHANGED vars \/ \E l \in DOMAIN locs : Settle(l)
  <2>1. UNCHANGED <<steady, stray>>
    BY <1>9 DEF Faults, AbortScan, UploadFails, Restart, Break, AdminNext, AcceptRoot, RequeueFailed,
       RepairMetadata, RecoverClaims, vars, Settle, history
  <2> QED BY <2>1
<1> QED BY <1>6, <1>7, <1>8, <1>9 DEF Next

\* Only the end of a scan and an administrator change the row of the root.
LEMMA RootCases ==
    ASSUME [Next]_vars
    PROVE  \/ root' = root /\ UNCHANGED files
           \/ root' = root /\ Environment
           \/ FinishScan /\ UNCHANGED files
           \/ AcceptRoot /\ UNCHANGED files
<1>1. CASE ScanNext
  BY <1>1 DEF ScanNext, BeginScan, StartScan, RefuseScan, EnterDirectory, VisitFile, FlushPath, FindMissing,
     MarkMissing, MarkBlocked, SaveDirectories, FinishScan, catalog
<1>2. CASE UploadNext \/ Faults
  BY <1>2 DEF UploadNext, OpenUpload, QueueUpload, Faults, AbortScan, UploadFails, Restart, Break, catalog
<1>3. ASSUME NEW w \in Worker, WorkerNext(w) PROVE root' = root /\ UNCHANGED files
  BY <1>3 DEF WorkerNext, StartJob, Claim, DropMissing, OpenFile, HashFile, Register, Resettle,
     MarkAbsent, FailJob, DeferClaim, catalog
<1>4. CASE AdminNext
  BY <1>4 DEF AdminNext, AcceptRoot, RequeueFailed, RepairMetadata
<1>5. CASE RecoverClaims \/ UNCHANGED vars \/ \E l \in DOMAIN locs : Settle(l)
  BY <1>5 DEF RecoverClaims, vars, Settle, files
<1>6. CASE Environment
  BY <1>6 DEF Environment, ChangeFile, Mount
<1> QED BY <1>1, <1>2, <1>3, <1>4, <1>5, <1>6 DEF Next

\* Only persistDirectoryStates saves a modification time.
LEMMA CleanCases ==
    ASSUME [Next]_vars
    PROVE  clean' \subseteq clean \/ SaveDirectories
<1>1. CASE ScanNext
  BY <1>1 DEF ScanNext, BeginScan, StartScan, RefuseScan, EnterDirectory, VisitFile, FlushPath, FindMissing,
     MarkMissing, MarkBlocked, FinishScan, catalog
<1>2. CASE UploadNext \/ Faults
  BY <1>2 DEF UploadNext, OpenUpload, QueueUpload, Faults, AbortScan, UploadFails, Restart, Break, catalog
<1>3. ASSUME NEW w \in Worker, WorkerNext(w) PROVE clean' = clean
  BY <1>3 DEF WorkerNext, StartJob, Claim, DropMissing, OpenFile, HashFile, Register, Resettle,
     MarkAbsent, FailJob, DeferClaim, catalog
<1>4. CASE AdminNext
  BY <1>4 DEF AdminNext, AcceptRoot, RequeueFailed, RepairMetadata
<1>5. CASE RecoverClaims \/ UNCHANGED vars \/ \E l \in DOMAIN locs : Settle(l)
  BY <1>5 DEF RecoverClaims, vars, Settle
<1>6. CASE Environment
  BY <1>6 DEF Environment, ChangeFile, Mount
<1> QED BY <1>1, <1>2, <1>3, <1>4, <1>5, <1>6 DEF Next

\* Only the start of a scan finds writers that may have read the time before it.
LEMMA StampedCases ==
    ASSUME [Next]_vars
    PROVE  stamped' \subseteq stamped
           \/ /\ \E mode \in {"quick", "reconciliation"} : BeginScan(mode)
              /\ stamped' \subseteq Worker \cup {"upload"}
<1> DEFINE G == \/ stamped' \subseteq stamped
                \/ /\ \E mode \in {"quick", "reconciliation"} : BeginScan(mode)
                   /\ stamped' \subseteq Worker \cup {"upload"}
<1>1. CASE ScanNext
  <2>1. ASSUME NEW mode \in {"quick", "reconciliation"}, BeginScan(mode) PROVE G
    BY <2>1 DEF BeginScan
  <2>2. \/ stamped' = stamped \/ \E mode \in {"quick", "reconciliation"} : BeginScan(mode)
    BY <1>1 DEF ScanNext, StartScan, RefuseScan, EnterDirectory, VisitFile, FlushPath, FindMissing,
       MarkMissing, MarkBlocked, SaveDirectories, FinishScan, Store, history
  <2> QED BY <2>1, <2>2
<1>2. CASE UploadNext \/ Faults
  BY <1>2 DEF UploadNext, OpenUpload, QueueUpload, Store, Faults, AbortScan, UploadFails, Restart,
     Break, history
<1>3. ASSUME NEW w \in Worker, WorkerNext(w) PROVE stamped' \subseteq stamped
  BY <1>3 DEF WorkerNext, StartJob, Claim, DropMissing, OpenFile, HashFile, Register, Resettle,
     MarkAbsent, FailJob, DeferClaim, Store, history
<1>4. CASE AdminNext \/ RecoverClaims \/ UNCHANGED vars \/ \E l \in DOMAIN locs : Settle(l)
  BY <1>4 DEF AdminNext, AcceptRoot, RequeueFailed, RepairMetadata, RecoverClaims, vars, Settle,
     history
<1>5. CASE Environment
  BY <1>5 DEF Environment, ChangeFile, Mount
<1> QED BY <1>1, <1>2, <1>3, <1>4, <1>5 DEF Next

\* Every step keeps files, root and ghosts.
LEMMA WorldStep ==
    ASSUME Tables, RowsStay, [Next]_vars
    PROVE  WorldOK'
<1>0. /\ WorldOK /\ TablesOK /\ ScanOK /\ UploadOK /\ WorkersOK /\ RootsExist /\ GateHeld
  BY DEF Tables, Types, GateInvariant
<1>1. disk' \in [Root -> [Path -> File \cup {NoFile}]] /\ mounted' \in Root
  <2>1. CASE UNCHANGED files
    BY <1>0, <2>1 DEF WorldOK, files
  <2>2. CASE Environment
    <3>1. ASSUME NEW p \in Path, NEW f \in File \cup {NoFile}, NEW inPlace, ChangeFile(p, f, inPlace)
          PROVE  disk' \in [Root -> [Path -> File \cup {NoFile}]] /\ mounted' \in Root
      BY <1>0, <3>1 DEF WorldOK, ChangeFile
    <3>2. ASSUME NEW r \in Root, Mount(r)
          PROVE  disk' \in [Root -> [Path -> File \cup {NoFile}]] /\ mounted' \in Root
      BY <1>0, <3>2 DEF WorldOK, Mount
    <3> QED BY <2>2, <3>1, <3>2 DEF Environment
  <2> QED BY <2>1, <2>2, RootCases
<1>2. root' \in [identity : Root \cup {NoRoot}, generation : Nat, pending : BOOLEAN]
  <2>1. CASE root' = root
    BY <1>0, <2>1 DEF WorldOK
  <2>2. CASE FinishScan
    <3>1. root' = [identity |-> scan.root, generation |-> scan.gen, pending |-> StillPending]
      BY <2>2 DEF FinishScan
    <3>2. scan.root \in Root /\ scan.gen \in Nat /\ StillPending \in BOOLEAN
      BY <1>0, <2>2 DEF FinishScan, RootsExist, ScanOK, ScanState, StillPending
    <3> QED BY <3>1, <3>2
  <2>3. CASE AcceptRoot
    BY <1>0, <2>3 DEF AcceptRoot, WorldOK
  <2> QED BY <2>1, <2>2, <2>3, RootCases
<1>3. clean' \subseteq Dirs
  <2>1. CASE clean' \subseteq clean
    BY <1>0, <2>1 DEF WorldOK
  <2>2. CASE SaveDirectories
    BY <1>0, <2>2 DEF SaveDirectories, WorldOK, ScanOK, ScanState
  <2> QED BY <2>1, <2>2, CleanCases
<1>4. steady' \subseteq Path /\ stray' \subseteq DOMAIN locs'
  <2>0. DOMAIN locs \subseteq DOMAIN locs'
    BY DEF RowsStay
  <2>1. CASE UNCHANGED <<steady, stray>>
    BY <1>0, <2>0, <2>1 DEF WorldOK
  <2>2. ASSUME NEW l, NEW row, Recorded(l, row), Store(l, row)
        PROVE  steady' \subseteq Path /\ stray' \subseteq DOMAIN locs'
    <3>1. row.path \in Path
      BY <2>2 DEF Recorded, Location
    <3> QED BY <1>0, <2>0, <2>2, <3>1 DEF Store, WorldOK
  <2>3. ASSUME NEW w \in Worker, DropMissing(w)
        PROVE  steady' \subseteq Path /\ stray' \subseteq DOMAIN locs'
    BY <1>0, <2>0, <2>3 DEF DropMissing, WorldOK, WorkersOK, WorkerOK
  <2>4. CASE Environment
    BY <1>0, <2>0, <2>4 DEF Environment, ChangeFile, Mount, WorldOK
  <2>5. CASE StartScan
    BY <1>0, <2>0, <2>5 DEF StartScan, WorldOK, ScanOK
  <2> QED BY <1>0, <2>1, <2>2, <2>3, <2>4, <2>5, HistoryCases
<1>5. stamped' \subseteq Worker \cup {"upload"}
  BY <1>0, StampedCases DEF WorldOK
<1> QED BY <1>1, <1>2, <1>3, <1>4, <1>5 DEF WorldOK

-----------------------------------------------------------------------------
LEMMA UnbornFile == Unborn.file = NoFile
BY DEF Unborn

\* A worker at rest.
LEMMA RestingOK == WorkerOK(Resting) /\ Resting.pc = "idle"
<1>1. Resting \in WorkerState
  BY DEF Resting, WorkerState
<1> QED BY <1>1 DEF WorkerOK, Resting, Working, Seeing

\* Rows keep their paths, and so workers keep theirs.
LEMMA WorkerKept ==
    ASSUME RowsStay, NEW k, WorkerOK(k)
    PROVE  WorkerOK(k)'
BY DEF WorkerOK, RowsStay, Working

\* One worker moves on.
LEMMA WorkerMoved ==
    ASSUME WorkersOK, RowsStay, NEW w \in Worker, NEW k,
           worker' = [worker EXCEPT ![w] = k], WorkerOK(k)
    PROVE  WorkersOK'
BY WorkerKept DEF WorkersOK, WorkerOK

\* A worker forgets what it saw.
LEMMA Unwound ==
    ASSUME WorkersOK, NEW w \in Worker, NEW pc \in {"failing", "deferring"}, worker[w].pc \in Working,
           Unwinds(w, pc)
    PROVE  \E k : worker' = [worker EXCEPT ![w] = k] /\ WorkerOK(k)
<1> DEFINE k == [worker[w] EXCEPT !.pc = pc, !.snap = Unborn, !.file = NoFile]
<1>1. worker' = [worker EXCEPT ![w] = k]
  BY DEF Unwinds, WorkersOK
<1>2. worker[w] \in WorkerState /\ worker[w].job # 0 /\ worker[w].loc \in DOMAIN locs
  BY DEF WorkersOK, WorkerOK, Working
<1>3. k \in WorkerState /\ k.pc = pc /\ k.job # 0 /\ k.loc \in DOMAIN locs
  BY <1>2 DEF WorkerState
<1> HIDE DEF k
<1>4. WorkerOK(k)
  BY <1>3 DEF WorkerOK, Working, Seeing
<1> QED BY <1>1, <1>4

\* A worker sees a file.
LEMMA Seen ==
    ASSUME WorkersOK, NEW w \in Worker, worker[w].pc \in Working, NEW f \in File \cup {NoFile},
           NEW pc \in {"hashing", "changed", "absent"}, Sees(w, pc, f),
           worker[w].snap.status # "missing", pc = "hashing" => f = worker[w].snap.file /\ f \in File,
           pc = "changed" => f \in File, pc = "absent" => f = NoFile
    PROVE  \E k : worker' = [worker EXCEPT ![w] = k] /\ WorkerOK(k)
<1> DEFINE k == [worker[w] EXCEPT !.pc = pc, !.file = f]
<1>1. worker' = [worker EXCEPT ![w] = k]
  BY DEF Sees, WorkersOK
<1>2. /\ worker[w] \in WorkerState /\ worker[w].job # 0 /\ worker[w].loc \in DOMAIN locs
      /\ worker[w].snap \in Location /\ worker[w].snap.path = locs[worker[w].loc].path
  BY DEF WorkersOK, WorkerOK, Working
<1>3. /\ k \in WorkerState /\ k.pc = pc /\ k.file = f /\ k.job # 0 /\ k.loc = worker[w].loc
      /\ k.snap = worker[w].snap
  BY <1>2 DEF WorkerState, Working
<1> HIDE DEF k
<1>4. WorkerOK(k)
  BY <1>2, <1>3 DEF WorkerOK, Working, Seeing
<1> QED BY <1>1, <1>4

\* A worker moves on with what it saw.
LEMMA Become ==
    ASSUME WorkersOK, NEW w \in Worker, NEW pc, Becomes(w, pc),
           \/ worker[w].pc = "read" /\ pc = "claimed"
           \/ worker[w].pc = "hashing" /\ pc = "hashed"
    PROVE  \E k : worker' = [worker EXCEPT ![w] = k] /\ WorkerOK(k)
<1> DEFINE k == [worker[w] EXCEPT !.pc = pc]
<1>1. worker' = [worker EXCEPT ![w] = k]
  BY DEF Becomes, WorkersOK
<1>2. WorkerOK(worker[w]) /\ worker[w] \in WorkerState
  BY DEF WorkersOK, WorkerOK
<1>3. /\ k \in WorkerState /\ k.pc = pc /\ k.file = worker[w].file /\ k.job = worker[w].job
      /\ k.loc = worker[w].loc /\ k.snap = worker[w].snap
  BY <1>2 DEF WorkerState, Working
<1> HIDE DEF k
<1>4. WorkerOK(k)
  BY <1>2, <1>3 DEF WorkerOK, Working, Seeing
<1> QED BY <1>1, <1>4

\* A worker has read the row of its job.
LEMMA Started ==
    ASSUME Types, NEW w \in Worker, NEW j \in DOMAIN jobs, StartJob(w, j)
    PROVE  \E k : worker' = [worker EXCEPT ![w] = k] /\ WorkerOK(k)
<1> DEFINE k == [pc |-> "read", job |-> j, loc |-> jobs[j].loc, gen |-> jobs[j].gen,
                 snap |-> locs[jobs[j].loc], file |-> NoFile, root |-> mounted]
<1>1. worker' = [worker EXCEPT ![w] = k]
  BY DEF StartJob
<1>2. /\ jobs[j].loc \in DOMAIN locs /\ jobs[j].gen \in Nat /\ j \in Nat /\ j # 0
      /\ mounted \in Root
  BY DEF Types, JobTable, Job, WorldOK
<1>3. jobs[j].loc \in Nat /\ locs[jobs[j].loc] \in Location
  BY <1>2, Rowids DEF Types, TablesOK
<1>4. k \in WorkerState
  BY <1>2, <1>3 DEF WorkerState, Working
<1>5. WorkerOK(k)
  BY <1>2, <1>3, <1>4 DEF WorkerOK, Seeing
<1> QED BY <1>1, <1>5

\* Every step keeps the workers.
LEMMA WorkersStep ==
    ASSUME Tables, RowsStay, [Next]_vars
    PROVE  WorkersOK'
<1>0. /\ Types /\ WorkersOK /\ RootsExist /\ TablesOK
      /\ disk \in [Root -> [Path -> File \cup {NoFile}]]
  BY DEF Tables, Types, GateInvariant, WorldOK
<1>1. CASE worker' = worker
  BY <1>0, <1>1, WorkerKept DEF WorkersOK
<1>2. ASSUME NEW w \in Worker, NEW k, worker' = [worker EXCEPT ![w] = k], WorkerOK(k) PROVE WorkersOK'
  BY <1>0, <1>2, WorkerMoved
<1>3. ASSUME NEW w \in Worker, Rests(w) PROVE WorkersOK'
  BY <1>2, <1>3, RestingOK DEF Rests
<1>4. ASSUME NEW w \in Worker, WorkerNext(w) PROVE WorkersOK'
  <2>1. ASSUME NEW j \in DOMAIN jobs, StartJob(w, j) PROVE WorkersOK'
    BY <1>0, <1>2, <2>1, Started
  <2>2. CASE Claim(w)
    <3>1. Rests(w) \/ (Becomes(w, "claimed") /\ worker[w].pc = "read")
      BY <2>2 DEF Claim
    <3> QED BY <1>0, <1>2, <1>3, <3>1, Become
  <2>3. CASE DropMissing(w) \/ Register(w) \/ FailJob(w) \/ DeferClaim(w)
    BY <1>3, <2>3 DEF DropMissing, Register, FailJob, DeferClaim
  <2>4. CASE Resettle(w)
    <3>1. Rests(w) \/ (Unwinds(w, "failing") /\ worker[w].pc \in Working)
      BY <2>4 DEF Resettle, Working
    <3> QED BY <1>0, <1>2, <1>3, <3>1, Unwound
  <2>5. CASE MarkAbsent(w)
    <3>1. Unwinds(w, "failing") /\ worker[w].pc \in Working
      BY <2>5 DEF MarkAbsent, Working
    <3> QED BY <1>0, <1>2, <3>1, Unwound
  <2>6. There(w) \in File \cup {NoFile} \/ worker[w].pc \notin Working
    <3>1. CASE worker[w].pc \in Working
      <4>1. worker[w].root \in Root /\ worker[w].snap.path \in Path
        BY <1>0, <3>1 DEF RootsExist, WorkersOK, WorkerOK, Location
      <4> QED BY <1>0, <4>1 DEF There
    <3> QED BY <3>1
  <2>7. CASE OpenFile(w)
    <3> DEFINE f == There(w)
               pc == CASE f = NoFile -> "absent" [] f = worker[w].snap.file -> "hashing"
                       [] OTHER -> "changed"
    <3>1. /\ worker[w].pc \in Working /\ worker[w].snap.status # "missing" /\ Sees(w, pc, f)
          /\ worker[w].snap \in Location
      BY <1>0, <2>7 DEF OpenFile, Working, WorkersOK, WorkerOK
    <3>2. /\ pc \in {"hashing", "changed", "absent"} /\ f \in File \cup {NoFile}
          /\ pc = "hashing" => f = worker[w].snap.file /\ f \in File
          /\ pc = "changed" => f \in File
          /\ pc = "absent" => f = NoFile
      <4>1. f \in File \cup {NoFile} /\ worker[w].snap.file \in File /\ NoFile \notin File
        BY <2>6, <3>1, MediaAssumption DEF Location
      <4>2. CASE f = NoFile
        BY <4>1, <4>2
      <4>3. CASE f = worker[w].snap.file
        <5>1. f # NoFile
          BY <4>1, <4>3
        <5>2. pc = "hashing"
          BY <4>3, <5>1
        <5> HIDE DEF pc
        <5> QED BY <4>1, <4>3, <5>2
      <4>4. CASE f # NoFile /\ f # worker[w].snap.file
        <5>1. pc = "changed"
          BY <4>4
        <5> HIDE DEF pc
        <5> QED BY <4>1, <4>4, <5>1
      <4> QED BY <4>2, <4>3, <4>4
    <3> HIDE DEF f, pc
    <3> QED BY <1>0, <1>2, <3>1, <3>2, Seen
  <2>8. CASE HashFile(w)
    <3>1. worker[w].pc = "hashing" /\ worker[w].pc \in Working /\ worker[w].snap.status # "missing"
      BY <1>0, <2>8 DEF HashFile, Working, WorkersOK, WorkerOK, Seeing
    <3>2. \/ Unwinds(w, "failing") \/ Becomes(w, "hashed")
          \/ There(w) # NoFile /\ Sees(w, "changed", There(w))
      BY <2>8 DEF HashFile
    <3>3. CASE Unwinds(w, "failing")
      BY <1>0, <1>2, <3>1, <3>3, Unwound
    <3>4. CASE Becomes(w, "hashed")
      BY <1>0, <1>2, <3>1, <3>4, Become
    <3>5. CASE There(w) # NoFile /\ Sees(w, "changed", There(w))
      <4> DEFINE f == There(w)
      <4>1. f \in File \cup {NoFile} /\ f \in File /\ Sees(w, "changed", f)
        BY <2>6, <3>1, <3>5
      <4> HIDE DEF f
      <4> QED BY <1>0, <1>2, <3>1, <4>1, Seen
    <3> QED BY <3>2, <3>3, <3>4, <3>5
  <2> QED BY <1>4, <2>1, <2>2, <2>3, <2>4, <2>5, <2>7, <2>8 DEF WorkerNext
<1>5. CASE Restart
  <2>1. worker' = [w \in Worker |-> Resting]
    BY <1>5 DEF Restart
  <2>2. WorkerOK(Resting)'
    BY RestingOK, WorkerKept
  <2>3. Resting \in WorkerState
    BY RestingOK DEF WorkerOK
  <2> QED BY <2>1, <2>2, <2>3 DEF WorkersOK
<1>6. ASSUME NEW w \in Worker, Break(w) PROVE WorkersOK'
  <2>1. PICK pc \in {"failing", "deferring"} : worker[w].pc \in Working /\ Unwinds(w, pc)
    BY <1>6 DEF Break
  <2> QED BY <1>0, <1>2, <2>1, Unwound
<1>7. CASE ScanNext
  BY <1>1, <1>7 DEF ScanNext, BeginScan, StartScan, RefuseScan, EnterDirectory, VisitFile, FlushPath, FindMissing,
     MarkMissing, MarkBlocked, SaveDirectories, FinishScan
<1>8. CASE UploadNext \/ AdminNext \/ RecoverClaims
  BY <1>1, <1>8 DEF UploadNext, OpenUpload, QueueUpload, AdminNext, AcceptRoot, RequeueFailed,
     RepairMetadata, RecoverClaims
<1>9. CASE Faults
  BY <1>1, <1>5, <1>6, <1>9 DEF Faults, AbortScan, UploadFails
<1>10. CASE Environment \/ UNCHANGED vars \/ \E l \in DOMAIN locs : Settle(l)
  BY <1>1, <1>10 DEF Environment, ChangeFile, Mount, vars, Settle
<1> QED BY <1>4, <1>7, <1>8, <1>9, <1>10 DEF Next

\* Types is preserved by every step.
LEMMA TypesStep == ASSUME Tables, [Next]_vars PROVE Types' /\ VisibleIfHeld' /\ RowsStay
<1>1. TablesOK' /\ RowsStay /\ Showing'
  BY RowsStep DEF Tables
<1>2. ScanOK' /\ UploadOK' /\ WorkersOK' /\ WorldOK'
  BY <1>1, ScanStep, UploadStep, WorkersStep, WorldStep
<1>3. JobTable(jobs, DOMAIN locs)'
  <2>1. Evolves(jobs, jobs', DOMAIN locs')
    BY JobsStep DEF Onward
  <2>2. JobTable(jobs, DOMAIN locs) /\ DOMAIN locs \subseteq DOMAIN locs'
    BY <1>1 DEF Tables, Types, RowsStay
  <2> QED BY <2>1, <2>2, EvolvedTable
<1> QED BY <1>1, <1>2, <1>3 DEF Types, Showing

-----------------------------------------------------------------------------
(* A claim is held by one worker, until that worker gives it up.           *)

\* Workers that begin nothing go on with the job that they have.
GoesOn(w) ==
    /\ worker'[w].job \in {worker[w].job, 0}
    /\ worker'[w].pc # "idle" =>
         /\ worker[w].pc # "idle" /\ worker'[w].job = worker[w].job
         /\ worker'[w].loc = worker[w].loc /\ worker'[w].gen = worker[w].gen
         /\ worker'[w].pc \in Claiming => worker[w].pc \in Claiming
         /\ worker'[w].pc = "read" => worker[w].pc = "read"
Ongoing == \A w \in Worker : GoesOn(w)

\* A worker that holds a claim goes on with it, or gives it up.
LEMMA WorkerCases ==
    ASSUME WorkersOK, [Next]_vars
    PROVE  \/ \E w \in Worker, j \in DOMAIN jobs : StartJob(w, j)
           \/ \E w \in Worker : Claim(w) /\ ~Rests(w)
           \/ Ongoing
<1> DEFINE G == \/ \E w \in Worker, j \in DOMAIN jobs : StartJob(w, j)
                \/ \E w \in Worker : Claim(w) /\ ~Rests(w)
                \/ Ongoing
<1>0. worker \in [Worker -> WorkerState] /\ Resting.pc = "idle" /\ Resting.job = 0
  BY DEF WorkersOK, Resting
<1>1. CASE worker' = worker
  BY <1>1 DEF Ongoing, GoesOn
<1>2. ASSUME NEW w \in Worker, Rests(w) PROVE Ongoing
  BY <1>0, <1>2 DEF Rests, Ongoing, GoesOn
<1>3. ASSUME NEW w \in Worker, NEW pc \in {"failing", "deferring"}, worker[w].pc \in Working, Unwinds(w, pc)
      PROVE  Ongoing
  BY <1>0, <1>3 DEF Unwinds, Ongoing, GoesOn, WorkerState, Claiming, Working
<1>4. ASSUME NEW w \in Worker, NEW pc, NEW f, worker[w].pc \in Claiming, pc \in Claiming,
             Sees(w, pc, f) \/ Becomes(w, pc)
      PROVE  Ongoing
  BY <1>0, <1>4 DEF Sees, Becomes, Ongoing, GoesOn, WorkerState, Claiming
<1>5. ASSUME NEW w \in Worker, WorkerNext(w) PROVE G
  <2>1. CASE DropMissing(w) \/ Register(w) \/ FailJob(w) \/ DeferClaim(w)
    BY <1>2, <2>1 DEF DropMissing, Register, FailJob, DeferClaim
  <2>2. CASE Resettle(w) \/ MarkAbsent(w)
    BY <1>2, <1>3, <2>2 DEF Resettle, MarkAbsent, Working
  <2>3. CASE OpenFile(w)
    <3>1. PICK pc \in Claiming : Sees(w, pc, There(w)) /\ worker[w].pc \in Claiming
      BY <2>3 DEF OpenFile, Claiming
    <3> QED BY <1>4, <3>1
  <2>4. CASE HashFile(w)
    <3>1. /\ worker[w].pc \in Claiming /\ worker[w].pc \in Working
          /\ Unwinds(w, "failing") \/ Becomes(w, "hashed") \/ Sees(w, "changed", There(w))
      BY <2>4 DEF HashFile, Claiming, Working
    <3>2. "hashed" \in Claiming /\ "changed" \in Claiming
      BY DEF Claiming
    <3> QED BY <1>3, <1>4, <3>1, <3>2
  <2>5. CASE Claim(w)
    BY <1>2, <2>5
  <2> QED BY <1>5, <2>1, <2>2, <2>3, <2>4, <2>5 DEF WorkerNext
<1>6. CASE Restart
  <2>1. worker' = [w \in Worker |-> Resting]
    BY <1>6 DEF Restart
  <2> QED BY <1>0, <2>1 DEF Ongoing, GoesOn
<1>7. CASE ScanNext
  BY <1>1, <1>7 DEF ScanNext, BeginScan, StartScan, RefuseScan, EnterDirectory, VisitFile, FlushPath, FindMissing,
     MarkMissing, MarkBlocked, SaveDirectories, FinishScan
<1>8. CASE UploadNext \/ AdminNext \/ RecoverClaims
  BY <1>1, <1>8 DEF UploadNext, OpenUpload, QueueUpload, AdminNext, AcceptRoot, RequeueFailed,
     RepairMetadata, RecoverClaims
<1>9. CASE Faults
  BY <1>1, <1>3, <1>6, <1>9 DEF Faults, AbortScan, UploadFails, Break
<1>10. CASE Environment \/ UNCHANGED vars \/ \E l \in DOMAIN locs : Settle(l)
  BY <1>1, <1>10 DEF Environment, ChangeFile, Mount, vars, Settle
<1> QED BY <1>5, <1>7, <1>8, <1>9, <1>10 DEF Next

\* A claim is remembered only by the worker that held it.
LEMMA RememberedCases ==
    ASSUME [Next]_vars
    PROVE  remembered' \subseteq remembered \/ \E w \in Worker : DeferClaim(w)
<1>1. CASE ScanNext
  BY <1>1 DEF ScanNext, BeginScan, StartScan, RefuseScan, EnterDirectory, VisitFile, FlushPath, FindMissing,
     MarkMissing, MarkBlocked, SaveDirectories, FinishScan
<1>2. CASE UploadNext \/ AdminNext \/ RecoverClaims
  BY <1>2 DEF UploadNext, OpenUpload, QueueUpload, AdminNext, AcceptRoot, RequeueFailed,
     RepairMetadata, RecoverClaims
<1>3. ASSUME NEW w \in Worker, WorkerNext(w) PROVE remembered' \subseteq remembered \/ DeferClaim(w)
  BY <1>3 DEF WorkerNext, StartJob, Claim, DropMissing, OpenFile, HashFile, Register, Resettle,
     MarkAbsent, FailJob
<1>4. CASE Faults \/ Environment \/ UNCHANGED vars \/ \E l \in DOMAIN locs : Settle(l)
  BY <1>4 DEF Faults, AbortScan, UploadFails, Restart, Break, Environment, ChangeFile, Mount, vars, Settle
<1> QED BY <1>1, <1>2, <1>3, <1>4 DEF Next

\* StartJob moves one worker.
LEMMA StartedWorker ==
    ASSUME WorkersOK, NEW w \in Worker, NEW j \in DOMAIN jobs, StartJob(w, j)
    PROVE  /\ worker'[w].pc = "read" /\ worker'[w].job = j /\ worker'[w].loc = jobs[j].loc
           /\ \A v \in Worker : v # w => worker'[v] = worker[v]
           /\ UNCHANGED <<jobs, remembered>> /\ remembered = {}
           /\ \A v \in Worker : worker[v].job # j
BY DEF StartJob, WorkersOK, catalog

\* A worker that holds a claim after a step held it before, or has just claimed it.
LEMMA ClaimingWorker ==
    ASSUME Tables, NEW w \in Worker, Claim(w), ~Rests(w)
    PROVE  /\ worker[w].pc = "read" /\ worker'[w].pc = "claimed" /\ worker'[w].job = worker[w].job
           /\ worker'[w].loc = worker[w].loc /\ worker'[w].gen = worker[w].gen
           /\ \A v \in Worker : v # w => worker'[v] = worker[v]
           /\ worker[w].job \in DOMAIN jobs' /\ jobs'[worker[w].job].loc = worker[w].loc
           /\ jobs'[worker[w].job].gen = worker[w].gen /\ jobs'[worker[w].job].status = "running"
           /\ remembered' = remembered
<1> DEFINE j == worker[w].job
<1>1. /\ worker[w].pc = "read" /\ Claimable(j) /\ jobs' = [jobs EXCEPT ![j].status = "running"]
      /\ Becomes(w, "claimed") /\ remembered' = remembered
  BY DEF Claim
<1>2. /\ JobTable(jobs, DOMAIN locs) /\ worker \in [Worker -> WorkerState] /\ GateHeld /\ Claims
  BY DEF Tables, Types, WorkersOK, GateInvariant
<1>3. /\ j \in DOMAIN jobs /\ jobs[j].status = "queued" /\ jobs[j].gen = root.generation
      /\ jobs[j].loc = worker[w].loc /\ worker[w].gen = root.generation
  BY <1>1, <1>2 DEF Claimable, Claims, GateHeld, Working
<1>4. /\ j \in DOMAIN jobs' /\ jobs'[j].status = "running" /\ jobs'[j].loc = jobs[j].loc
      /\ jobs'[j].gen = jobs[j].gen
  BY <1>1, <1>2, <1>3, ClaimedOnward
<1>5. /\ worker'[w].pc = "claimed" /\ worker'[w].job = j
      /\ worker'[w].loc = worker[w].loc /\ worker'[w].gen = worker[w].gen
      /\ \A v \in Worker : v # w => worker'[v] = worker[v]
  BY <1>1, <1>2 DEF Becomes, WorkerState
<1> QED BY <1>1, <1>3, <1>4, <1>5

\* Every step keeps the claims.
LEMMA ClaimsStep == ASSUME Tables, [Next]_vars PROVE Claims'
<1>0. WorkersOK /\ Claims /\ WorkersOK'
  BY TypesStep DEF Tables, Types
<1>1. PICK own : Onward(own) /\ ClaimsOutside(own)
  BY JobsStep
<1>2. ASSUME NEW w \in Worker, worker[w].pc \in Claiming, worker'[w].pc \in Claiming, GoesOn(w)
      PROVE  /\ worker'[w].job \in DOMAIN jobs'
             /\ jobs'[worker'[w].job].loc = worker'[w].loc
             /\ jobs'[worker'[w].job].gen = worker'[w].gen
             /\ jobs'[worker'[w].job].status = "running"
  <2>1. worker[w].job \in DOMAIN jobs /\ jobs[worker[w].job].status = "running" /\ worker[w].job \notin own
    BY <1>0, <1>1, <1>2 DEF Claims, ClaimsOutside
  <2>2. worker[w].job \in DOMAIN jobs' /\ jobs'[worker[w].job] = jobs[worker[w].job]
    BY <1>1, <2>1 DEF Onward, Spared
  <2> QED BY <1>0, <1>2, <2>2 DEF Claims, GoesOn, Claiming
<1>3. ASSUME NEW w \in Worker, worker[w].pc = "read", worker'[w].pc = "read", GoesOn(w),
             worker'[w].job \in DOMAIN jobs'
      PROVE  jobs'[worker'[w].job].loc = worker'[w].loc
  <2>1. worker'[w].job = worker[w].job /\ worker'[w].loc = worker[w].loc
    BY <1>3 DEF GoesOn
  <2>2. worker[w].job \notin FreeJobs
    BY DEF FreeJobs, Referred
  <2>3. worker[w].job \in DOMAIN jobs /\ jobs'[worker[w].job].loc = jobs[worker[w].job].loc
    BY <1>1, <1>3, <2>1, <2>2 DEF Onward, Evolves
  <2> QED BY <1>0, <1>3, <2>1, <2>3 DEF Claims
<1>4. ASSUME NEW w \in Worker, worker'[w] = worker[w] PROVE GoesOn(w)
  BY <1>4 DEF GoesOn
<1> DEFINE Own(w) == /\ worker'[w].pc \in Claiming =>
                          /\ worker'[w].job \in DOMAIN jobs'
                          /\ jobs'[worker'[w].job].loc = worker'[w].loc
                          /\ jobs'[worker'[w].job].gen = worker'[w].gen
                          /\ jobs'[worker'[w].job].status = "running"
                     /\ worker'[w].pc = "read" /\ worker'[w].job \in DOMAIN jobs' =>
                          jobs'[worker'[w].job].loc = worker'[w].loc
<1>5. ASSUME NEW w \in Worker, GoesOn(w) PROVE Own(w)
  <2>1. CASE worker'[w].pc \in Claiming
    <3>1. worker[w].pc \in Claiming /\ worker'[w].pc # "read"
      BY <1>5, <2>1 DEF GoesOn, Claiming
    <3> QED BY <1>2, <1>5, <2>1, <3>1
  <2>2. CASE worker'[w].pc = "read"
    <3>1. worker[w].pc = "read" /\ worker'[w].pc \notin Claiming
      BY <1>5, <2>2 DEF GoesOn, Claiming
    <3> QED BY <1>3, <1>5, <2>2, <3>1
  <2> QED BY <2>1, <2>2
<1> DEFINE Apart == /\ \A w \in Worker : worker'[w].pc # "idle" => worker'[w].job \notin remembered'
                    /\ \A v, w \in Worker : v # w /\ worker'[v].pc # "idle" =>
                          worker'[v].job # worker'[w].job
<1> SUFFICES (\A w \in Worker : Own(w)) /\ Apart
  <2> HIDE DEF Own, Apart
  <2> QED BY DEF Claims, Own, Apart
<1>6. ASSUME NEW w \in Worker, NEW j \in DOMAIN jobs, StartJob(w, j)
      PROVE  (\A v \in Worker : Own(v)) /\ Apart
  <2>1. /\ worker'[w].pc = "read" /\ worker'[w].job = j /\ worker'[w].loc = jobs[j].loc
        /\ \A v \in Worker : v # w => worker'[v] = worker[v]
        /\ UNCHANGED <<jobs, remembered>> /\ remembered = {}
        /\ \A v \in Worker : worker[v].job # j
    BY <1>0, <1>6, StartedWorker
  <2>2. Own(w)
    BY <2>1 DEF Claiming
  <2>3. Apart
    BY <1>0, <2>1 DEF Claims
  <2> HIDE DEF Own, Apart
  <2> QED BY <1>4, <1>5, <2>1, <2>2, <2>3
<1>7. ASSUME NEW w \in Worker, Claim(w), ~Rests(w) PROVE (\A v \in Worker : Own(v)) /\ Apart
  <2>1. /\ worker[w].pc = "read" /\ worker'[w].pc = "claimed" /\ worker'[w].job = worker[w].job
        /\ worker'[w].loc = worker[w].loc /\ worker'[w].gen = worker[w].gen
        /\ \A v \in Worker : v # w => worker'[v] = worker[v]
        /\ worker[w].job \in DOMAIN jobs' /\ jobs'[worker[w].job].loc = worker[w].loc
        /\ jobs'[worker[w].job].gen = worker[w].gen /\ jobs'[worker[w].job].status = "running"
        /\ remembered' = remembered
    BY <1>7, ClaimingWorker
  <2>2. Own(w)
    BY <2>1
  <2>3. Apart
    BY <1>0, <2>1 DEF Claims
  <2> HIDE DEF Own, Apart
  <2> QED BY <1>4, <1>5, <2>1, <2>2, <2>3
<1>8. CASE Ongoing
  <2>1. \A w \in Worker : Own(w)
    <3> HIDE DEF Own
    <3> QED BY <1>5, <1>8 DEF Ongoing
  <2>2. \A v, w \in Worker : v # w /\ worker'[v].pc # "idle" => worker'[v].job # worker'[w].job
    <3> SUFFICES ASSUME NEW v \in Worker, NEW w \in Worker, v # w, worker'[v].pc # "idle"
                 PROVE  worker'[v].job # worker'[w].job
      OBVIOUS
    <3>1. worker[v].pc # "idle" /\ worker'[v].job = worker[v].job /\ worker'[w].job \in {worker[w].job, 0}
      BY <1>8 DEF Ongoing, GoesOn
    <3>2. worker[v].job # 0 /\ worker[v].job # worker[w].job
      BY <1>0, <3>1 DEF Claims, WorkersOK, WorkerOK
    <3> QED BY <3>1, <3>2
  <2>3. \A w \in Worker : worker'[w].pc # "idle" => worker'[w].job \notin remembered'
    <3>1. CASE remembered' \subseteq remembered
      BY <1>0, <1>8, <3>1 DEF Ongoing, GoesOn, Claims
    <3>2. ASSUME NEW v \in Worker, DeferClaim(v)
          PROVE  \A w \in Worker : worker'[w].pc # "idle" => worker'[w].job \notin remembered'
      <4>1. /\ remembered' \subseteq remembered \cup {worker[v].job}
            /\ worker[v].pc = "deferring" /\ worker'[v].pc = "idle"
        BY <1>0, <3>2 DEF DeferClaim, Rests, Resting, WorkersOK
      <4> QED BY <1>0, <1>8, <4>1 DEF Ongoing, GoesOn, Claims
    <3> QED BY <3>1, <3>2, RememberedCases
  <2> QED BY <2>1, <2>2, <2>3
<1> HIDE DEF Own, Apart
<1> QED BY <1>0, <1>6, <1>7, <1>8, WorkerCases

-----------------------------------------------------------------------------
(* What holds of the tables between two transactions.                      *)

\* While the root was never replaced, no row has two jobs to be done.
Unique ==
    /\ root.generation \in Nat \ {0} /\ (root.generation = 1 => ~root.pending)
    /\ root.generation = 1 => LiveOnce(jobs)
CatalogSound == Tables /\ Unique

\* Every step keeps them so: who queues a row looks for a job of it first.
LEMMA UniqueStep == ASSUME Tables, Unique, [Next]_vars PROVE Unique'
<1>0. /\ root.generation \in Nat \ {0} /\ (root.generation = 1 => ~root.pending) /\ JobsHeld /\ GateHeld
      /\ root.generation = 1 => LiveOnce(jobs)
  BY DEF Tables, GateInvariant, Unique
<1>1. /\ root'.generation \in Nat \ {0} /\ (root'.generation = 1 => ~root'.pending)
      /\ root'.generation = 1 => root.generation = 1
  <2>1. CASE root' = root
    BY <1>0, <2>1
  <2>2. CASE FinishScan
    <3>1. /\ root'.generation = scan.gen /\ root'.pending = StillPending /\ scan.pc # "idle"
      BY <2>2 DEF FinishScan
    <3>2. scan.gen = root.generation /\ scan.pending = root.pending
      BY <1>0, <3>1 DEF GateHeld
    <3> QED BY <1>0, <3>1, <3>2 DEF StillPending
  <2>3. CASE AcceptRoot
    <3>1. root'.generation = root.generation + 1
      BY <2>3 DEF AcceptRoot
    <3> QED BY <1>0, <3>1
  <2> QED BY <2>1, <2>2, <2>3, RootCases
<1>2. ASSUME root'.generation = 1 PROVE LiveOnce(jobs)'
  <2>1. LiveOnce(jobs) /\ OfGenerations(jobs, {root.generation})
    BY <1>0, <1>1, <1>2 DEF JobsHeld
  <2>2. PICK own : Onward(own)
    BY JobsStep
  <2> QED BY <2>1, <2>2 DEF Onward, LiveOnce
<1> QED BY <1>1, <1>2 DEF Unique

\* Initially.
LEMMA SoundInit == Init => CatalogSound
<1> SUFFICES ASSUME Init PROVE CatalogSound
  OBVIOUS
<1>1. /\ locs = << >> /\ DOMAIN locs = {} /\ DOMAIN jobs = {}
      /\ \A c \in Content : Holders(locs, c, "active") = {}
      /\ \A c \in Content : Holders(locs, c, "permission_blocked") = {}
  BY DEF Init, Holders
<1>2. WorldOK
  <2>1. disk \in [Root -> [Path -> File \cup {NoFile}]]
    BY DEF Init
  <2> QED BY <2>1 DEF Init, WorldOK
<1>3. TablesOK
  <2>1. << >> \in Seq(Location)
    OBVIOUS
  <2>2. latest \in [Path -> Nat] /\ \A p \in Path : latest[p] = 0
    BY DEF Init
  <2>3. \A p \in Path : Current(p) = {}
    BY <1>1 DEF Current
  <2> QED BY <1>1, <2>1, <2>2, <2>3 DEF TablesOK
<1>4. AssetsOK /\ VisibleIfHeld
  <2>1. assets \in [Content -> Asset] /\ \A c \in Content : assets[c].visibility = "none" /\ assets[c].primary = 0
    BY DEF Init, Asset
  <2> QED BY <1>1, <2>1 DEF AssetsOK, VisibleIfHeld
<1>5. ScanOK
  BY NoScanOK DEF Init, ScanOK
<1>6. UploadOK
  BY NothingStarted DEF Init, UploadOK
<1>7. WorkersOK
  BY RestingOK DEF Init, WorkersOK, WorkerOK
<1>8. JobTable(jobs, DOMAIN locs)
  BY <1>1 DEF Init, JobTable
<1>9. Claims
  BY NothingStarted DEF Init, Claims, Claiming
<1>10. Unique
  BY <1>1 DEF Init, Unique, LiveOnce
<1> QED BY <1>2, <1>3, <1>4, <1>5, <1>6, <1>7, <1>8, <1>9, <1>10, GateInit DEF CatalogSound, Tables, Types

\* At every step.
LEMMA SoundStep == CatalogSound /\ [Next]_vars => CatalogSound'
<1> SUFFICES ASSUME Tables, Unique, [Next]_vars PROVE CatalogSound'
  BY DEF CatalogSound
<1>1. Types' /\ VisibleIfHeld'
  BY TypesStep
<1>2. GateInvariant'
  BY GateStep DEF Tables
<1> QED BY <1>1, <1>2, ClaimsStep, UniqueStep DEF CatalogSound, Tables

LEMMA TypesOK == Types => TypeOK
<1> SUFFICES ASSUME Types PROVE TypeOK
  OBVIOUS
<1>1. \A c \in Content : assets[c].primary \in Nat
  BY DEF Types, AssetsOK, Asset
<1>2. DOMAIN jobs \subseteq 1..MaxJob /\ \A j \in DOMAIN jobs : jobs[j] \in Job
  BY DEF Types, JobTable
<1> QED BY <1>1, <1>2 DEF Types, WorldOK, TablesOK, TypeOK

\* Two different jobs are needed for a cardinality above one.
LEMMA OneAtMost ==
    ASSUME NEW S, \A x, y \in S : x = y
    PROVE  Cardinality(S) <= 1
<1>1. CASE S = {}
  BY <1>1, FS_EmptySet
<1>2. ASSUME NEW x \in S PROVE Cardinality(S) <= 1
  <2>1. S = {x}
    BY <1>2
  <2> QED BY <2>1, FS_Singleton
<1> QED BY <1>1, <1>2

LEMMA UniqueJobs == Unique => OneLiveJob
<1> SUFFICES ASSUME Unique, root.generation = 1, NEW l \in DOMAIN locs
             PROVE  Cardinality(Live(jobs, l)) <= 1
  BY DEF OneLiveJob
<1>1. \A i, j \in Live(jobs, l) : i = j
  BY DEF Unique, LiveOnce, Live, Jobs
<1> QED BY <1>1, OneAtMost

\* What holds of the tables between two transactions (catalog_store.go, local_scan.go): rows,
\* assets and jobs have their types; an asset is shown exactly while one of its rows is active, is
\* served from such a row, and is shown as blocked exactly while its last rows are; and unless the
\* root was replaced no row has two jobs to be done - whatever scans, uploads, workers, repairs,
\* administrators, failures and restarts do between two transactions.
THEOREM CatalogHolds == Spec => []CatalogInvariant
<1>1. CatalogSound => CatalogInvariant
  BY TypesOK, UniqueJobs DEF CatalogSound, Tables, CatalogInvariant
<1> QED BY <1>1, SoundInit, SoundStep, PTL DEF Spec
=============================================================================

