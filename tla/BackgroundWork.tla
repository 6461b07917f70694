--------------------------- MODULE BackgroundWork ---------------------------
(***************************************************************************)
(* The scheduler of heavy background work, and the gate that makes it      *)
(* yield to foreground requests.                                           *)
(*                                                                         *)
(* One loop decides what to start next from a summary of the work that the *)
(* catalog holds.  The summary is recomputed without its mutex, in several *)
(* reads, while workers, discovery and administrators change the catalog   *)
(* and correct the summary; a sequence number tells the loop that what it  *)
(* read may be out of date.                                                *)
(***************************************************************************)
EXTENDS Naturals, FiniteSets

CONSTANTS Request,      \* foreground requests: gallery, search, media
          Config,       \* configurations an administrator may choose
          Batch,        \* jobs of one assignment, at most
          Arriving,     \* phases whose jobs others than the workers add
          Backlog,      \* jobs that an earlier run of the program may have left
          MaxEvents     \* bound: arrivals, requests, failures, changes together

ASSUME ConfigAssumption ==
    Config \subseteq [local : BOOLEAN, semantic : BOOLEAN, workers : Nat] /\ Config # {}
ASSUME BoundAssumption ==
    Batch \in Nat \ {0} /\ MaxEvents \in Nat

VARIABLES conf,     \* the configuration in force
          admin,    \* a change of it under way, under configMutationMu
          todo,     \* jobs of the catalog that could be done now, by phase
          settling, \* metadata jobs whose time has not come
          cache,    \* schedulerWorkState
          moved,    \* schedulerWorkStateSeq has moved since the loop read it
          active,   \* backgroundWorkerActive: workers taken, by phase
          deferred, \* phases with a retry time in the future
          loop,     \* the scheduler goroutine
          wake,     \* the token in its wake channel
          work,     \* the goroutine of an assignment, by phase
          waking,   \* an ended assignment is about to wake the loop
          front,    \* foreground requests
          notice,   \* somebody who added a job and is about to say so
          events    \* bound

vars == <<conf, admin, todo, settling, cache, moved, active, deferred, loop, wake,
          work, waking, front, notice, events>>

Local == {"metadata", "thumbnails", "content_verification"}
Semantic == {"embeddings", "search_index"}
Phase == Local \cup Semantic

\* Phases that run under a context which foreground requests cancel.
Gated == Semantic \cup {"content_verification"}

ASSUME ArrivingAssumption == Arriving \subseteq Phase
ASSUME BacklogAssumption == Backlog \subseteq [Phase -> Nat] /\ Backlog # {}

None == [p \in Phase |-> 0]
Less(n, k) == IF n > k THEN n - k ELSE 0
Least(n, k) == IF n < k THEN n ELSE k
Sum(f) == f["metadata"] + f["thumbnails"] + f["embeddings"] + f["search_index"]
          + f["content_verification"]

\* The configuration as a summary records it: local files, semantic schedule,
\* semantic workers.
Hash(c) == [local |-> c.local, semantic |-> c.semantic, embeds |-> c.semantic /\ c.workers > 0]

-----------------------------------------------------------------------------
(* The summary.  "ready" is SemanticEmbeddingReady, "hint" counts generated*)
(* thumbnails that may want an embedding, "later" stands for a semantic    *)
(* retry time.  "gap" is a history that the code does not keep: why the    *)
(* summary may lack semantic work although it is fresh.                    *)

Empty(h) == [known |-> FALSE, dirty |-> FALSE, lapsed |-> FALSE, hash |-> h, count |-> None,
             settling |-> 0, ready |-> FALSE, hint |-> 0, later |-> FALSE, gap |-> {}]

Fresh == cache.known /\ ~cache.dirty /\ ~cache.lapsed /\ cache.hash = Hash(conf)

\* Whoever changes the summary moves its sequence number.
Reading == {"gate", "admit", "local", "thumbs", "semantic", "install"}
Correct(c) == cache' = c /\ moved' = (loop.pc \in Reading)
Dirtied(c) == [c EXCEPT !.dirty = TRUE]
MarkDirty == Correct(Dirtied(cache))

\* Arrivals, requests, failures and changes of the configuration: a bound.
Counts(b) == (b => events < MaxEvents) /\ events' = events + (IF b THEN 1 ELSE 0)

\* An assignment takes its jobs out of the summary.
Assigned(p, planned) ==
    IF planned = 0 THEN cache
    ELSE [cache EXCEPT !.count[p] = IF p = "content_verification" THEN 0 ELSE Less(@, planned)]

\* A batch of metadata or thumbnails returns what it did not do, and announces
\* the jobs it made for the next phase.
Reported(p, w) ==
    LET kept == [cache EXCEPT !.count[p] = IF w.planned > 0 THEN @ + Less(w.planned, w.done)
                                           ELSE Less(@, w.done)]
    IN  [IF p = "metadata" THEN [kept EXCEPT !.count["thumbnails"] = @ + w.found]
         ELSE IF cache.hash.embeds THEN [kept EXCEPT !.hint = @ + w.found] ELSE kept
         EXCEPT !.dirty = @ \/ w.odd \/ (w.done = 0 /\ w.planned > 0)]

\* Failed batches report the jobs they did, or else release the whole plan.
Released(p, w) ==
    Dirtied(IF w.done > 0 THEN Reported(p, w) ELSE [cache EXCEPT !.count[p] = @ + w.planned])

\* An embedding run brings the status of the catalog, which includes the hints
\* seen before the run began, and no others.
Embedded(w) ==
    [cache EXCEPT !.count = [@ EXCEPT !["embeddings"] = w.found, !["search_index"] = 1],
                  !.ready = @ /\ w.found > 0, !.hint = Less(@, w.hint), !.later = FALSE,
                  !.gap = IF w.replaced THEN @ \cup {"replaced"} ELSE @]

\* A mixed run that found nothing in the catalog; a scheduled one.
Discarded == [Dirtied(cache) EXCEPT !.count["embeddings"] = 0, !.hint = 0]
NoWork == [cache EXCEPT !.ready = FALSE, !.later = TRUE]

-----------------------------------------------------------------------------
(* Foreground requests and the gate.                                       *)

Quiet == \A r \in Request : front[r] = "off"

\* Who waited for quiet looks again, under the mutex, before it registers.
\* Broken variant: it does not.
AdmitsAlways == TRUE
Admits == Quiet

\* The context of the loop's reads, or of a worker, is registered with the gate.
LoopRegistered == loop.pc \in {"local", "thumbs", "semantic"}
WorkRegistered(p) == p \in Gated /\ work[p].pc \in {"run", "held", "report", "after"}

\* A request is counted first, and cancels what is registered in a second step.
BeginCount(r) ==
    /\ front[r] = "off" /\ Counts(TRUE)
    /\ front' = [front EXCEPT ![r] = "begun"]
    /\ UNCHANGED <<conf, admin, todo, settling, cache, moved, active, deferred, loop, wake, waking,
                   work, notice>>

BeginCancel(r) ==
    /\ front[r] = "begun"
    /\ front' = [front EXCEPT ![r] = "in"]
    /\ loop' = [loop EXCEPT !.cut = @ \/ LoopRegistered]
    /\ work' = [p \in Phase |-> [work[p] EXCEPT !.cut = @ \/ WorkRegistered(p)]]
    /\ UNCHANGED <<conf, admin, todo, settling, cache, moved, active, deferred, wake, waking, notice,
                   events>>

\* The response is complete, and the quiet period after it is over.
EndRequest(r) ==
    /\ front[r] = "in"
    /\ front' = [front EXCEPT ![r] = "off"]
    /\ UNCHANGED <<conf, admin, todo, settling, cache, moved, active, deferred, loop, wake, waking,
                   work, notice, events>>

-----------------------------------------------------------------------------
(* Others who add jobs: discovery, mirror sync, uploads, the schedule of   *)
(* content verification, administrators.  The catalog changes first, then  *)
(* the summary is marked, then the loop is woken.                          *)

Arrive(p) ==
    /\ p \in Arriving /\ notice = "none" /\ Counts(TRUE)
    /\ notice' = "dirty"
    /\ \/ todo' = [todo EXCEPT ![p] = IF p = "search_index" THEN 1 ELSE @ + 1] /\ UNCHANGED settling
       \/ p = "metadata" /\ settling' = settling + 1 /\ UNCHANGED todo
    /\ UNCHANGED <<conf, admin, cache, moved, active, deferred, loop, wake, waking, work, front>>

Notify ==
    /\ \/ notice = "dirty" /\ MarkDirty /\ notice' = "wake" /\ UNCHANGED wake
       \/ notice = "wake" /\ wake' = (loop.pc # "off") /\ notice' = "none" /\ UNCHANGED <<cache, moved>>
    /\ UNCHANGED <<conf, admin, todo, settling, active, deferred, loop, work, waking, front, events>>

\* Times pass by the clock: they are over also for a summary that was read but
\* is not installed yet.
Expires(installed, read) ==
    /\ cache' = [cache EXCEPT !.lapsed = @ \/ installed]
    /\ loop' = [loop EXCEPT !.seen.lapsed = @ \/ read]

\* The settling time of a file ends.  A summary that knows of it is due.
Settle ==
    /\ settling > 0
    /\ settling' = settling - 1
    /\ todo' = [todo EXCEPT !["metadata"] = @ + 1]
    /\ Expires(cache.settling > 0, loop.seen.settling > 0)
    /\ UNCHANGED <<conf, admin, moved, active, deferred, wake, waking, work, front, notice, events>>

\* The summary gets half an hour old.
Lapse ==
    /\ Fresh /\ Counts(TRUE)
    /\ cache' = [cache EXCEPT !.lapsed = TRUE]
    /\ UNCHANGED <<conf, admin, todo, settling, moved, active, deferred, loop, wake, waking, work, front,
                   notice>>

\* A retry time comes.
RetryDue(p) ==
    /\ p \in deferred
    /\ deferred' = deferred \ {p}
    /\ Expires(p = "embeddings" /\ cache.later, p = "embeddings" /\ loop.seen.later)
    /\ UNCHANGED <<conf, admin, todo, settling, moved, active, wake, waking, work, front, notice,
                   events>>

-----------------------------------------------------------------------------
(* The loop.                                                               *)

Configured == conf.local \/ conf.semantic \/ todo["search_index"] > 0

NoLoop == [pc |-> "off", nap |-> "short", started |-> FALSE, avail |-> 0, busy |-> FALSE,
           cut |-> FALSE, ends |-> FALSE, seen |-> Empty(Hash(conf))]

\* backgroundWorkerIdleInterval: a short delay, or half an hour.
\* Broken variant: a retry time of local work does not shorten it.
RetriesWait == FALSE
RetriesSoon == deferred \cap Local # {}
ShortNap ==
    \/ conf.local /\ \/ \E p \in {"metadata", "thumbnails"} : cache.count[p] > 0 /\ p \notin deferred
                     \/ cache.dirty \/ ~cache.known \/ cache.settling > 0
    \/ cache.later \/ conf.semantic \/ RetriesSoon

Rest(l) == [NoLoop EXCEPT !.pc = "sleep", !.ends = l.ends, !.seen = Empty(Hash(conf)),
                          !.nap = IF l.started \/ ShortNap THEN "short" ELSE "long"]

\* The loop ends for good: its context is cancelled, and with it its workers'.
Leave ==
    /\ loop' = NoLoop /\ wake' = FALSE
    /\ work' = [p \in Phase |-> [work[p] EXCEPT !.ends = @ \/ work[p].pc # "off"]]

LoopUnchanged == UNCHANGED <<conf, admin, todo, settling, waking, front, notice>>

\* The select of the loop: the context, the wake channel, the timer.
LoopWake ==
    /\ loop.pc = "sleep"
    /\ \/ /\ loop.ends \/ ~Configured
          /\ Leave
       \/ /\ Configured
          /\ \/ wake /\ wake' = FALSE
             \/ UNCHANGED wake
          /\ loop' = [loop EXCEPT !.pc = "look"]
          /\ UNCHANGED work
    /\ LoopUnchanged /\ UNCHANGED <<events, cache, moved, active, deferred>>

\* Which workers are free, and whether the summary can be used as it is.
LoopLook ==
    /\ loop.pc = "look"
    /\ LET next == [loop EXCEPT !.avail = Less(conf.workers, Sum(active)), !.cut = FALSE,
                                !.busy = active["embeddings"] + active["search_index"] > 0]
       IN  loop' = IF loop.ends \/ next.avail = 0 THEN Rest(loop)
                   ELSE IF Fresh THEN [next EXCEPT !.pc = "choose", !.seen = cache]
                   ELSE [next EXCEPT !.pc = "gate", !.seen = Empty(Hash(conf))]
    /\ moved' = FALSE
    /\ LoopUnchanged /\ UNCHANGED <<events, cache, active, deferred, wake, work>>

\* beginCancelableBackground: wait for quiet, then look again under the mutex.
LoopGate ==
    /\ \/ /\ loop.pc = "gate" /\ loop.ends
          /\ loop' = Rest(loop) /\ moved' = FALSE
       \/ /\ loop.pc = "gate" /\ Quiet
          /\ loop' = [loop EXCEPT !.pc = "admit"] /\ UNCHANGED moved
       \/ /\ loop.pc = "admit"
          /\ loop' = [loop EXCEPT !.pc = IF Admits THEN "local" ELSE "gate"] /\ UNCHANGED moved
    /\ LoopUnchanged /\ UNCHANGED <<events, cache, active, deferred, wake, work>>

\* The reads.  Those of local jobs fail under a cancelled context; the
\* semantic part then comes out empty, and the recompute succeeds.
ReadLocal(l) == [l EXCEPT !.count["metadata"] = IF conf.local THEN todo["metadata"] ELSE 0,
                          !.settling = IF conf.local THEN settling ELSE 0]
ReadThumbs(l) == [l EXCEPT !.count["thumbnails"] = IF conf.local THEN todo["thumbnails"] ELSE 0,
                           !.count["content_verification"] =
                               IF conf.local THEN todo["content_verification"] ELSE 0]
Populated(l) == l.hash.embeds \/ (todo["search_index"] > 0 /\ conf.workers > 0)
ReadSemantic(l) ==
    IF loop.cut \/ loop.ends \/ ~Populated(l) THEN [l EXCEPT !.gap = IF loop.cut \/ loop.ends THEN {"cut"} ELSE {}]
    ELSE [l EXCEPT !.count["embeddings"] = todo["embeddings"],
                   !.count["search_index"] = todo["search_index"],
                   !.ready = l.hash.embeds /\ todo["embeddings"] > 0]

LoopRead ==
    /\ \/ /\ loop.pc = "local" /\ ~loop.cut /\ ~loop.ends
          /\ loop' = [loop EXCEPT !.pc = "thumbs", !.seen = ReadLocal(loop.seen)]
       \/ /\ loop.pc = "thumbs" /\ ~loop.cut /\ ~loop.ends
          /\ loop' = [loop EXCEPT !.pc = "semantic", !.seen = ReadThumbs(loop.seen)]
       \/ /\ loop.pc = "semantic"
          /\ loop' = [loop EXCEPT !.pc = "install",
                                  !.seen = [ReadSemantic(loop.seen) EXCEPT !.known = TRUE]]
    /\ LoopUnchanged /\ UNCHANGED <<events, cache, moved, active, deferred, wake, work>>

LoopReadFails ==
    /\ loop.pc \in {"local", "thumbs"} /\ (conf.local \/ loop.cut \/ loop.ends)
    /\ Counts(~loop.cut /\ ~loop.ends)
    /\ loop' = Rest(loop)
    /\ moved' = FALSE
    /\ LoopUnchanged /\ UNCHANGED <<cache, active, deferred, wake, work>>

\* The result replaces the summary only if that did not change meanwhile.
\* Broken variant: it always does.
InstallsAlways == TRUE
Installs == ~moved
LoopInstall ==
    /\ loop.pc = "install"
    /\ moved' = FALSE
    /\ IF Installs THEN /\ cache' = loop.seen
                        /\ loop' = [loop EXCEPT !.pc = "choose"]
                        /\ work' = [work EXCEPT !["embeddings"].replaced = work["embeddings"].pc # "off"]
       ELSE /\ cache' = Dirtied(cache)
            /\ loop' = IF cache.known THEN [loop EXCEPT !.pc = "choose", !.seen = Dirtied(cache)]
                       ELSE Rest(loop)
            /\ UNCHANGED work
    /\ LoopUnchanged /\ UNCHANGED <<events, active, deferred, wake>>

\* What may start next.  Semantic work waits for ingestion; a publication
\* comes first when it is urgent (which is data: it may be, or not).
Ingested(s) == s.count["metadata"] + active["metadata"] + s.settling = 0
MayEmbed(s) == Ingested(s) /\ ~loop.busy /\ conf.semantic /\ "embeddings" \notin deferred
Mixed(s) ==
    {p \in {"metadata", "thumbnails"} : s.count[p] > 0 /\ p \notin deferred}
    \cup IF MayEmbed(s) /\ s.hash.embeds /\ s.count["embeddings"] + s.hint >= Batch
         THEN {"embeddings"} ELSE {}
Publish(s) ==
    IF Ingested(s) /\ ~loop.busy /\ s.count["search_index"] > 0 /\ "search_index" \notin deferred
    THEN {"search_index"} ELSE {}
Next1(s) ==
    IF Mixed(s) # {} THEN Mixed(s) \cup Publish(s)
    ELSE IF MayEmbed(s) /\ s.ready THEN {"embeddings"} \cup Publish(s)
    ELSE IF Publish(s) # {} THEN Publish(s)
    ELSE IF s.count["content_verification"] > 0 /\ s.settling = 0
            /\ "content_verification" \notin deferred THEN {"content_verification"} ELSE {}

\* While discovery is under way semantic work is held back.
Choices(s) == IF notice = "none" THEN {Next1(s)} ELSE {Next1(s), Next1(s) \ Semantic}

Workers(p) == IF p \in {"metadata", "thumbnails"} THEN loop.avail ELSE 1
Planned(p, s) ==
    CASE p = "search_index" -> 0
      [] p = "content_verification" -> 1
      [] p = "embeddings" -> Batch
      [] OTHER -> Least(Batch, s.count[p])

NoWorker == [pc |-> "off", planned |-> 0, mixed |-> FALSE, done |-> 0, found |-> 0, hint |-> 0,
             replaced |-> FALSE, odd |-> FALSE, cut |-> FALSE, ends |-> FALSE]

\* launchBackgroundWorkerAssignment, under backgroundWorkerMu.
Launches(p) ==
    /\ ~loop.ends /\ active[p] = 0
    /\ p = "metadata" => active["thumbnails"] = 0
    /\ p = "thumbnails" => active["metadata"] = 0
    /\ p \in Semantic => active["embeddings"] + active["search_index"] + active["metadata"] = 0
    /\ Sum(active) + Workers(p) <= conf.workers

Assignment(p, s) ==
    [NoWorker EXCEPT !.pc = IF p \in Gated THEN "gate" ELSE "run", !.planned = Planned(p, s),
                     !.mixed = p \in Mixed(s)]

LoopChoose ==
    /\ loop.pc = "choose"
    /\ \E set \in Choices(loop.seen) :
         \/ /\ set = {}
            /\ loop' = Rest(loop)
            /\ UNCHANGED <<cache, moved, active, work>>
         \/ \E p \in set :
              IF Launches(p)
              THEN /\ active' = [active EXCEPT ![p] = Workers(p)]
                   /\ work' = [work EXCEPT ![p] = Assignment(p, loop.seen)]
                   /\ Correct(Assigned(p, Planned(p, loop.seen)))
                   /\ loop' = [loop EXCEPT !.pc = "look", !.started = TRUE,
                                           !.seen = Empty(Hash(conf))]
              ELSE loop' = Rest(loop) /\ UNCHANGED <<cache, moved, active, work>>
    /\ LoopUnchanged /\ UNCHANGED <<events, deferred, wake>>

LoopStep == LoopWake \/ LoopLook \/ LoopGate \/ LoopRead \/ LoopReadFails \/ LoopInstall \/ LoopChoose

-----------------------------------------------------------------------------
(* The goroutines of assignments.                                          *)

WorkUnchanged == UNCHANGED <<conf, admin, loop, wake, front, notice>>

\* Nothing of the plan matters after its report.
Quits(p, pc) == work' = [work EXCEPT ![p] = [NoWorker EXCEPT !.pc = pc, !.cut = work[p].cut,
                                                             !.ends = work[p].ends]]

\* Metadata and thumbnails wait for quiet before each job; a job that began is
\* not interrupted.
WorkClaim(p) ==
    /\ p \notin Gated /\ work[p].pc = "run" /\ ~work[p].ends /\ Quiet
    /\ todo[p] > 0 /\ work[p].done < Batch
    /\ todo' = [todo EXCEPT ![p] = @ - 1]
    /\ work' = [work EXCEPT ![p].pc = "held"]
    /\ WorkUnchanged /\ UNCHANGED <<events, settling, cache, moved, active, deferred, waking>>

Produces(p) == IF p = "metadata" THEN "thumbnails" ELSE "embeddings"

\* A job makes a job of the next phase, or none, or has to settle (again).
WorkJob(p) ==
    /\ p \notin Gated /\ work[p].pc = "held"
    /\ \/ /\ todo' = [todo EXCEPT ![Produces(p)] = @ + 1]
          /\ work' = [work EXCEPT ![p].pc = "run", ![p].done = @ + 1, ![p].found = @ + 1]
          /\ UNCHANGED settling
       \/ /\ work' = [work EXCEPT ![p].pc = "run", ![p].done = @ + 1]
          /\ UNCHANGED <<todo, settling>>
    /\ WorkUnchanged /\ UNCHANGED <<events, cache, moved, active, deferred, waking>>

WorkDefers(p) ==
    /\ p \notin Gated /\ work[p].pc = "held" /\ Counts(TRUE)
    /\ settling' = settling + 1
    /\ work' = [work EXCEPT ![p].pc = "run", ![p].done = @ + 1, ![p].odd = TRUE]
    /\ WorkUnchanged /\ UNCHANGED <<todo, cache, moved, active, deferred, waking>>

\* The batch is complete: nothing is left for it, or it is full.
WorkReport(p) ==
    /\ p \notin Gated /\ work[p].pc = "run" /\ (todo[p] = 0 \/ work[p].done = Batch)
    /\ Correct(Reported(p, work[p]))
    /\ deferred' = deferred \ {p}
    /\ Quits(p, "after")
    /\ WorkUnchanged /\ UNCHANGED <<events, todo, settling, active, waking>>

\* The batch fails, or its context ends; a job may be left claimed.
WorkFails(p) ==
    /\ p \notin Gated /\ work[p].pc \in {"run", "held"}
    /\ work[p].pc = "held" => work[p].ends
    /\ Counts(~work[p].ends)
    /\ Correct(Released(p, work[p]))
    /\ deferred' = IF work[p].ends THEN deferred ELSE deferred \cup {p}
    /\ Quits(p, IF work[p].pc = "held" THEN "lost" ELSE "after")
    /\ WorkUnchanged /\ UNCHANGED <<todo, settling, active, waking>>

\* beginCancelableBackground of a gated assignment.
WorkGate(p) ==
    /\ \/ /\ work[p].pc = "gate" /\ (work[p].ends \/ Quiet)
          /\ work' = [work EXCEPT ![p].pc = IF work[p].ends THEN "finish" ELSE "admit"]
       \/ /\ work[p].pc = "admit"
          /\ work' = [work EXCEPT ![p].pc = IF Admits THEN "run" ELSE "gate"]
    /\ WorkUnchanged /\ UNCHANGED <<events, todo, settling, cache, moved, active, deferred, waking>>

Stopped(p) == work[p].cut \/ work[p].ends

\* Embeddings: look the work up in the catalog, remember the hints seen so far.
EmbedLookup ==
    /\ work["embeddings"].pc = "run"
    /\ LET w == work["embeddings"]
           found == ~Stopped("embeddings")
                    /\ todo["embeddings"] >= (IF w.mixed THEN Batch ELSE 1)
       IN  IF found
           THEN /\ work' = [work EXCEPT !["embeddings"].pc = "held",
                                        !["embeddings"].hint = cache.hint]
                /\ UNCHANGED <<cache, moved, deferred>>
           ELSE /\ Correct(IF w.mixed THEN Discarded ELSE NoWork)
                /\ deferred' = IF w.mixed THEN deferred ELSE deferred \cup {"embeddings"}
                /\ Quits("embeddings", "after")
    /\ WorkUnchanged /\ UNCHANGED <<events, todo, settling, active, waking>>

\* Vectors are stored, and an index job for them; then the status is read.
Embed ==
    /\ work["embeddings"].pc = "held" /\ ~Stopped("embeddings")
    /\ todo' = [todo EXCEPT !["embeddings"] = Less(@, Batch), !["search_index"] = 1]
    /\ work' = [work EXCEPT !["embeddings"].pc = "report",
                            !["embeddings"].found = todo'["embeddings"]]
    /\ WorkUnchanged /\ UNCHANGED <<events, settling, cache, moved, active, deferred, waking>>

EmbedReport ==
    /\ work["embeddings"].pc = "report"
    /\ Correct(Embedded(work["embeddings"]))
    /\ deferred' = deferred \ {"embeddings"}
    /\ Quits("embeddings", "after")
    /\ WorkUnchanged /\ UNCHANGED <<events, todo, settling, active, waking>>

\* A scheduled run that is cancelled says nothing, neither to the summary nor to
\* one that was read already, of the index job it may have left.
Silent(stored) ==
    LET more == IF stored THEN {"stored"} ELSE {}
    IN  /\ cache' = [cache EXCEPT !.gap = @ \cup more]
        /\ loop' = [loop EXCEPT !.seen.gap = IF loop.pc = "install" THEN @ \cup more ELSE @]
        /\ UNCHANGED moved

\* It fails or is cancelled, with some of the vectors stored or none.
EmbedFails ==
    /\ work["embeddings"].pc = "held" /\ Counts(~Stopped("embeddings"))
    /\ \E stored \in BOOLEAN :
         /\ todo' = IF stored THEN [todo EXCEPT !["embeddings"] = Less(@, 1), !["search_index"] = 1]
                    ELSE todo
         /\ IF Stopped("embeddings")
            THEN /\ IF work["embeddings"].mixed THEN Correct(Discarded) /\ UNCHANGED loop
                    ELSE Silent(stored)
                 /\ UNCHANGED deferred
            ELSE MarkDirty /\ deferred' = deferred \cup {"embeddings"} /\ UNCHANGED loop
    /\ Quits("embeddings", "after")
    /\ UNCHANGED <<conf, admin, wake, front, notice, settling, active, waking>>

\* A publication, or one location verified: done, or failed.
PublishIndex ==
    /\ work["search_index"].pc = "run" /\ ~Stopped("search_index")
    /\ todo' = [todo EXCEPT !["search_index"] = 0]
    /\ IF todo["search_index"] > 0
       THEN MarkDirty /\ deferred' = deferred \ {"search_index"}
       ELSE UNCHANGED <<cache, moved, deferred>>
    /\ Quits("search_index", "after")
    /\ WorkUnchanged /\ UNCHANGED <<events, settling, active, waking>>

\* Verification marks the summary and wakes the loop whatever came out of it.
Verified == MarkDirty /\ wake' = (loop.pc # "off")
GatedUnchanged == UNCHANGED <<conf, admin, loop, front, notice, settling, active, waking>>

Verify ==
    /\ work["content_verification"].pc = "run" /\ ~Stopped("content_verification")
    /\ IF todo["content_verification"] = 0
       THEN MarkDirty /\ UNCHANGED <<todo, wake>>
       ELSE /\ Verified
            /\ \E changed \in BOOLEAN :
                 todo' = [todo EXCEPT !["content_verification"] = 0,
                                      !["metadata"] = IF changed THEN @ + 1 ELSE @]
    /\ deferred' = deferred \ {"content_verification"}
    /\ Quits("content_verification", "after")
    /\ GatedUnchanged /\ UNCHANGED events

\* Either may fail, with a retry time or, where nothing was done, without one;
\* a cancelled one sets none, and may end before it began to verify.
GatedFails(p) ==
    /\ p \in {"search_index", "content_verification"} /\ work[p].pc = "run"
    /\ Counts(~Stopped(p))
    /\ \/ p = "content_verification" /\ Verified
       \/ p = "search_index" /\ ~Stopped(p) /\ MarkDirty /\ UNCHANGED wake
       \/ Stopped(p) /\ UNCHANGED <<cache, moved, wake>>
    /\ deferred' = deferred \/ (~Stopped(p) /\ deferred' = deferred \cup {p})
    /\ Quits(p, "after")
    /\ GatedUnchanged /\ UNCHANGED todo

\* After the assignment: a cut one marks the summary; local jobs that a
\* cancelled batch left claimed go back to the queue.
WorkAfter(p) ==
    /\ work[p].pc \in {"after", "lost"}
    /\ todo' = IF work[p].pc = "lost" THEN [todo EXCEPT ![p] = @ + 1] ELSE todo
    /\ IF IF p \in Gated THEN work[p].cut /\ ~work[p].ends ELSE work[p].ends
       THEN MarkDirty ELSE UNCHANGED <<cache, moved>>
    /\ work' = [work EXCEPT ![p].pc = "finish"]
    /\ WorkUnchanged /\ UNCHANGED <<events, settling, active, deferred, waking>>

\* finishBackgroundWorkerAssignment: give the workers back, then wake the loop.
WorkFinish(p) ==
    /\ work[p].pc = "finish"
    /\ active' = [active EXCEPT ![p] = 0]
    /\ work' = [work EXCEPT ![p] = NoWorker]
    /\ waking' = TRUE
    /\ WorkUnchanged /\ UNCHANGED <<events, todo, settling, cache, moved, deferred>>

WakeLoop ==
    /\ waking /\ waking' = FALSE
    /\ wake' = (loop.pc # "off")
    /\ UNCHANGED <<conf, admin, todo, settling, cache, moved, active, deferred, loop, work, front,
                   notice, events>>

WorkStep(p) ==
    \/ WorkClaim(p) \/ WorkJob(p) \/ WorkDefers(p) \/ WorkReport(p) \/ WorkFails(p)
    \/ WorkGate(p) \/ GatedFails(p) \/ WorkAfter(p) \/ WorkFinish(p)

\* The goroutine of the assignment of one phase.
Worker(p) ==
    \/ WorkStep(p)
    \/ p = "embeddings" /\ (EmbedLookup \/ Embed \/ EmbedReport \/ EmbedFails)
    \/ p = "search_index" /\ PublishIndex
    \/ p = "content_verification" /\ Verify

-----------------------------------------------------------------------------
(* Changes of the configuration, one at a time.                            *)

\* The new limit is applied, then the summary marked, then the loop started,
\* woken or stopped.
Configure(c) ==
    /\ admin = "none" /\ c # conf /\ Counts(TRUE)
    /\ conf' = c /\ admin' = "dirty"
    /\ UNCHANGED <<todo, settling, cache, moved, active, deferred, loop, wake, work, waking, front,
                   notice>>

ConfigMark ==
    /\ admin = "dirty" /\ admin' = "sync"
    /\ MarkDirty
    /\ UNCHANGED <<conf, todo, settling, active, deferred, loop, wake, work, waking, front, notice,
                   events>>

ConfigSync ==
    /\ admin = "sync"
    /\ IF Configured
       THEN /\ admin' = "none"
            /\ loop' = IF loop.pc = "off" THEN [NoLoop EXCEPT !.pc = "sleep"] ELSE loop
            /\ wake' = (loop.pc # "off") /\ UNCHANGED work
       ELSE /\ admin' = "stop"
            /\ loop' = [loop EXCEPT !.ends = loop.pc # "off"]
            /\ work' = [p \in Phase |-> [work[p] EXCEPT !.ends = @ \/ work[p].pc # "off"]]
            /\ wake' = FALSE
    /\ UNCHANGED <<conf, todo, settling, cache, moved, active, deferred, waking, front, notice,
                   events>>

\* Stopping waits for the loop and for every assignment, then forgets them.
\* Broken variant: only for the loop.
LoopStopped == loop.pc = "off"
AllStopped == loop.pc = "off" /\ ~waking /\ \A p \in Phase : work[p].pc = "off"
ConfigStop ==
    /\ admin = "stop" /\ AllStopped
    /\ admin' = "none" /\ active' = None /\ deferred' = {}
    /\ UNCHANGED <<conf, todo, settling, cache, moved, loop, wake, work, waking, front, notice,
                   events>>

-----------------------------------------------------------------------------
Init ==
    /\ conf \in Config /\ admin = "none"
    /\ todo \in Backlog /\ settling = 0
    /\ cache = Empty(Hash(conf)) /\ moved = FALSE
    /\ active = None /\ deferred = {}
    /\ loop = IF Configured THEN [NoLoop EXCEPT !.pc = "sleep"] ELSE NoLoop
    /\ wake = FALSE /\ waking = FALSE
    /\ work = [p \in Phase |-> NoWorker]
    /\ front = [r \in Request |-> "off"]
    /\ notice = "none" /\ events = 0

Next ==
    \/ LoopStep \/ WakeLoop
    \/ \E p \in Phase : Worker(p) \/ Arrive(p) \/ RetryDue(p)
    \/ \E r \in Request : BeginCount(r) \/ BeginCancel(r) \/ EndRequest(r)
    \/ \E c \in Config : Configure(c)
    \/ ConfigMark \/ ConfigSync \/ ConfigStop
    \/ Notify \/ Settle \/ Lapse

Spec == Init /\ [][Next]_vars

\* Goroutines run, timers of the short kind fire, times come, requests end.
\* The half hour of the long sleep and of the summary is never counted on.
Prompt == loop.pc = "sleep" => wake \/ loop.nap = "short" \/ loop.ends
Fairness ==
    /\ WF_vars(Prompt /\ LoopStep) /\ WF_vars(WakeLoop) /\ WF_vars(Notify) /\ WF_vars(Settle)
    /\ \A p \in Phase : WF_vars(Worker(p)) /\ WF_vars(RetryDue(p))
    /\ \A r \in Request : WF_vars(BeginCancel(r)) /\ WF_vars(EndRequest(r))
    /\ WF_vars(ConfigMark \/ ConfigSync \/ ConfigStop)

FairSpec == Spec /\ Fairness

-----------------------------------------------------------------------------
(* Properties.                                                             *)

Summary ==
    [known : BOOLEAN, dirty : BOOLEAN, lapsed : BOOLEAN,
     hash : [local : BOOLEAN, semantic : BOOLEAN, embeds : BOOLEAN],
     count : [Phase -> Nat], settling : Nat, ready : BOOLEAN, hint : Nat, later : BOOLEAN,
     gap : SUBSET {"cut", "replaced", "stored"}]
LoopState ==
    [pc : {"off", "sleep", "look", "choose"} \cup Reading, nap : {"short", "long"},
     started : BOOLEAN, avail : Nat, busy : BOOLEAN, cut : BOOLEAN, ends : BOOLEAN,
     seen : Summary]
Assignments ==
    [pc : {"off", "gate", "admit", "run", "held", "report", "after", "lost", "finish"},
     planned : Nat, mixed : BOOLEAN, done : Nat, found : Nat, hint : Nat, replaced : BOOLEAN,
     odd : BOOLEAN, cut : BOOLEAN, ends : BOOLEAN]

TypeOK ==
    /\ conf \in Config /\ admin \in {"none", "dirty", "sync", "stop"}
    /\ todo \in [Phase -> Nat] /\ settling \in Nat /\ active \in [Phase -> Nat]
    /\ cache \in Summary /\ loop \in LoopState /\ work \in [Phase -> Assignments]
    /\ deferred \subseteq Phase /\ moved \in BOOLEAN /\ wake \in BOOLEAN /\ waking \in BOOLEAN
    /\ front \in [Request -> {"off", "begun", "in"}] /\ notice \in {"none", "dirty", "wake"}
    /\ events \in Nat

\* Work that the configuration lets anybody do.
Wanted(p) ==
    \/ p \in Local /\ conf.local
    \/ p = "embeddings" /\ conf.semantic /\ conf.workers > 0
    \/ p = "search_index" /\ conf.workers > 0

\* The summary knows of work of this phase.
Known(p) == cache.count[p] > 0 \/ (p = "embeddings" /\ (cache.hint > 0 \/ cache.ready))

\* Somebody is under way who will still correct the summary.
Correcting == notice # "none" \/ admin # "none" \/ \E p \in Phase : work[p].pc \notin {"off", "finish"}

\* A summary that will be used as it is knows of every phase that has work,
\* unless one of its gaps is excused.
Knows(excused, phases) ==
    Fresh /\ ~Correcting /\ cache.gap \cap excused = {} =>
        \A p \in phases : Wanted(p) /\ todo[p] > 0 => Known(p)

NothingForgotten == Knows({}, Local) /\ Knows({"cut", "replaced", "stored"}, Semantic)

\* A recompute that a foreground request cancelled is not used.
RecountDeferred == Knows({"replaced", "stored"}, Semantic)

\* Work that the configuration wants is done, and nobody has to wait half an hour
\* for it, unless the summary has one of its gaps, or every recount is overtaken.
Served ==
    []<>Fresh =>
        \A p \in Phase :
            todo[p] > 0 ~> todo[p] = 0 \/ ~Wanted(p) \/ (p \in Semantic /\ cache.gap # {})

\* Once a foreground request has begun, no background read or cancellable
\* assignment goes on under a context that nobody cancelled.
Yields ==
    (\E r \in Request : front[r] = "in") =>
        /\ LoopRegistered => loop.cut
        /\ \A p \in Phase : WorkRegistered(p) => work[p].cut

\* The table of taken workers and the goroutines agree.
SlotsHeld == \A p \in Phase : active[p] > 0 <=> work[p].pc # "off"
=============================================================================
