------------------------ MODULE BackgroundWorkProofs ------------------------
(***************************************************************************)
(* The summary of background work, for any batch size, any backlog, any    *)
(* set of configurations, requests and arrivals, and any bound.            *)
(*                                                                         *)
(* The argument is one of bookkeeping.  NothingForgotten asks about the    *)
(* moments in which nobody corrects the summary, and so it is not          *)
(* inductive.  The books say at every moment what the summary must count:  *)
(* the jobs of the catalog, less those that a running batch may still      *)
(* take, less those that it found and has not announced, unless somebody   *)
(* is under way who will mark the summary.  The same is asked of a summary *)
(* that is being read, from each read on, as long as its sequence number   *)
(* has not moved, and of an embedding run together with the hints that it  *)
(* will subtract.                                                          *)
(***************************************************************************)
EXTENDS BackgroundWork, TLAPS

Hashes == [local : BOOLEAN, semantic : BOOLEAN, embeds : BOOLEAN]
Ungated == {"metadata", "thumbnails"}

-----------------------------------------------------------------------------
(* What the operators return.                                              *)

\* Subtraction that stops at zero, and the smaller of two numbers.
LEMMA Subtraction ==
    ASSUME NEW n \in Nat, NEW k \in Nat
    PROVE  /\ Less(n, k) \in Nat /\ Less(n, k) <= n /\ n <= Less(n, k) + k
           /\ Least(n, k) \in Nat
BY DEF Less, Least

\* A configuration, and what a summary records of it.
LEMMA ConfigType ==
    ASSUME NEW c \in Config
    PROVE  /\ c \in [local : BOOLEAN, semantic : BOOLEAN, workers : Nat]
           /\ Hash(c) \in Hashes
BY ConfigAssumption DEF Hash, Hashes

\* A summary that is not known yet.
LEMMA EmptyType ==
    ASSUME NEW h \in Hashes
    PROVE  Empty(h) \in Summary
BY DEF Empty, Summary, Hashes, None, Phase, Local, Semantic

\* A phase without an assignment.
LEMMA NobodyWorks == NoWorker \in Assignments
BY DEF NoWorker, Assignments

\* Records keep their type when a flag is set. (SMT takes the flag as a value.)
LEMMA FlagTypes ==
    ASSUME NEW b \in BOOLEAN
    PROVE  /\ \A w \in Assignments :
                /\ [w EXCEPT !.cut = b] \in Assignments /\ [w EXCEPT !.ends = b] \in Assignments
                /\ [w EXCEPT !.replaced = b] \in Assignments
                /\ [w EXCEPT !.mixed = b] \in Assignments
           /\ \A l \in LoopState :
                /\ [l EXCEPT !.cut = b] \in LoopState /\ [l EXCEPT !.ends = b] \in LoopState
                /\ [l EXCEPT !.busy = b] \in LoopState
BY DEF Assignments, LoopState

\* Contexts that end, and those a foreground request cancels.
LEMMA EndedType ==
    ASSUME work \in [Phase -> Assignments], NEW p \in Phase
    PROVE  /\ [work[p] EXCEPT !.ends = @ \/ work[p].pc # "off"] \in Assignments
           /\ [work[p] EXCEPT !.cut = @ \/ WorkRegistered(p)] \in Assignments
           /\ [work[p] EXCEPT !.replaced = work[p].pc # "off"] \in Assignments
<1> DEFINE b == work[p].ends \/ work[p].pc # "off"
           c == work[p].cut \/ WorkRegistered(p)
           d == work[p].pc # "off"
<1>1. b \in BOOLEAN /\ c \in BOOLEAN /\ d \in BOOLEAN
  BY DEF Assignments, WorkRegistered
<1>2. /\ [work[p] EXCEPT !.ends = @ \/ work[p].pc # "off"] = [work[p] EXCEPT !.ends = b]
      /\ [work[p] EXCEPT !.cut = @ \/ WorkRegistered(p)] = [work[p] EXCEPT !.cut = c]
      /\ [work[p] EXCEPT !.replaced = work[p].pc # "off"] = [work[p] EXCEPT !.replaced = d]
  OBVIOUS
<1> HIDE DEF b, c, d
<1> QED BY <1>1, <1>2, FlagTypes

\* schedulerWorkStateMarkDirty.
LEMMA DirtiedType ==
    ASSUME NEW c \in Summary
    PROVE  Dirtied(c) \in Summary
BY DEF Dirtied, Summary

\* A corrected count.
LEMMA CountType ==
    ASSUME NEW c \in Summary, NEW p \in Phase, NEW n \in Nat
    PROVE  [c EXCEPT !.count[p] = n] \in Summary
BY DEF Summary

\* schedulerWorkStateAssign.
LEMMA AssignedType ==
    ASSUME cache \in Summary, NEW p \in Phase, NEW planned \in Nat
    PROVE  Assigned(p, planned) \in Summary
<1>1. cache.count[p] \in Nat
  BY DEF Summary
<1>2. Less(cache.count[p], planned) \in Nat
  BY <1>1, Subtraction
<1> QED BY <1>2, CountType DEF Assigned

\* schedulerWorkStateCompleteLocalMetadata and ...CompleteLocalThumbnail.
LEMMA ReportedType ==
    ASSUME cache \in Summary, NEW p \in Ungated, NEW w \in Assignments
    PROVE  Reported(p, w) \in Summary
<1>1. /\ cache.count \in [Phase -> Nat] /\ cache.hint \in Nat
      /\ w.planned \in Nat /\ w.done \in Nat /\ w.found \in Nat /\ w.odd \in BOOLEAN
  BY DEF Summary, Assignments
<1>2. p \in Phase /\ "thumbnails" \in Phase
  BY DEF Ungated, Phase, Local
<1> DEFINE n == IF w.planned > 0 THEN cache.count[p] + Less(w.planned, w.done)
                ELSE Less(cache.count[p], w.done)
           kept == [cache EXCEPT !.count[p] = n]
           more == IF p = "metadata" THEN [kept EXCEPT !.count["thumbnails"] = @ + w.found]
                   ELSE IF cache.hash.embeds THEN [kept EXCEPT !.hint = @ + w.found] ELSE kept
<1>3. n \in Nat
  <2>1. cache.count[p] \in Nat
    BY <1>1, <1>2
  <2>2. Less(w.planned, w.done) \in Nat /\ Less(cache.count[p], w.done) \in Nat
    BY <1>1, <2>1, Subtraction
  <2> QED BY <2>1, <2>2
<1>4. kept \in Summary
  <2> HIDE DEF n
  <2> QED BY <1>2, <1>3, CountType
<1>5. more \in Summary
  <2> HIDE DEF kept
  <2>1. kept.count \in [Phase -> Nat] /\ kept.hint \in Nat
    BY <1>4 DEF Summary
  <2>2. kept.count["thumbnails"] + w.found \in Nat /\ kept.hint + w.found \in Nat
    BY <1>1, <1>2, <2>1
  <2>3. [kept EXCEPT !.count["thumbnails"] = @ + w.found] \in Summary
    BY <1>2, <1>4, <2>2, CountType
  <2>4. [kept EXCEPT !.hint = @ + w.found] \in Summary
    BY <1>4, <2>2 DEF Summary
  <2> QED BY <1>4, <2>3, <2>4
<1>6. Reported(p, w) = [more EXCEPT !.dirty = @ \/ w.odd \/ (w.done = 0 /\ w.planned > 0)]
  BY DEF Reported
<1> HIDE DEF more
<1> QED BY <1>5, <1>6 DEF Summary

\* schedulerWorkStateRelease.
LEMMA ReleasedType ==
    ASSUME cache \in Summary, NEW p \in Ungated, NEW w \in Assignments
    PROVE  Released(p, w) \in Summary
<1>1. p \in Phase /\ cache.count[p] + w.planned \in Nat
  BY DEF Summary, Assignments, Ungated, Phase, Local
<1>2. [cache EXCEPT !.count[p] = @ + w.planned] \in Summary
  BY <1>1, CountType
<1> QED BY <1>2, ReportedType, DirtiedType DEF Released

\* schedulerWorkStateApplySemanticStatusAfterEmbedding.
LEMMA EmbeddedType ==
    ASSUME cache \in Summary, NEW w \in Assignments
    PROVE  Embedded(w) \in Summary
<1>1. /\ cache.count \in [Phase -> Nat] /\ w.found \in Nat /\ w.hint \in Nat /\ cache.hint \in Nat
      /\ cache.ready \in BOOLEAN /\ cache.gap \in SUBSET {"cut", "replaced", "stored"}
  BY DEF Summary, Assignments
<1> DEFINE n == [cache.count EXCEPT !["embeddings"] = w.found, !["search_index"] = 1]
           h == Less(cache.hint, w.hint)
           r == cache.ready /\ w.found > 0
           g == IF w.replaced THEN cache.gap \cup {"replaced"} ELSE cache.gap
<1>2. n \in [Phase -> Nat]
  BY <1>1
<1>3. h \in Nat
  BY <1>1, Subtraction
<1>4. g \in SUBSET {"cut", "replaced", "stored"}
  BY <1>1
<1>5. r \in BOOLEAN
  BY <1>1
<1>6. Embedded(w) = [cache EXCEPT !.count = n, !.ready = r, !.hint = h, !.later = FALSE, !.gap = g]
  BY DEF Embedded
<1> HIDE DEF n, h, r, g
<1> QED BY <1>2, <1>3, <1>4, <1>5, <1>6 DEF Summary

\* An embedding run that found nothing in the catalog.
LEMMA NoEmbeddingType ==
    ASSUME cache \in Summary
    PROVE  Discarded \in Summary /\ NoWork \in Summary
<1>1. NoWork \in Summary
  BY DEF NoWork, Summary
<1>2. "embeddings" \in Phase
  BY DEF Phase, Semantic
<1>3. [Dirtied(cache) EXCEPT !.count["embeddings"] = 0] \in Summary
  BY <1>2, DirtiedType, CountType
<1>4. Discarded = [[Dirtied(cache) EXCEPT !.count["embeddings"] = 0] EXCEPT !.hint = 0]
  BY DirtiedType DEF Discarded, Summary
<1>5. Discarded \in Summary
  BY <1>3, <1>4 DEF Summary
<1> QED BY <1>1, <1>5

\* A loop that is off, or at rest.
LEMMA RestingType ==
    ASSUME TypeOK, NEW l \in LoopState
    PROVE  NoLoop \in LoopState /\ Rest(l) \in LoopState
<1>1. Empty(Hash(conf)) \in Summary
  BY ConfigType, EmptyType DEF TypeOK
<1>2. NoLoop \in LoopState
  BY <1>1 DEF NoLoop, LoopState
<1>3. l.ends \in BOOLEAN
  BY DEF LoopState
<1>4. Rest(l) \in LoopState
  BY <1>1, <1>2, <1>3 DEF Rest, LoopState
<1> QED BY <1>2, <1>4

-----------------------------------------------------------------------------
(* Types.                                                                  *)

\* The loop launches an assignment of phase p.
Launched(p) ==
    /\ Launches(p)
    /\ active' = [active EXCEPT ![p] = Workers(p)]
    /\ work' = [work EXCEPT ![p] = Assignment(p, loop.seen)]
    /\ Correct(Assigned(p, Planned(p, loop.seen)))
    /\ loop' = [loop EXCEPT !.pc = "look", !.started = TRUE, !.seen = Empty(Hash(conf))]

\* A batch is launched because the summary counts jobs for it.
LEMMA ChoiceMade ==
    LoopChoose => \/ loop' = Rest(loop) /\ UNCHANGED <<cache, moved, active, work>>
                  \/ \E p \in Phase : Launched(p) /\ (p \in Ungated => loop.seen.count[p] > 0)
<1> SUFFICES ASSUME LoopChoose,
                    ~(loop' = Rest(loop) /\ UNCHANGED <<cache, moved, active, work>>)
             PROVE  \E p \in Phase : Launched(p) /\ (p \in Ungated => loop.seen.count[p] > 0)
  OBVIOUS
<1>1. PICK set \in Choices(loop.seen) : \E p \in set : Launched(p)
  BY DEF LoopChoose, Launched
<1>2. PICK p \in set : Launched(p)
  BY <1>1
<1>3. p \in Phase
  BY DEF Choices, Next1, Mixed, Publish, Phase, Local, Semantic
<1>4. p \in Ungated => p \in Mixed(loop.seen)
  BY DEF Choices, Next1, Publish, Ungated
<1>5. p \in Ungated => loop.seen.count[p] > 0
  BY <1>4 DEF Mixed, Ungated
<1> QED BY <1>2, <1>3, <1>5

\* The steps of the loop keep the types.
LEMMA LoopType == TypeOK /\ LoopStep => TypeOK'
<1> SUFFICES ASSUME TypeOK, LoopStep PROVE TypeOK'
  OBVIOUS
<1>0. /\ cache \in Summary /\ loop \in LoopState /\ work \in [Phase -> Assignments]
      /\ active \in [Phase -> Nat] /\ todo \in [Phase -> Nat] /\ settling \in Nat
      /\ conf \in [local : BOOLEAN, semantic : BOOLEAN, workers : Nat]
      /\ Empty(Hash(conf)) \in Summary /\ loop.seen \in Summary
      /\ Rest(loop) \in LoopState /\ NoLoop \in LoopState
  BY ConfigType, EmptyType, RestingType DEF TypeOK, LoopState
<1>1. UNCHANGED <<conf, admin, todo, settling, waking, front, notice>>
  BY DEF LoopStep, LoopWake, LoopLook, LoopGate, LoopRead, LoopReadFails, LoopInstall, LoopChoose,
         LoopUnchanged
<1>2. ASSUME cache' \in Summary, loop' \in LoopState, work' \in [Phase -> Assignments],
             active' \in [Phase -> Nat], moved' \in BOOLEAN, wake' \in BOOLEAN, deferred' = deferred,
             events' \in Nat
      PROVE  TypeOK'
  BY <1>1, <1>2 DEF TypeOK
<1>3. CASE LoopWake
  <2>1. loop' \in LoopState
    BY <1>0, <1>3 DEF LoopWake, Leave, LoopState
  <2>2. work' \in [Phase -> Assignments]
    <3>1. CASE work' = work
      BY <1>0, <3>1
    <3>2. CASE work' = [p \in Phase |-> [work[p] EXCEPT !.ends = @ \/ work[p].pc # "off"]]
      BY <1>0, <3>2, EndedType
    <3> QED BY <1>3, <3>1, <3>2 DEF LoopWake, Leave
  <2> QED BY <1>2, <1>3, <2>1, <2>2 DEF LoopWake, Leave, TypeOK
<1>4. CASE LoopLook
  <2> DEFINE next == [loop EXCEPT !.avail = Less(conf.workers, Sum(active)), !.cut = FALSE,
                                  !.busy = active["embeddings"] + active["search_index"] > 0]
  <2>1. next \in LoopState
    <3>1. Sum(active) \in Nat
      BY <1>0 DEF Sum, Phase, Local, Semantic
    <3>2. Less(conf.workers, Sum(active)) \in Nat
      BY <1>0, <3>1, Subtraction
    <3> DEFINE n == Less(conf.workers, Sum(active))
               b == active["embeddings"] + active["search_index"] > 0
    <3>3. b \in BOOLEAN /\ n \in Nat
      BY <3>2
    <3>4. next = [loop EXCEPT !.avail = n, !.cut = FALSE, !.busy = b]
      OBVIOUS
    <3> HIDE DEF next, n, b
    <3> QED BY <1>0, <3>3, <3>4 DEF LoopState
  <2>2. loop' \in {Rest(loop), [next EXCEPT !.pc = "choose", !.seen = cache],
                   [next EXCEPT !.pc = "gate", !.seen = Empty(Hash(conf))]}
    BY <1>4 DEF LoopLook
  <2> HIDE DEF next
  <2>3. loop' \in LoopState
    BY <1>0, <2>1, <2>2 DEF LoopState, Reading
  <2> QED BY <1>2, <1>4, <2>3 DEF LoopLook, TypeOK
<1>5. CASE LoopGate
  <2>1. loop' \in LoopState
    BY <1>0, <1>5 DEF LoopGate, LoopState, Reading
  <2> QED BY <1>2, <1>5, <2>1 DEF LoopGate, TypeOK
<1>6. CASE LoopRead
  <2>1. ReadLocal(loop.seen) \in Summary
    <3>1. "metadata" \in Phase
      BY DEF Phase, Local
    <3>2. (IF conf.local THEN todo["metadata"] ELSE 0) \in Nat
          /\ (IF conf.local THEN settling ELSE 0) \in Nat
      BY <1>0, <3>1
    <3> QED BY <1>0, <3>1, <3>2 DEF ReadLocal, Summary
  <2>2. ReadThumbs(loop.seen) \in Summary
    <3>1. "thumbnails" \in Phase /\ "content_verification" \in Phase
      BY DEF Phase, Local
    <3>2. (IF conf.local THEN todo["thumbnails"] ELSE 0) \in Nat
          /\ (IF conf.local THEN todo["content_verification"] ELSE 0) \in Nat
      BY <1>0, <3>1
    <3> QED BY <1>0, <3>1, <3>2 DEF ReadThumbs, Summary
  <2>3. ReadSemantic(loop.seen) \in Summary
    <3>1. "embeddings" \in Phase /\ "search_index" \in Phase
      BY DEF Phase, Semantic
    <3>2. todo["embeddings"] \in Nat /\ todo["search_index"] \in Nat /\ loop.seen.hash.embeds \in BOOLEAN
      BY <1>0, <3>1 DEF Summary
    <3> QED BY <1>0, <3>1, <3>2 DEF ReadSemantic, Summary
  <2>4. [ReadSemantic(loop.seen) EXCEPT !.known = TRUE] \in Summary
    BY <2>3 DEF Summary
  <2>5. \A pc \in Reading, l \in Summary : [loop EXCEPT !.pc = pc, !.seen = l] \in LoopState
    BY <1>0 DEF LoopState
  <2>6. PICK pc \in Reading, l \in Summary : loop' = [loop EXCEPT !.pc = pc, !.seen = l]
    BY <1>6, <2>1, <2>2, <2>4 DEF LoopRead, Reading
  <2>7. loop' \in LoopState
    BY <2>5, <2>6
  <2> QED BY <1>2, <1>6, <2>7 DEF LoopRead, TypeOK
<1>7. CASE LoopReadFails
  <2>1. events' \in Nat
    BY <1>7 DEF LoopReadFails, Counts, TypeOK
  <2> QED BY <1>0, <1>2, <1>7, <2>1 DEF LoopReadFails, TypeOK
<1>8. CASE LoopInstall
  <2>1. cache' \in Summary
    BY <1>0, <1>8, DirtiedType DEF LoopInstall
  <2>2. loop' \in LoopState
    <3>1. Dirtied(cache) \in Summary
      BY <1>0, DirtiedType
    <3>2. [loop EXCEPT !.pc = "choose"] \in LoopState
      BY <1>0 DEF LoopState
    <3>3. [loop EXCEPT !.pc = "choose", !.seen = Dirtied(cache)] \in LoopState
      BY <1>0, <3>1 DEF LoopState
    <3> QED BY <1>0, <1>8, <3>2, <3>3 DEF LoopInstall
  <2>3. work' \in [Phase -> Assignments]
    <3>1. "embeddings" \in Phase
      BY DEF Phase, Semantic
    <3>2. work' = work \/ work' = [work EXCEPT !["embeddings"] =
                             [work["embeddings"] EXCEPT !.replaced = work["embeddings"].pc # "off"]]
      BY <1>0, <1>8, <3>1 DEF LoopInstall
    <3> QED BY <1>0, <3>1, <3>2, EndedType
  <2> QED BY <1>2, <1>8, <2>1, <2>2, <2>3 DEF LoopInstall, TypeOK
<1>9. CASE LoopChoose
  <2>1. CASE loop' = Rest(loop) /\ UNCHANGED <<cache, moved, active, work>>
    BY <1>0, <1>2, <1>9, <2>1 DEF LoopChoose, TypeOK
  <2>2. CASE ~(loop' = Rest(loop) /\ UNCHANGED <<cache, moved, active, work>>)
    <3>1. PICK p \in Phase : Launched(p) /\ (p \in Ungated => loop.seen.count[p] > 0)
      BY <1>9, <2>2, ChoiceMade
    <3>3. Planned(p, loop.seen) \in Nat
      <4>1. loop.seen.count[p] \in Nat /\ Batch \in Nat
        BY <1>0, BoundAssumption DEF Summary
      <4>2. Least(Batch, loop.seen.count[p]) \in Nat
        BY <4>1, Subtraction
      <4> QED BY <4>1, <4>2 DEF Planned
    <3>4. Assignment(p, loop.seen) \in Assignments
      <4> DEFINE m == p \in Mixed(loop.seen)
                 w == [NoWorker EXCEPT !.pc = IF p \in Gated THEN "gate" ELSE "run",
                                       !.planned = Planned(p, loop.seen)]
      <4>1. m \in BOOLEAN
        OBVIOUS
      <4>2. w \in Assignments
        BY <3>3, NobodyWorks DEF Assignments
      <4>3. Assignment(p, loop.seen) = [w EXCEPT !.mixed = m]
        BY NobodyWorks DEF Assignment, Assignments
      <4> HIDE DEF m, w
      <4> QED BY <4>1, <4>2, <4>3, FlagTypes
    <3>5. Workers(p) \in Nat
      BY <1>0 DEF Workers, LoopState
    <3>6. cache' \in Summary /\ moved' \in BOOLEAN
      BY <1>0, <3>1, <3>3, AssignedType DEF Launched, Correct
    <3>7. loop' \in LoopState
      BY <1>0, <3>1 DEF Launched, LoopState
    <3>8. UNCHANGED <<events, deferred, wake>>
      BY <1>9 DEF LoopChoose
    <3> QED BY <1>0, <1>2, <3>1, <3>4, <3>5, <3>6, <3>7, <3>8 DEF Launched, TypeOK
  <2> QED BY <2>1, <2>2
<1> QED BY <1>3, <1>4, <1>5, <1>6, <1>7, <1>8, <1>9 DEF LoopStep

\* An assignment that is over.
LEMMA QuitsType ==
    ASSUME work \in [Phase -> Assignments], NEW p \in Phase, NEW pc \in {"after", "lost"},
           Quits(p, pc)
    PROVE  work' \in [Phase -> Assignments]
<1>1. work[p].cut \in BOOLEAN /\ work[p].ends \in BOOLEAN
  BY DEF Assignments
<1>2. [NoWorker EXCEPT !.pc = pc, !.cut = work[p].cut, !.ends = work[p].ends] \in Assignments
  BY <1>1, NobodyWorks DEF Assignments
<1> QED BY <1>2 DEF Quits

\* A correction of the summary.
LEMMA Corrected ==
    ASSUME NEW c \in Summary, Correct(c)
    PROVE  cache' \in Summary /\ moved' \in BOOLEAN
BY DEF Correct

\* The goroutines of assignments keep the types.
LEMMA WorkType == ASSUME TypeOK, NEW p \in Phase, Worker(p) PROVE TypeOK'
<1>0. /\ cache \in Summary /\ loop \in LoopState /\ work \in [Phase -> Assignments]
      /\ work[p] \in Assignments /\ work["embeddings"] \in Assignments
      /\ active \in [Phase -> Nat] /\ todo \in [Phase -> Nat] /\ settling \in Nat
      /\ deferred \subseteq Phase /\ events \in Nat /\ moved \in BOOLEAN /\ wake \in BOOLEAN
      /\ waking \in BOOLEAN /\ Dirtied(cache) \in Summary
  BY DirtiedType DEF TypeOK, Phase, Semantic
<1>1. UNCHANGED <<conf, admin, front, notice>>
  BY DEF Worker, WorkStep, WorkClaim, WorkJob, WorkDefers, WorkReport, WorkFails, WorkGate,
         GatedFails, WorkAfter, WorkFinish, EmbedLookup, Embed, EmbedReport, EmbedFails,
         PublishIndex, Verify, WorkUnchanged, GatedUnchanged
<1>2. ASSUME todo' \in [Phase -> Nat], settling' \in Nat, cache' \in Summary, moved' \in BOOLEAN,
             active' \in [Phase -> Nat], deferred' \subseteq Phase, loop' \in LoopState,
             wake' \in BOOLEAN, work' \in [Phase -> Assignments], waking' \in BOOLEAN,
             events' \in Nat
      PROVE  TypeOK'
  BY <1>1, <1>2 DEF TypeOK
<1>3. CASE WorkClaim(p)
  <2>1. todo' \in [Phase -> Nat]
    BY <1>0, <1>3 DEF WorkClaim
  <2>2. work' \in [Phase -> Assignments]
    BY <1>0, <1>3 DEF WorkClaim, Assignments
  <2> QED BY <1>0, <1>2, <1>3, <2>1, <2>2 DEF WorkClaim, WorkUnchanged
<1>4. CASE WorkJob(p)
  <2>1. todo' \in [Phase -> Nat]
    <3>1. Produces(p) \in Phase
      BY DEF Produces, Phase, Local, Semantic
    <3> QED BY <1>0, <1>4, <3>1 DEF WorkJob
  <2>2. work' \in [Phase -> Assignments]
    BY <1>0, <1>4 DEF WorkJob, Assignments
  <2> QED BY <1>0, <1>2, <1>4, <2>1, <2>2 DEF WorkJob, WorkUnchanged
<1>5. CASE WorkDefers(p)
  <2>1. work' \in [Phase -> Assignments]
    BY <1>0, <1>5 DEF WorkDefers, Assignments
  <2> QED BY <1>0, <1>2, <1>5, <2>1 DEF WorkDefers, WorkUnchanged, Counts
<1>6. CASE WorkReport(p)
  <2>1. p \in Ungated
    BY <1>6 DEF WorkReport, Ungated, Gated, Phase, Local, Semantic
  <2>2. cache' \in Summary /\ moved' \in BOOLEAN /\ work' \in [Phase -> Assignments]
    BY <1>0, <1>6, <2>1, ReportedType, Corrected, QuitsType DEF WorkReport
  <2> QED BY <1>0, <1>2, <1>6, <2>2 DEF WorkReport, WorkUnchanged
<1>7. CASE WorkFails(p)
  <2>1. p \in Ungated
    BY <1>7 DEF WorkFails, Ungated, Gated, Phase, Local, Semantic
  <2>2. cache' \in Summary /\ moved' \in BOOLEAN /\ work' \in [Phase -> Assignments]
    BY <1>0, <1>7, <2>1, ReleasedType, Corrected, QuitsType DEF WorkFails
  <2>3. deferred' \subseteq Phase /\ events' \in Nat
    BY <1>0, <1>7 DEF WorkFails, Counts
  <2> QED BY <1>0, <1>2, <1>7, <2>2, <2>3 DEF WorkFails, WorkUnchanged
<1>8. CASE WorkGate(p)
  <2>1. work' \in [Phase -> Assignments]
    BY <1>0, <1>8 DEF WorkGate, Assignments
  <2> QED BY <1>0, <1>2, <1>8, <2>1 DEF WorkGate, WorkUnchanged
<1>9. CASE GatedFails(p)
  <2>1. cache' \in Summary /\ moved' \in BOOLEAN /\ wake' \in BOOLEAN
    BY <1>0, <1>9, Corrected DEF GatedFails, Verified, MarkDirty
  <2>2. work' \in [Phase -> Assignments]
    BY <1>0, <1>9, QuitsType DEF GatedFails
  <2>3. deferred' \subseteq Phase /\ events' \in Nat
    <3>1. deferred' = deferred \/ deferred' = deferred \cup {p}
      BY <1>9 DEF GatedFails
    <3>2. events' \in Nat
      BY <1>0, <1>9 DEF GatedFails, Counts
    <3> QED BY <1>0, <3>1, <3>2
  <2> QED BY <1>0, <1>2, <1>9, <2>1, <2>2, <2>3 DEF GatedFails, GatedUnchanged
<1>10. CASE WorkAfter(p)
  <2>1. todo' \in [Phase -> Nat]
    BY <1>0, <1>10 DEF WorkAfter
  <2>2. cache' \in Summary /\ moved' \in BOOLEAN
    BY <1>0, <1>10, Corrected DEF WorkAfter, MarkDirty
  <2>3. work' \in [Phase -> Assignments]
    BY <1>0, <1>10 DEF WorkAfter, Assignments
  <2> QED BY <1>0, <1>2, <1>10, <2>1, <2>2, <2>3 DEF WorkAfter, WorkUnchanged
<1>11. CASE WorkFinish(p)
  <2>1. work' \in [Phase -> Assignments] /\ active' \in [Phase -> Nat] /\ waking' \in BOOLEAN
    BY <1>0, <1>11, NobodyWorks DEF WorkFinish
  <2> QED BY <1>0, <1>2, <1>11, <2>1 DEF WorkFinish, WorkUnchanged
<1>12. CASE p = "embeddings" /\ EmbedLookup
  <2>1. cache' \in Summary /\ moved' \in BOOLEAN /\ work' \in [Phase -> Assignments]
    <3>1. CASE UNCHANGED <<cache, moved>>
               /\ work' = [work EXCEPT !["embeddings"].pc = "held", !["embeddings"].hint = cache.hint]
      <4>1. cache.hint \in Nat
        BY <1>0 DEF Summary
      <4> QED BY <1>0, <3>1, <4>1 DEF Assignments
    <3>2. CASE Correct(IF work["embeddings"].mixed THEN Discarded ELSE NoWork)
               /\ Quits("embeddings", "after")
      <4>1. (IF work["embeddings"].mixed THEN Discarded ELSE NoWork) \in Summary
        BY <1>0, NoEmbeddingType
      <4> QED BY <1>0, <1>12, <3>2, <4>1, Corrected, QuitsType
    <3> QED BY <1>12, <3>1, <3>2 DEF EmbedLookup
  <2>2. deferred' \subseteq Phase
    BY <1>0, <1>12 DEF EmbedLookup
  <2> QED BY <1>0, <1>2, <1>12, <2>1, <2>2 DEF EmbedLookup, WorkUnchanged
<1>13. CASE p = "embeddings" /\ Embed
  <2>1. todo' \in [Phase -> Nat]
    <3>1. Less(todo["embeddings"], Batch) \in Nat
      BY <1>0, <1>13, BoundAssumption, Subtraction
    <3> QED BY <1>0, <1>13, <3>1 DEF Embed
  <2>2. work' \in [Phase -> Assignments]
    <3>1. todo'["embeddings"] \in Nat
      BY <1>13, <2>1
    <3> QED BY <1>0, <1>13, <3>1 DEF Embed, Assignments
  <2> QED BY <1>0, <1>2, <1>13, <2>1, <2>2 DEF Embed, WorkUnchanged
<1>14. CASE p = "embeddings" /\ EmbedReport
  <2>1. cache' \in Summary /\ moved' \in BOOLEAN /\ work' \in [Phase -> Assignments]
    BY <1>0, <1>14, EmbeddedType, Corrected, QuitsType DEF EmbedReport
  <2> QED BY <1>0, <1>2, <1>14, <2>1 DEF EmbedReport, WorkUnchanged
<1>15. CASE p = "embeddings" /\ EmbedFails
  <2>1. PICK stored \in BOOLEAN :
           /\ todo' = IF stored THEN [todo EXCEPT !["embeddings"] = Less(@, 1), !["search_index"] = 1]
                      ELSE todo
           /\ IF Stopped("embeddings")
              THEN /\ IF work["embeddings"].mixed THEN Correct(Discarded) /\ UNCHANGED loop
                      ELSE Silent(stored)
                   /\ UNCHANGED deferred
              ELSE MarkDirty /\ deferred' = deferred \cup {"embeddings"} /\ UNCHANGED loop
    BY <1>15 DEF EmbedFails
  <2>2. todo' \in [Phase -> Nat]
    <3>1. Less(todo["embeddings"], 1) \in Nat
      BY <1>0, <1>15, Subtraction
    <3> QED BY <1>0, <2>1, <3>1
  <2>3. cache' \in Summary /\ moved' \in BOOLEAN /\ loop' \in LoopState
    <3>1. CASE Silent(stored)
      <4>1. cache' \in Summary
        BY <1>0, <3>1 DEF Silent, Summary
      <4>2. loop' \in LoopState
        <5>1. loop.seen \in Summary
          BY <1>0 DEF LoopState
        <5> DEFINE g == IF loop.pc = "install"
                        THEN loop.seen.gap \cup (IF stored THEN {"stored"} ELSE {})
                        ELSE loop.seen.gap
        <5>2. [loop.seen EXCEPT !.gap = g] \in Summary
          BY <5>1 DEF Summary
        <5>3. loop' = [loop EXCEPT !.seen = [loop.seen EXCEPT !.gap = g]]
          BY <1>0, <3>1 DEF Silent, LoopState
        <5> HIDE DEF g
        <5> QED BY <1>0, <5>2, <5>3 DEF LoopState
      <4> QED BY <1>0, <3>1, <4>1, <4>2 DEF Silent
    <3>2. CASE Correct(Discarded) /\ UNCHANGED loop
      BY <1>0, <3>2, NoEmbeddingType, Corrected
    <3>3. CASE MarkDirty /\ UNCHANGED loop
      BY <1>0, <3>3, Corrected DEF MarkDirty
    <3> QED BY <2>1, <3>1, <3>2, <3>3
  <2>4. deferred' \subseteq Phase
    BY <1>0, <1>15, <2>1
  <2>5. work' \in [Phase -> Assignments] /\ events' \in Nat
    BY <1>0, <1>15, QuitsType DEF EmbedFails, Counts
  <2> QED BY <1>0, <1>2, <1>15, <2>2, <2>3, <2>4, <2>5 DEF EmbedFails
<1>16. CASE p = "search_index" /\ PublishIndex
  <2>1. cache' \in Summary /\ moved' \in BOOLEAN /\ work' \in [Phase -> Assignments]
    BY <1>0, <1>16, Corrected, QuitsType DEF PublishIndex, MarkDirty
  <2>2. todo' \in [Phase -> Nat] /\ deferred' \subseteq Phase
    BY <1>0, <1>16 DEF PublishIndex
  <2> QED BY <1>0, <1>2, <1>16, <2>1, <2>2 DEF PublishIndex, WorkUnchanged
<1>17. CASE p = "content_verification" /\ Verify
  <2>1. cache' \in Summary /\ moved' \in BOOLEAN /\ work' \in [Phase -> Assignments]
    BY <1>0, <1>17, Corrected, QuitsType DEF Verify, Verified, MarkDirty
  <2>2. todo' \in [Phase -> Nat]
    <3>1. "metadata" \in Phase
      BY DEF Phase, Local
    <3> QED BY <1>0, <1>17, <3>1 DEF Verify
  <2>3. deferred' \subseteq Phase /\ wake' \in BOOLEAN
    BY <1>0, <1>17 DEF Verify, Verified
  <2> QED BY <1>0, <1>2, <1>17, <2>1, <2>2, <2>3 DEF Verify, GatedUnchanged
<1> QED BY <1>3, <1>4, <1>5, <1>6, <1>7, <1>8, <1>9, <1>10, <1>11, <1>12, <1>13, <1>14,
           <1>15, <1>16, <1>17 DEF Worker, WorkStep

\* Others keep the types.
LEMMA OtherType ==
    ASSUME TypeOK,
           \/ WakeLoop \/ \E p \in Phase : Arrive(p) \/ RetryDue(p)
           \/ \E r \in Request : BeginCount(r) \/ BeginCancel(r) \/ EndRequest(r)
           \/ \E c \in Config : Configure(c)
           \/ ConfigMark \/ ConfigSync \/ ConfigStop \/ Notify \/ Settle \/ Lapse \/ UNCHANGED vars
    PROVE  TypeOK'
<1>0. /\ cache \in Summary /\ loop \in LoopState /\ work \in [Phase -> Assignments]
      /\ active \in [Phase -> Nat] /\ todo \in [Phase -> Nat] /\ settling \in Nat
      /\ deferred \subseteq Phase /\ events \in Nat /\ moved \in BOOLEAN /\ wake \in BOOLEAN
      /\ waking \in BOOLEAN /\ Dirtied(cache) \in Summary /\ NoLoop \in LoopState
      /\ "metadata" \in Phase
  BY DirtiedType, RestingType DEF TypeOK, Phase, Local
<1>1. CASE WakeLoop
  BY <1>1 DEF WakeLoop, TypeOK
<1>2. ASSUME NEW p \in Phase, Arrive(p) PROVE TypeOK'
  <2>1. todo' \in [Phase -> Nat] /\ settling' \in Nat /\ events' \in Nat
    BY <1>0, <1>2 DEF Arrive, Counts
  <2> QED BY <1>2, <2>1 DEF Arrive, TypeOK
<1>3. ASSUME NEW installed \in BOOLEAN, NEW read \in BOOLEAN, Expires(installed, read)
      PROVE  cache' \in Summary /\ loop' \in LoopState
  <2> DEFINE a == cache.lapsed \/ installed
             b == loop.seen.lapsed \/ read
  <2>1. loop.seen \in Summary
    BY <1>0 DEF LoopState
  <2>2. a \in BOOLEAN /\ b \in BOOLEAN
    BY <1>0, <1>3, <2>1 DEF Summary
  <2>3. cache' = [cache EXCEPT !.lapsed = a]
        /\ loop' = [loop EXCEPT !.seen = [loop.seen EXCEPT !.lapsed = b]]
    BY <1>0, <1>3 DEF Expires, LoopState
  <2> HIDE DEF a, b
  <2>4. [loop.seen EXCEPT !.lapsed = b] \in Summary /\ cache' \in Summary
    BY <1>0, <2>1, <2>2, <2>3 DEF Summary
  <2> QED BY <1>0, <2>3, <2>4 DEF LoopState
<1>4. ASSUME NEW p \in Phase, RetryDue(p) PROVE TypeOK'
  <2>1. cache.later \in BOOLEAN /\ loop.seen.later \in BOOLEAN
    BY <1>0 DEF Summary, LoopState
  <2> DEFINE a == p = "embeddings" /\ cache.later
             b == p = "embeddings" /\ loop.seen.later
  <2>2. a \in BOOLEAN /\ b \in BOOLEAN
    OBVIOUS
  <2>3. Expires(a, b)
    BY <1>4 DEF RetryDue
  <2> HIDE DEF a, b
  <2>4. cache' \in Summary /\ loop' \in LoopState
    BY <1>3, <2>2, <2>3
  <2> QED BY <1>0, <1>4, <2>4 DEF RetryDue, TypeOK
<1>5. ASSUME NEW r \in Request, BeginCount(r) PROVE TypeOK'
  BY <1>5 DEF BeginCount, Counts, TypeOK
<1>6. ASSUME NEW r \in Request, BeginCancel(r) PROVE TypeOK'
  <2>1. work' \in [Phase -> Assignments]
    BY <1>0, <1>6, EndedType DEF BeginCancel
  <2>2. loop' \in LoopState
    <3> DEFINE b == loop.cut \/ LoopRegistered
    <3>1. b \in BOOLEAN
      BY <1>0 DEF LoopRegistered, LoopState
    <3>2. loop' = [loop EXCEPT !.cut = b]
      BY <1>6 DEF BeginCancel
    <3> HIDE DEF b
    <3> QED BY <1>0, <3>1, <3>2, FlagTypes
  <2> QED BY <1>6, <2>1, <2>2 DEF BeginCancel, TypeOK
<1>7. ASSUME NEW r \in Request, EndRequest(r) PROVE TypeOK'
  BY <1>7 DEF EndRequest, TypeOK
<1>8. ASSUME NEW c \in Config, Configure(c) PROVE TypeOK'
  BY <1>8 DEF Configure, Counts, TypeOK
<1>9. CASE ConfigMark
  <2>1. cache' \in Summary /\ moved' \in BOOLEAN
    BY <1>0, <1>9, Corrected DEF ConfigMark, MarkDirty
  <2> QED BY <1>9, <2>1 DEF ConfigMark, TypeOK
<1>10. CASE ConfigSync
  <2>1. work' \in [Phase -> Assignments]
    BY <1>0, <1>10, EndedType DEF ConfigSync
  <2>2. loop' \in LoopState
    <3> DEFINE b == loop.pc # "off"
    <3>1. b \in BOOLEAN
      OBVIOUS
    <3>2. \/ loop' = [NoLoop EXCEPT !.pc = "sleep"] \/ loop' = loop
          \/ loop' = [loop EXCEPT !.ends = b]
      BY <1>10 DEF ConfigSync
    <3>3. [NoLoop EXCEPT !.pc = "sleep"] \in LoopState
      BY <1>0 DEF LoopState
    <3> HIDE DEF b
    <3> QED BY <1>0, <3>1, <3>2, <3>3, FlagTypes
  <2> QED BY <1>10, <2>1, <2>2 DEF ConfigSync, TypeOK
<1>11. CASE ConfigStop
  <2>1. None \in [Phase -> Nat]
    BY DEF None
  <2> QED BY <1>11, <2>1 DEF ConfigStop, TypeOK
<1>12. CASE Notify
  <2>1. cache' \in Summary /\ moved' \in BOOLEAN
    BY <1>0, <1>12, Corrected DEF Notify, MarkDirty
  <2> QED BY <1>12, <2>1 DEF Notify, TypeOK
<1>13. CASE Settle
  <2>1. cache' \in Summary /\ loop' \in LoopState
    <3> DEFINE a == cache.settling > 0
               b == loop.seen.settling > 0
    <3>1. a \in BOOLEAN /\ b \in BOOLEAN /\ Expires(a, b)
      BY <1>13 DEF Settle
    <3> HIDE DEF a, b
    <3> QED BY <1>3, <3>1
  <2>2. settling' \in Nat /\ todo' \in [Phase -> Nat]
    BY <1>0, <1>13 DEF Settle
  <2> QED BY <1>13, <2>1, <2>2 DEF Settle, TypeOK
<1>14. CASE Lapse
  <2>1. cache' = [cache EXCEPT !.lapsed = TRUE] /\ events' \in Nat
    BY <1>0, <1>14 DEF Lapse, Counts
  <2>2. cache' \in Summary
    BY <1>0, <2>1 DEF Summary
  <2> QED BY <1>14, <2>1, <2>2 DEF Lapse, TypeOK
<1>15. CASE UNCHANGED vars
  BY <1>15 DEF vars, TypeOK
<1> QED BY <1>1, <1>2, <1>4, <1>5, <1>6, <1>7, <1>8, <1>9, <1>10, <1>11, <1>12, <1>13,
           <1>14, <1>15

\* The initial states are typed.
LEMMA TypeInit == Init => TypeOK
<1> SUFFICES ASSUME Init PROVE TypeOK
  OBVIOUS
<1>1. conf \in Config /\ Empty(Hash(conf)) \in Summary
  BY ConfigType, EmptyType DEF Init
<1>2. loop \in LoopState
  BY <1>1 DEF Init, NoLoop, LoopState
<1>3. todo \in [Phase -> Nat] /\ active \in [Phase -> Nat]
  BY BacklogAssumption DEF Init, None
<1>4. work \in [Phase -> Assignments]
  BY NobodyWorks DEF Init
<1> QED BY <1>1, <1>2, <1>3, <1>4 DEF Init, TypeOK

\* Every step keeps the types.
LEMMA TypeStep == TypeOK /\ [Next]_vars => TypeOK'
BY LoopType, WorkType, OtherType DEF Next

\* The types of the scheduler's tables, of its summary and of its goroutines.
THEOREM TypesHold == Spec => []TypeOK
BY TypeInit, TypeStep, PTL DEF Spec

-----------------------------------------------------------------------------
(* Workers and foreground requests.                                        *)

\* What one step of the goroutine of phase p may do.
Registered == {"run", "held", "report", "after"}
Course(p) ==
    /\ work[p].pc # "off" /\ front' = front
    /\ \A q \in Phase \ {p} : work'[q] = work[q] /\ active'[q] = active[q]
    /\ \/ /\ work'[p].pc # "off" /\ active'[p] = active[p]
          /\ work'[p].cut = work[p].cut /\ work'[p].ends = work[p].ends
       \/ work'[p].pc = "off" /\ active'[p] = 0
    /\ p \in Gated /\ work'[p].pc \in Registered => work[p].pc \in Registered \/ Quiet
    /\ loop'.pc = loop.pc /\ loop'.cut = loop.cut /\ loop'.avail = loop.avail
    /\ loop'.ends = loop.ends

\* An assignment that quits takes its course.
LEMMA QuitsCourse ==
    ASSUME TypeOK, NEW p \in Phase, NEW pc \in {"after", "lost"}, Quits(p, pc),
           work[p].pc # "off", active' = active, front' = front, loop' = loop,
           p \in Gated => work[p].pc \in Registered
    PROVE  Course(p)
<1>1. work'[p] = [NoWorker EXCEPT !.pc = pc, !.cut = work[p].cut, !.ends = work[p].ends]
      /\ \A q \in Phase \ {p} : work'[q] = work[q]
  BY DEF Quits, TypeOK
<1>2. work'[p].pc = pc /\ work'[p].cut = work[p].cut /\ work'[p].ends = work[p].ends
  BY <1>1, NobodyWorks DEF Assignments
<1> QED BY <1>1, <1>2 DEF Course

\* Every step of an assignment takes its course.
LEMMA WorkCourse == ASSUME TypeOK, NEW p \in Phase, Worker(p) PROVE Course(p)
<1>0. /\ work \in [Phase -> Assignments] /\ active \in [Phase -> Nat] /\ loop \in LoopState
      /\ work[p] \in Assignments /\ "embeddings" \in Phase
  BY DEF TypeOK, Phase, Semantic
<1>1. CASE WorkClaim(p) \/ WorkJob(p) \/ WorkDefers(p)
  <2>1. CASE WorkClaim(p)
    BY <1>0, <2>1 DEF WorkClaim, WorkUnchanged, Course, Assignments
  <2>2. CASE WorkJob(p)
    BY <1>0, <2>2 DEF WorkJob, WorkUnchanged, Course, Assignments
  <2>3. CASE WorkDefers(p)
    BY <1>0, <2>3 DEF WorkDefers, WorkUnchanged, Course, Assignments
  <2> QED BY <1>1, <2>1, <2>2, <2>3
<1>2. CASE WorkReport(p) \/ WorkFails(p)
  BY <1>0, <1>2, QuitsCourse DEF WorkReport, WorkFails, WorkUnchanged
<1>3. CASE WorkGate(p)
  BY <1>0, <1>3 DEF WorkGate, Admits, WorkUnchanged, Course, Assignments, Registered
<1>4. CASE WorkAfter(p)
  BY <1>0, <1>4 DEF WorkAfter, WorkUnchanged, Course, Assignments, Registered
<1>5. CASE WorkFinish(p)
  <2>1. NoWorker.pc = "off"
    BY DEF NoWorker
  <2> QED BY <1>0, <1>5, <2>1 DEF WorkFinish, WorkUnchanged, Course, Registered
<1>6. CASE GatedFails(p)
  BY <1>0, <1>6, QuitsCourse DEF GatedFails, GatedUnchanged, Registered
<1>7. CASE p = "embeddings" /\ EmbedLookup
  <2>1. CASE Quits("embeddings", "after")
    BY <1>0, <1>7, <2>1, QuitsCourse DEF EmbedLookup, WorkUnchanged, Registered
  <2>2. CASE work' = [work EXCEPT !["embeddings"].pc = "held", !["embeddings"].hint = cache.hint]
    BY <1>0, <1>7, <2>2 DEF EmbedLookup, WorkUnchanged, Course, Registered, Assignments
  <2> QED BY <1>7, <2>1, <2>2 DEF EmbedLookup
<1>8. CASE p = "embeddings" /\ Embed
  BY <1>0, <1>8 DEF Embed, WorkUnchanged, Course, Registered, Assignments
<1>9. CASE p = "embeddings" /\ EmbedReport
  BY <1>0, <1>9, QuitsCourse DEF EmbedReport, WorkUnchanged, Registered
<1>10. CASE p = "embeddings" /\ EmbedFails
  <2>1. Quits("embeddings", "after") /\ work["embeddings"].pc = "held"
        /\ active' = active /\ front' = front
    BY <1>10 DEF EmbedFails
  <2>2. CASE loop' = loop
    BY <1>0, <1>10, <2>1, <2>2, QuitsCourse DEF Registered
  <2>3. ASSUME NEW stored \in BOOLEAN, Silent(stored) PROVE Course(p)
    <3>1. /\ loop'.pc = loop.pc /\ loop'.cut = loop.cut /\ loop'.avail = loop.avail
          /\ loop'.ends = loop.ends
      BY <1>0, <2>3 DEF Silent, LoopState
    <3>2. work'[p] = [NoWorker EXCEPT !.pc = "after", !.cut = work[p].cut, !.ends = work[p].ends]
          /\ \A q \in Phase \ {p} : work'[q] = work[q]
      BY <1>0, <1>10, <2>1 DEF Quits
    <3>3. work'[p].pc = "after" /\ work'[p].cut = work[p].cut /\ work'[p].ends = work[p].ends
      BY <3>2, NobodyWorks DEF Assignments
    <3> QED BY <1>10, <2>1, <3>1, <3>2, <3>3 DEF Course, Registered
  <2> QED BY <1>10, <2>2, <2>3 DEF EmbedFails
<1>11. CASE p = "search_index" /\ PublishIndex
  BY <1>0, <1>11, QuitsCourse DEF PublishIndex, WorkUnchanged, Registered
<1>12. CASE p = "content_verification" /\ Verify
  BY <1>0, <1>12, QuitsCourse DEF Verify, GatedUnchanged, Registered
<1> QED BY <1>1, <1>2, <1>3, <1>4, <1>5, <1>6, <1>7, <1>8, <1>9, <1>10, <1>11,
           <1>12 DEF Worker, WorkStep

\* The loop has workers to give while it reads and chooses.
HasWorkers == loop.pc \in Reading \cup {"choose"} => loop.avail > 0
SlotsInv == SlotsHeld /\ HasWorkers

\* What a step of the loop may do to assignments, and to its own registration.
Arranged ==
    /\ \/ /\ active' = active
          /\ \A p \in Phase : work'[p].pc = work[p].pc /\ work'[p].cut = work[p].cut
       \/ loop.pc = "choose" /\ \E p \in Phase : Launched(p)
    /\ LoopRegistered' => Quiet \/ (LoopRegistered /\ loop'.cut = loop.cut)
    /\ front' = front

\* What a loop at rest keeps.
LEMMA RestFields ==
    ASSUME TypeOK, NEW l \in LoopState
    PROVE  Rest(l).pc = "sleep" /\ NoLoop.pc = "off"
<1>1. NoLoop \in LoopState
  BY RestingType
<1> QED BY <1>1 DEF Rest, NoLoop, LoopState

\* Every step of the loop is arranged.
LEMMA LoopArranges == ASSUME TypeOK, LoopStep PROVE Arranged
<1>0. /\ work \in [Phase -> Assignments] /\ loop \in LoopState
      /\ Rest(loop).pc = "sleep" /\ NoLoop.pc = "off"
  BY RestFields DEF TypeOK
<1>1. front' = front
  BY DEF LoopStep, LoopWake, LoopLook, LoopGate, LoopRead, LoopReadFails, LoopInstall, LoopChoose,
         LoopUnchanged
<1>2. CASE LoopWake
  <2>1. active' = active /\ loop'.pc \in {"off", "look"}
    BY <1>0, <1>2 DEF LoopWake, Leave, LoopState
  <2>2. \A p \in Phase : work'[p].pc = work[p].pc /\ work'[p].cut = work[p].cut
    BY <1>0, <1>2 DEF LoopWake, Leave, Assignments
  <2> QED BY <1>1, <2>1, <2>2 DEF Arranged, LoopRegistered
<1>3. CASE LoopLook
  <2>1. active' = active /\ work' = work /\ loop'.pc \in {"sleep", "choose", "gate"}
    BY <1>0, <1>3 DEF LoopLook, LoopState
  <2> QED BY <1>1, <2>1 DEF Arranged, LoopRegistered
<1>4. CASE LoopGate
  <2>1. /\ active' = active /\ work' = work
        /\ loop'.pc \in {"sleep", "admit", "gate"} \/ (loop'.pc = "local" /\ Quiet)
    BY <1>0, <1>4 DEF LoopGate, LoopState, Admits
  <2> QED BY <1>1, <2>1 DEF Arranged, LoopRegistered
<1>5. CASE LoopRead
  <2>1. /\ active' = active /\ work' = work /\ loop'.cut = loop.cut
        /\ loop.pc \in {"local", "thumbs", "semantic"}
    BY <1>0, <1>5 DEF LoopRead, LoopState
  <2> QED BY <1>1, <2>1 DEF Arranged, LoopRegistered
<1>6. CASE LoopReadFails
  <2>1. active' = active /\ work' = work /\ loop'.pc = "sleep"
    BY <1>0, <1>6 DEF LoopReadFails
  <2> QED BY <1>1, <2>1 DEF Arranged, LoopRegistered
<1>7. CASE LoopInstall
  <2>1. active' = active /\ loop'.pc \in {"choose", "sleep"}
    BY <1>0, <1>7 DEF LoopInstall, LoopState
  <2>2. \A p \in Phase : work'[p].pc = work[p].pc /\ work'[p].cut = work[p].cut
    BY <1>0, <1>7 DEF LoopInstall, Assignments
  <2> QED BY <1>1, <2>1, <2>2 DEF Arranged, LoopRegistered
<1>8. CASE LoopChoose
  <2>1. loop'.pc \in {"sleep", "look"}
    BY <1>0, <1>8, ChoiceMade DEF Launched, LoopState
  <2>2. loop.pc = "choose"
    BY <1>8 DEF LoopChoose
  <2> QED BY <1>1, <1>8, <2>1, <2>2, ChoiceMade DEF Arranged, LoopRegistered
<1> QED BY <1>2, <1>3, <1>4, <1>5, <1>6, <1>7, <1>8 DEF LoopStep

\* The loop looks for free workers before it reads or chooses.
LEMMA LoopKeepsWorkers == ASSUME TypeOK, HasWorkers, LoopStep PROVE HasWorkers'
<1>0. loop \in LoopState /\ Rest(loop).pc = "sleep" /\ NoLoop.pc = "off"
  BY RestFields DEF TypeOK
<1>1. CASE LoopWake
  <2>1. loop'.pc \in {"off", "look"}
    BY <1>0, <1>1 DEF LoopWake, Leave, LoopState
  <2> QED BY <2>1 DEF HasWorkers, Reading
<1>2. CASE LoopLook
  <2> DEFINE n == Less(conf.workers, Sum(active))
             b == active["embeddings"] + active["search_index"] > 0
             next == [loop EXCEPT !.avail = n, !.cut = FALSE, !.busy = b]
  <2>1. \/ loop' = Rest(loop)
        \/ n # 0 /\ loop' = [next EXCEPT !.pc = "choose", !.seen = cache]
        \/ n # 0 /\ loop' = [next EXCEPT !.pc = "gate", !.seen = Empty(Hash(conf))]
    BY <1>0, <1>2 DEF LoopLook, LoopState
  <2>2. n \in Nat
    <3>1. Sum(active) \in Nat /\ conf.workers \in Nat
      BY ConfigType DEF Sum, TypeOK, Phase, Local, Semantic
    <3> QED BY <3>1, Subtraction
  <2>4. next.avail = n /\ {"avail", "pc", "seen"} \subseteq DOMAIN next
    BY <1>0 DEF LoopState
  <2>5. [next EXCEPT !.pc = "choose", !.seen = cache].avail = n
        /\ [next EXCEPT !.pc = "gate", !.seen = Empty(Hash(conf))].avail = n
    <3> HIDE DEF next, n
    <3> QED BY <2>4
  <2> HIDE DEF next, n
  <2>3. loop'.pc = "sleep" \/ loop'.avail > 0
    <3>1. ASSUME loop' = Rest(loop) PROVE loop'.pc = "sleep"
      BY <1>0, <3>1
    <3>2. ASSUME n # 0, loop'.avail = n PROVE loop'.avail > 0
      BY <2>2, <3>2
    <3> QED BY <2>1, <2>5, <3>1, <3>2, Zenon
  <2> QED BY <2>3 DEF HasWorkers, Reading
<1>3. CASE LoopGate \/ LoopRead \/ LoopReadFails \/ LoopInstall
  <2>1. loop'.pc = "sleep" \/ (loop.pc \in Reading /\ loop'.avail = loop.avail)
    <3>1. CASE LoopGate
      BY <1>0, <3>1 DEF LoopGate, LoopState, Reading
    <3>2. CASE LoopRead
      BY <1>0, <3>2 DEF LoopRead, LoopState, Reading
    <3>3. CASE LoopReadFails
      BY <1>0, <3>3 DEF LoopReadFails
    <3>4. CASE LoopInstall
      BY <1>0, <3>4 DEF LoopInstall, LoopState, Reading
    <3> QED BY <1>3, <3>1, <3>2, <3>3, <3>4
  <2> QED BY <2>1 DEF HasWorkers, Reading
<1>4. CASE LoopChoose
  <2>1. loop'.pc \in {"sleep", "look"}
    BY <1>0, <1>4, ChoiceMade DEF Launched, LoopState
  <2> QED BY <2>1 DEF HasWorkers, Reading
<1> QED BY <1>1, <1>2, <1>3, <1>4 DEF LoopStep

\* The table of active workers, under every step.
LEMMA SlotsStep == TypeOK /\ SlotsInv /\ [Next]_vars => SlotsInv'
<1> SUFFICES ASSUME TypeOK, SlotsInv, [Next]_vars PROVE SlotsInv'
  OBVIOUS
<1>0. work \in [Phase -> Assignments] /\ active \in [Phase -> Nat] /\ loop \in LoopState
  BY DEF TypeOK
<1>1. CASE LoopStep
  <2>1. HasWorkers'
    BY <1>1, LoopKeepsWorkers DEF SlotsInv
  <2>2. ASSUME NEW p \in Phase, Launched(p), loop.pc = "choose" PROVE SlotsHeld'
    <3>1. Workers(p) \in Nat /\ Workers(p) > 0
      BY <1>0, <2>2 DEF SlotsInv, HasWorkers, Workers, LoopState
    <3>2. Assignment(p, loop.seen).pc \in {"gate", "run"}
      BY NobodyWorks DEF Assignment, Assignments
    <3> QED BY <1>0, <2>2, <3>1, <3>2 DEF SlotsInv, SlotsHeld, Launched
  <2>3. SlotsHeld'
    BY <1>1, <2>2, LoopArranges DEF Arranged, SlotsInv, SlotsHeld
  <2> QED BY <2>1, <2>3 DEF SlotsInv
<1>2. ASSUME NEW p \in Phase, Worker(p) PROVE SlotsInv'
  <2>1. Course(p)
    BY <1>2, WorkCourse
  <2>2. SlotsHeld'
    BY <1>0, <2>1 DEF Course, SlotsInv, SlotsHeld
  <2>3. HasWorkers'
    BY <2>1 DEF Course, SlotsInv, HasWorkers
  <2> QED BY <2>2, <2>3 DEF SlotsInv
<1>3. ASSUME active' = active, \A p \in Phase : work'[p].pc = work[p].pc,
             loop'.pc = loop.pc /\ loop'.avail = loop.avail
      PROVE  SlotsInv'
  BY <1>3 DEF SlotsInv, SlotsHeld, HasWorkers
<1>4. ASSUME WakeLoop \/ \E p \in Phase : Arrive(p) PROVE SlotsInv'
  BY <1>3, <1>4 DEF WakeLoop, Arrive
<1>5. ASSUME NEW p \in Phase, RetryDue(p) PROVE SlotsInv'
  BY <1>0, <1>3, <1>5 DEF RetryDue, Expires, LoopState
<1>6. ASSUME NEW r \in Request, BeginCount(r) \/ BeginCancel(r) \/ EndRequest(r) PROVE SlotsInv'
  <2>1. CASE BeginCount(r) \/ EndRequest(r)
    BY <1>3, <2>1 DEF BeginCount, EndRequest
  <2>2. CASE BeginCancel(r)
    <3>1. loop'.pc = loop.pc /\ loop'.avail = loop.avail /\ active' = active
      BY <1>0, <2>2 DEF BeginCancel, LoopState
    <3>2. \A p \in Phase : work'[p].pc = work[p].pc
      BY <1>0, <2>2 DEF BeginCancel, Assignments
    <3> QED BY <1>3, <3>1, <3>2
  <2> QED BY <1>6, <2>1, <2>2
<1>7. CASE (\E c \in Config : Configure(c)) \/ ConfigMark \/ Notify \/ Lapse \/ UNCHANGED vars
  BY <1>3, <1>7 DEF Configure, ConfigMark, Notify, Lapse, vars
<1>8. CASE ConfigSync
  <2>1. active' = active /\ \A p \in Phase : work'[p].pc = work[p].pc
    BY <1>0, <1>8 DEF ConfigSync, Assignments
  <2>2. loop'.pc = "sleep" \/ (loop'.pc = loop.pc /\ loop'.avail = loop.avail)
    <3>1. NoLoop \in LoopState
      BY <1>0, RestingType
    <3> QED BY <1>0, <1>8, <3>1 DEF ConfigSync, LoopState
  <2> QED BY <2>1, <2>2 DEF SlotsInv, SlotsHeld, HasWorkers, Reading
<1>9. CASE ConfigStop
  BY <1>9 DEF ConfigStop, AllStopped, None, SlotsInv, SlotsHeld, HasWorkers
<1>10. CASE Settle
  BY <1>0, <1>3, <1>10 DEF Settle, Expires, LoopState
<1> QED BY <1>1, <1>2, <1>4, <1>5, <1>6, <1>7, <1>8, <1>9, <1>10 DEF Next

\* Requests that have begun, under every step.
LEMMA YieldsStep == TypeOK /\ Yields /\ [Next]_vars => Yields'
<1> SUFFICES ASSUME TypeOK, Yields, [Next]_vars PROVE Yields'
  OBVIOUS
<1>0. work \in [Phase -> Assignments] /\ loop \in LoopState /\ front \in [Request -> {"off", "begun", "in"}]
  BY DEF TypeOK
<1>1. ASSUME \E r \in Request : front[r] = "in" PROVE ~Quiet
  BY <1>1 DEF Quiet
<1>2. ASSUME \A r \in Request : front'[r] = "in" => front[r] = "in",
             LoopRegistered' => Quiet \/ (LoopRegistered /\ loop'.cut = loop.cut),
             \A p \in Phase : WorkRegistered(p)' =>
                Quiet \/ (WorkRegistered(p) /\ work'[p].cut = work[p].cut)
      PROVE  Yields'
  BY <1>1, <1>2 DEF Yields
<1>3. CASE LoopStep
  <2>1. Arranged
    BY <1>3, LoopArranges
  <2>2. ASSUME NEW p \in Phase, WorkRegistered(p)'
        PROVE  WorkRegistered(p) /\ work'[p].cut = work[p].cut
    <3>1. ASSUME NEW q \in Phase, Launched(q) PROVE p # q /\ work'[p] = work[p]
      <4>1. q \in Gated => Assignment(q, loop.seen).pc = "gate"
        BY NobodyWorks DEF Assignment, Assignments
      <4> QED BY <1>0, <2>2, <3>1, <4>1 DEF Launched, WorkRegistered
    <3> QED BY <2>1, <2>2, <3>1 DEF Arranged, WorkRegistered
  <2> QED BY <1>2, <2>1, <2>2 DEF Arranged
<1>4. ASSUME NEW p \in Phase, Worker(p) PROVE Yields'
  <2>1. Course(p)
    BY <1>4, WorkCourse
  <2>2. ASSUME NEW q \in Phase, WorkRegistered(q)'
        PROVE  Quiet \/ (WorkRegistered(q) /\ work'[q].cut = work[q].cut)
    BY <2>1, <2>2 DEF Course, WorkRegistered, Registered
  <2>3. LoopRegistered' => LoopRegistered /\ loop'.cut = loop.cut
    BY <2>1 DEF Course, LoopRegistered
  <2> QED BY <1>2, <2>1, <2>2, <2>3 DEF Course
<1>5. ASSUME \A r \in Request : front'[r] = "in" => front[r] = "in",
             loop'.pc = loop.pc /\ loop'.cut = loop.cut,
             \A p \in Phase : work'[p].pc = work[p].pc /\ work'[p].cut = work[p].cut
      PROVE  Yields'
  BY <1>2, <1>5 DEF LoopRegistered, WorkRegistered
<1>6. CASE WakeLoop \/ \E p \in Phase : Arrive(p)
  BY <1>5, <1>6 DEF WakeLoop, Arrive
<1>7. ASSUME NEW p \in Phase, RetryDue(p) PROVE Yields'
  BY <1>0, <1>5, <1>7 DEF RetryDue, Expires, LoopState
<1>8. ASSUME NEW r \in Request, BeginCount(r) \/ EndRequest(r) PROVE Yields'
  BY <1>0, <1>5, <1>8 DEF BeginCount, EndRequest
<1>9. ASSUME NEW r \in Request, BeginCancel(r) PROVE Yields'
  <2>1. LoopRegistered' => loop'.cut
    BY <1>0, <1>9 DEF BeginCancel, LoopRegistered, LoopState
  <2>2. \A p \in Phase : WorkRegistered(p)' => work'[p].cut
    BY <1>0, <1>9 DEF BeginCancel, WorkRegistered, Assignments
  <2> QED BY <2>1, <2>2 DEF Yields
<1>10. CASE (\E c \in Config : Configure(c)) \/ ConfigMark \/ Notify \/ Lapse \/ UNCHANGED vars
  BY <1>5, <1>10 DEF Configure, ConfigMark, Notify, Lapse, vars
<1>11. CASE ConfigSync
  <2>1. front' = front /\ \A p \in Phase : work'[p].pc = work[p].pc /\ work'[p].cut = work[p].cut
    BY <1>0, <1>11 DEF ConfigSync, Assignments
  <2>2. LoopRegistered' => LoopRegistered /\ loop'.cut = loop.cut
    <3>1. NoLoop \in LoopState
      BY <1>0, RestingType
    <3> QED BY <1>0, <1>11, <3>1 DEF ConfigSync, LoopState, LoopRegistered
  <2> QED BY <1>2, <2>1, <2>2 DEF WorkRegistered
<1>12. CASE ConfigStop
  BY <1>5, <1>12 DEF ConfigStop
<1>13. CASE Settle
  BY <1>0, <1>5, <1>13 DEF Settle, Expires, LoopState
<1> QED BY <1>3, <1>4, <1>6, <1>7, <1>8, <1>9, <1>10, <1>11, <1>12, <1>13 DEF Next

\* No phase has a worker at the start.
LEMMA SlotsInit == Init => SlotsInv
BY DEF Init, SlotsInv, SlotsHeld, HasWorkers, None, NoWorker, NoLoop, Reading, Phase, Local,
       Semantic

\* backgroundWorkerActive names exactly the phases that have a goroutine, and
\* a phase has at most one, whatever restarts of the loop come between.
THEOREM SlotsAgree == Spec => []SlotsHeld
<1>1. SlotsInv => SlotsHeld
  BY DEF SlotsInv
<1> QED BY <1>1, SlotsInit, SlotsStep, TypesHold, PTL DEF Spec

\* After a foreground request has been admitted no background read and no
\* cancellable assignment goes on under a context that nobody cancelled.
THEOREM BackgroundYields == Spec => []Yields
<1>1. Init => Yields
  BY DEF Init, Yields
<1> QED BY <1>1, YieldsStep, TypesHold, PTL DEF Spec

-----------------------------------------------------------------------------
(* The books: what the summary may say of the work in the catalog.         *)
(*                                                                         *)
(* The operators below take the summary, the jobs, the settling files and  *)
(* the goroutines as arguments, because they are asked of the summary that *)
(* is installed and of one that is being read.                             *)

\* Jobs that a running batch of metadata or thumbnails may still take.
Remaining(w) ==
    IF w.pc = "run" THEN Less(w.planned, w.done)
    ELSE IF w.pc = "held" THEN Less(w.planned, w.done + 1) ELSE 0

\* A gated assignment that will still correct the summary.
Awaited(w) ==
    /\ ~w.ends
    /\ \/ w.pc \in {"gate", "admit", "run", "held", "report"}
       \/ w.pc = "after" /\ w.cut

CountsMetadata(c, t, s, k) ==
    /\ t["metadata"] <= c.count["metadata"] + Remaining(k["metadata"])
    /\ s > 0 => c.settling > 0
CountsThumbnails(c, t, k) ==
    t["thumbnails"] <= c.count["thumbnails"] + Remaining(k["thumbnails"]) + k["metadata"].found
CountsChecks(c, t, k) ==
    t["content_verification"] > 0 =>
        c.count["content_verification"] > 0 \/ Awaited(k["content_verification"])
CountsEmbeddings(c, t, k) ==
    t["embeddings"] > 0 =>
        \/ c.count["embeddings"] > 0 \/ c.hint > 0
        \/ k["thumbnails"].found > 0 \/ Awaited(k["embeddings"])
CountsIndex(c, t, k) ==
    t["search_index"] > 0 => c.count["search_index"] > 0 \/ k["embeddings"].pc = "report"

\* Somebody will mark the summary for something that it may not count.
Owes(n, a, k) ==
    \/ n = "dirty" \/ a = "dirty"
    \/ \E p \in Ungated :
         \/ k[p].pc \in {"run", "held"} /\ k[p].odd
         \/ k[p].pc \in {"run", "held", "after", "lost"} /\ k[p].ends
Owing == Owes(notice, admin, work)

Usable(c) == ~c.dirty /\ ~c.lapsed

\* Batches of metadata and thumbnails, by the state of their goroutine.
Places ==
    /\ \A p \in Ungated :
         /\ work[p].pc \in {"off", "run", "held", "after", "lost", "finish"}
         /\ work[p].pc \in {"run", "held"} => work[p].planned > 0
         /\ work[p].pc \notin {"run", "held"} => work[p].planned = 0 /\ work[p].found = 0
         /\ work[p].pc = "lost" => work[p].ends
    /\ \A p \in Gated : work[p].pc # "lost"

\* The loop is only ended for good when nothing is configured.
Ends ==
    /\ admin = "stop" => ~conf.local /\ ~conf.semantic
    /\ loop.ends => admin = "stop" /\ loop.pc # "off"

CacheInv ==
    cache.known /\ Usable(cache) /\ ~Owing =>
        /\ conf.local => /\ CountsMetadata(cache, todo, settling, work)
                         /\ CountsThumbnails(cache, todo, work)
                         /\ CountsChecks(cache, todo, work)
        /\ cache.gap = {} /\ conf.workers > 0 =>
             /\ CountsIndex(cache, todo, work)
             /\ conf.semantic /\ cache.hash = Hash(conf) => CountsEmbeddings(cache, todo, work)

ReadInv ==
    loop.pc \in Reading /\ ~moved /\ Usable(loop.seen) /\ ~Owing =>
        /\ conf.local =>
             /\ loop.pc \in {"thumbs", "semantic", "install"} =>
                  CountsMetadata(loop.seen, todo, settling, work)
             /\ loop.pc \in {"semantic", "install"} =>
                  CountsThumbnails(loop.seen, todo, work) /\ CountsChecks(loop.seen, todo, work)
        /\ loop.pc = "install" /\ loop.seen.gap = {} /\ conf.workers > 0 =>
             /\ CountsIndex(loop.seen, todo, work)
             /\ conf.semantic /\ loop.seen.hash = Hash(conf) =>
                  CountsEmbeddings(loop.seen, todo, work)

\* An embedding run, until its summary is replaced by a recount: the hints it
\* will subtract are still there, and its status with the others' hints counts
\* all vectors to be computed.
HintsKept(c, w) == w.pc \in {"held", "report"} /\ ~w.replaced => w.hint <= c.hint
StatusCounts(c, t, k) ==
    t["embeddings"] <= k["embeddings"].found + Less(c.hint, k["embeddings"].hint)
                       + k["thumbnails"].found
ReportInv ==
    /\ HintsKept(cache, work["embeddings"])
    /\ /\ work["embeddings"].pc = "report" /\ ~work["embeddings"].replaced
       /\ cache.known /\ Usable(cache) /\ cache.hash.embeds /\ ~Owing
       => StatusCounts(cache, todo, work)

Books == CacheInv /\ ReadInv /\ ReportInv

-----------------------------------------------------------------------------
(* Steps that leave the plans of assignments alone.                        *)

Flagged ==
    \A p \in Phase :
        /\ work'[p].pc = work[p].pc /\ work'[p].planned = work[p].planned
        /\ work'[p].done = work[p].done /\ work'[p].found = work[p].found
        /\ work'[p].hint = work[p].hint /\ work'[p].odd = work[p].odd
        /\ work[p].cut => work'[p].cut
        /\ work[p].pc # "off" /\ work[p].replaced => work'[p].replaced
        /\ work[p].ends => work'[p].ends
        /\ work'[p].ends => work[p].ends \/ (~conf.local /\ ~conf.semantic)

\* A step that leaves the assignments alone.
LEMMA UnchangedFlags == work' = work => Flagged
BY DEF Flagged

\* The contexts of all assignments end when nothing is configured any more.
LEMMA EndedFlags ==
    ASSUME work \in [Phase -> Assignments], ~conf.local, ~conf.semantic,
           work' = [p \in Phase |-> [work[p] EXCEPT !.ends = @ \/ work[p].pc # "off"]]
    PROVE  Flagged
BY DEF Flagged, Assignments

\* A step of the loop leaves the plans alone, unless it launches an assignment.
LEMMA LoopFlags ==
    ASSUME TypeOK, Ends, LoopStep
    PROVE  Flagged \/ (LoopChoose /\ \E p \in Phase : Launched(p)
                                      /\ (p \in Ungated => loop.seen.count[p] > 0))
<1>0. work \in [Phase -> Assignments]
  BY DEF TypeOK
<1>1. CASE LoopWake
  <2>1. CASE work' = work
    BY <2>1, UnchangedFlags
  <2>2. CASE (loop.ends \/ ~Configured) /\ Leave
    <3>1. ~conf.local /\ ~conf.semantic
      BY <2>2 DEF Ends, Configured
    <3> QED BY <1>0, <2>2, <3>1, EndedFlags DEF Leave
  <2> QED BY <1>1, <2>1, <2>2 DEF LoopWake
<1>2. CASE LoopLook \/ LoopGate \/ LoopRead \/ LoopReadFails
  BY <1>2, UnchangedFlags DEF LoopLook, LoopGate, LoopRead, LoopReadFails
<1>3. CASE LoopInstall
  <2>1. CASE work' = work
    BY <2>1, UnchangedFlags
  <2>2. CASE work' = [work EXCEPT !["embeddings"].replaced = work["embeddings"].pc # "off"]
             /\ work["embeddings"].pc # "off"
    BY <1>0, <2>2 DEF Flagged, Assignments
  <2>3. CASE work' = [work EXCEPT !["embeddings"].replaced = work["embeddings"].pc # "off"]
             /\ work["embeddings"].pc = "off"
    BY <1>0, <2>3 DEF Flagged, Assignments
  <2> QED BY <1>3, <2>1, <2>2, <2>3 DEF LoopInstall
<1>4. CASE LoopChoose
  BY <1>4, ChoiceMade, UnchangedFlags
<1> QED BY <1>1, <1>2, <1>3, <1>4 DEF LoopStep

Elsewhere ==
    \/ WakeLoop \/ \E p \in Phase : Arrive(p) \/ RetryDue(p)
    \/ \E r \in Request : BeginCount(r) \/ BeginCancel(r) \/ EndRequest(r)
    \/ \E c \in Config : Configure(c)
    \/ ConfigMark \/ ConfigSync \/ ConfigStop \/ Notify \/ Settle \/ Lapse \/ UNCHANGED vars

\* Steps of others than the loop and the assignments.
LEMMA OtherFlags == ASSUME TypeOK, Elsewhere PROVE Flagged
<1>0. work \in [Phase -> Assignments]
  BY DEF TypeOK
<1>1. CASE work' = work
  BY <1>1, UnchangedFlags
<1>2. ASSUME NEW r \in Request, BeginCancel(r) PROVE Flagged
  BY <1>0, <1>2 DEF BeginCancel, Flagged, Assignments
<1>3. CASE ConfigSync
  <2>1. CASE ~Configured
    BY <1>0, <1>3, <2>1, EndedFlags DEF ConfigSync, Configured
  <2> QED BY <1>1, <1>3, <2>1 DEF ConfigSync
<1> QED BY <1>1, <1>2, <1>3 DEF Elsewhere, WakeLoop, Arrive, RetryDue, BeginCount, EndRequest,
           Configure, ConfigMark, ConfigStop, Notify, Settle, Lapse, vars

\* The steps, by whose they are.
LEMMA NextCases ==
    ASSUME [Next]_vars PROVE LoopStep \/ Elsewhere \/ \E p \in Phase : Worker(p)
BY DEF Next, Elsewhere

-----------------------------------------------------------------------------
(* The states of batches, and the end of the loop.                         *)

\* The steps of a batch of metadata or thumbnails.
LEMMA UngatedSteps ==
    ASSUME Places, NEW p \in Ungated, Worker(p)
    PROVE  \/ WorkClaim(p) \/ WorkJob(p) \/ WorkDefers(p) \/ WorkReport(p) \/ WorkFails(p)
           \/ WorkAfter(p) \/ WorkFinish(p)
BY DEF Places, Worker, WorkStep, WorkGate, GatedFails, Ungated

\* The steps of an assignment that foreground requests cancel.
LEMMA GatedSteps ==
    ASSUME NEW p \in Gated, Worker(p)
    PROVE  \/ WorkGate(p) \/ GatedFails(p) \/ WorkAfter(p) \/ WorkFinish(p)
           \/ p = "embeddings" /\ (EmbedLookup \/ Embed \/ EmbedReport \/ EmbedFails)
           \/ p = "search_index" /\ PublishIndex
           \/ p = "content_verification" /\ Verify
BY DEF Worker, WorkStep, WorkClaim, WorkJob, WorkDefers, WorkReport, WorkFails

\* A phase is gated, or not.
LEMMA PhaseKinds ==
    /\ Phase = Ungated \cup Gated /\ Ungated \cap Gated = {}
    /\ "metadata" \in Ungated /\ "thumbnails" \in Ungated
    /\ "embeddings" \in Gated /\ "search_index" \in Gated /\ "content_verification" \in Gated
BY DEF Phase, Ungated, Gated, Local, Semantic

\* What a batch keeps when it quits.
LEMMA Quitted ==
    ASSUME TypeOK, NEW p \in Phase, NEW pc \in {"after", "lost"}, Quits(p, pc)
    PROVE  /\ work'[p].pc = pc /\ work'[p].planned = 0 /\ work'[p].found = 0
           /\ work'[p].done = 0 /\ ~work'[p].odd /\ ~work'[p].replaced
           /\ work'[p].cut = work[p].cut /\ work'[p].ends = work[p].ends
           /\ \A q \in Phase \ {p} : work'[q] = work[q]
<1>1. work'[p] = [NoWorker EXCEPT !.pc = pc, !.cut = work[p].cut, !.ends = work[p].ends]
      /\ \A q \in Phase \ {p} : work'[q] = work[q]
  BY DEF Quits, TypeOK
<1> QED BY <1>1 DEF NoWorker

\* What is left of an assignment at its end.
LEMMA Finished ==
    ASSUME TypeOK, NEW p \in Phase, WorkFinish(p)
    PROVE  /\ work'[p].pc = "off" /\ work'[p].planned = 0 /\ work'[p].found = 0
           /\ ~work'[p].odd /\ ~work'[p].ends
           /\ \A q \in Phase \ {p} : work'[q] = work[q]
BY DEF WorkFinish, NoWorker, TypeOK

\* An assignment at its launch.
LEMMA LaunchedWork ==
    ASSUME TypeOK, NEW p \in Phase, Launched(p), p \in Ungated => loop.seen.count[p] > 0
    PROVE  /\ work'[p].planned = Planned(p, loop.seen) /\ work'[p].planned \in Nat
           /\ p \in Ungated => work'[p].pc = "run" /\ work'[p].planned > 0
           /\ p \in Gated => work'[p].pc = "gate"
           /\ work'[p].done = 0 /\ work'[p].found = 0 /\ ~work'[p].odd /\ ~work'[p].ends
           /\ \A q \in Phase \ {p} : work'[q] = work[q]
<1>0. work \in [Phase -> Assignments] /\ loop.seen \in Summary /\ Batch \in Nat /\ Batch > 0
  BY BoundAssumption DEF TypeOK, LoopState
<1>1. work'[p] = Assignment(p, loop.seen) /\ \A q \in Phase \ {p} : work'[q] = work[q]
  BY <1>0 DEF Launched
<1>2. Planned(p, loop.seen) \in Nat /\ (p \in Ungated => Planned(p, loop.seen) > 0)
  <2>1. loop.seen.count[p] \in Nat
    BY <1>0 DEF Summary
  <2>2. p \in Ungated => Least(Batch, loop.seen.count[p]) > 0
    BY <1>0, <2>1 DEF Least
  <2>3. Least(Batch, loop.seen.count[p]) \in Nat
    BY <1>0, <2>1, Subtraction
  <2> QED BY <1>0, <2>2, <2>3 DEF Planned, Ungated
<1>3. Assignment(p, loop.seen).pc = IF p \in Gated THEN "gate" ELSE "run"
  BY DEF Assignment, NoWorker
<1>4. /\ Assignment(p, loop.seen).planned = Planned(p, loop.seen)
      /\ Assignment(p, loop.seen).done = 0 /\ Assignment(p, loop.seen).found = 0
      /\ Assignment(p, loop.seen).odd = FALSE /\ Assignment(p, loop.seen).ends = FALSE
  BY DEF Assignment, NoWorker
<1> QED BY <1>1, <1>2, <1>3, <1>4, PhaseKinds

\* A gated assignment leaves no job claimed.
LEMMA GatedNotLost ==
    ASSUME TypeOK, NEW p \in Gated, Worker(p)
    PROVE  work'[p].pc # "lost"
<1>0. work \in [Phase -> Assignments] /\ p \in Phase
  BY PhaseKinds DEF TypeOK
<1>1. CASE Quits(p, "after")
  BY <1>0, <1>1, Quitted
<1>2. CASE WorkGate(p)
  BY <1>0, <1>2 DEF WorkGate, Assignments
<1>3. CASE WorkAfter(p)
  BY <1>0, <1>3 DEF WorkAfter, Assignments
<1>4. CASE WorkFinish(p)
  BY <1>0, <1>4, Finished
<1>5. CASE p = "embeddings" /\ EmbedLookup
  BY <1>0, <1>1, <1>5 DEF EmbedLookup, Assignments
<1>6. CASE p = "embeddings" /\ Embed
  BY <1>0, <1>6 DEF Embed, Assignments
<1> QED BY <1>1, <1>2, <1>3, <1>4, <1>5, <1>6, GatedSteps DEF GatedFails, EmbedReport, EmbedFails,
           PublishIndex, Verify

\* Batches keep to the states of their goroutines.
LEMMA PlacesStep == TypeOK /\ Places /\ Ends /\ [Next]_vars => Places'
<1> SUFFICES ASSUME TypeOK, Places, Ends, [Next]_vars PROVE Places'
  OBVIOUS
<1>0. work \in [Phase -> Assignments] /\ Ungated \subseteq Phase /\ Gated \subseteq Phase
      /\ Ungated \cap Gated = {}
  BY PhaseKinds DEF TypeOK
<1>1. ASSUME Flagged PROVE Places'
  BY <1>0, <1>1 DEF Places, Flagged
<1>2. ASSUME NEW p \in Phase, Launched(p), p \in Ungated => loop.seen.count[p] > 0 PROVE Places'
  <2>1. \A q \in Phase \ {p} : work'[q] = work[q]
    BY <1>2, LaunchedWork
  <2>2. p \in Ungated => work'[p].pc = "run" /\ work'[p].planned > 0
    BY <1>2, LaunchedWork
  <2>3. p \in Gated => work'[p].pc = "gate"
    BY <1>2, LaunchedWork
  <2> QED BY <1>0, <2>1, <2>2, <2>3 DEF Places
<1>3. ASSUME NEW p \in Gated, Worker(p) PROVE Places'
  <2>1. \A q \in Phase \ {p} : work'[q] = work[q]
    BY <1>0, <1>3, WorkCourse DEF Course
  <2>2. work'[p].pc # "lost"
    BY <1>0, <1>3, GatedNotLost
  <2> QED BY <1>0, <1>3, <2>1, <2>2 DEF Places
<1>4. ASSUME NEW p \in Ungated, Worker(p) PROVE Places'
  <2>1. p \in Phase /\ \A q \in Phase \ {p} : work'[q] = work[q]
    BY <1>0, <1>4, WorkCourse DEF Course
  <2>2. ASSUME /\ work'[p].pc \in {"off", "run", "held", "after", "lost", "finish"}
               /\ work'[p].pc \in {"run", "held"} => work'[p].planned > 0
               /\ work'[p].pc \notin {"run", "held"} => work'[p].planned = 0 /\ work'[p].found = 0
               /\ work'[p].pc = "lost" => work'[p].ends
        PROVE  Places'
    BY <1>0, <1>4, <2>1, <2>2 DEF Places
  <2>3. CASE WorkClaim(p)
    BY <1>0, <2>1, <2>2, <2>3 DEF WorkClaim, Places, Assignments
  <2>4. CASE WorkJob(p)
    BY <1>0, <2>1, <2>2, <2>4 DEF WorkJob, Places, Assignments
  <2>5. CASE WorkDefers(p)
    BY <1>0, <2>1, <2>2, <2>5 DEF WorkDefers, Places, Assignments
  <2>6. CASE WorkReport(p) \/ WorkFails(p)
    <3>1. PICK pc \in {"after", "lost"} : Quits(p, pc) /\ (pc = "lost" => work[p].ends)
      BY <2>6 DEF WorkReport, WorkFails
    <3> QED BY <2>1, <2>2, <3>1, Quitted
  <2>7. CASE WorkAfter(p)
    BY <1>0, <2>1, <2>2, <2>7 DEF WorkAfter, Places, Assignments
  <2>8. CASE WorkFinish(p)
    BY <2>1, <2>2, <2>8, Finished
  <2> QED BY <1>4, <2>3, <2>4, <2>5, <2>6, <2>7, <2>8, UngatedSteps
<1> QED BY <1>1, <1>2, <1>3, <1>4, NextCases, LoopFlags, OtherFlags, PhaseKinds

\* Only a change of the configuration that leaves nothing to do ends the loop for good.
LEMMA EndsStep == TypeOK /\ Ends /\ [Next]_vars => Ends'
<1> SUFFICES ASSUME TypeOK, Ends, [Next]_vars PROVE Ends'
  OBVIOUS
<1>0. loop \in LoopState /\ NoLoop \in LoopState
  BY RestingType DEF TypeOK
<1>1. CASE LoopStep
  <2>1. conf' = conf /\ admin' = admin
    BY <1>1 DEF LoopStep, LoopWake, LoopLook, LoopGate, LoopRead, LoopReadFails, LoopInstall,
       LoopChoose, LoopUnchanged
  <2>2. Rest(loop).ends = loop.ends /\ Rest(loop).pc = "sleep" /\ ~NoLoop.ends
    BY <1>0 DEF Rest, NoLoop
  <2>3. loop'.ends => loop.ends /\ loop'.pc # "off"
    <3>1. CASE LoopWake
      BY <1>0, <2>2, <3>1 DEF LoopWake, Leave, LoopState
    <3>2. CASE LoopLook
      BY <1>0, <2>2, <3>2 DEF LoopLook, LoopState
    <3>3. CASE LoopGate
      BY <1>0, <2>2, <3>3 DEF LoopGate, LoopState
    <3>4. CASE LoopRead
      BY <1>0, <3>4 DEF LoopRead, LoopState
    <3>5. CASE LoopReadFails
      BY <2>2, <3>5 DEF LoopReadFails
    <3>6. CASE LoopInstall
      BY <1>0, <2>2, <3>6 DEF LoopInstall, LoopState
    <3>7. CASE LoopChoose
      BY <1>0, <2>2, <3>7, ChoiceMade DEF Launched, LoopState
    <3> QED BY <1>1, <3>1, <3>2, <3>3, <3>4, <3>5, <3>6, <3>7 DEF LoopStep
  <2> QED BY <2>1, <2>3 DEF Ends
<1>2. ASSUME NEW p \in Phase, Worker(p) PROVE Ends'
  <2>1. Course(p)
    BY <1>2, WorkCourse
  <2>2. conf' = conf /\ admin' = admin
    BY <1>2 DEF Worker, WorkStep, WorkClaim, WorkJob, WorkDefers, WorkReport, WorkFails, WorkGate,
       GatedFails, WorkAfter, WorkFinish, EmbedLookup, Embed, EmbedReport, EmbedFails,
       PublishIndex, Verify, WorkUnchanged, GatedUnchanged
  <2> QED BY <2>1, <2>2 DEF Ends, Course
<1>3. ASSUME conf' = conf, admin' = admin, loop'.ends = loop.ends, loop'.pc = loop.pc PROVE Ends'
  BY <1>3 DEF Ends
<1>4. CASE Elsewhere
  <2>1. CASE WakeLoop \/ (\E p \in Phase : Arrive(p)) \/ Notify \/ Lapse \/ UNCHANGED vars
    BY <1>3, <2>1 DEF WakeLoop, Arrive, Notify, Lapse, vars
  <2>2. ASSUME Settle \/ \E p \in Phase : RetryDue(p) PROVE Ends'
    BY <1>0, <1>3, <2>2 DEF Settle, RetryDue, Expires, LoopState
  <2>3. ASSUME NEW r \in Request, BeginCount(r) \/ BeginCancel(r) \/ EndRequest(r) PROVE Ends'
    <3>1. CASE BeginCount(r) \/ EndRequest(r)
      BY <1>3, <3>1 DEF BeginCount, EndRequest
    <3>2. CASE BeginCancel(r)
      BY <1>0, <1>3, <3>2 DEF BeginCancel, LoopState
    <3> QED BY <2>3, <3>1, <3>2
  <2>4. ASSUME NEW c \in Config, Configure(c) PROVE Ends'
    BY <2>4 DEF Configure, Ends
  <2>5. CASE ConfigMark
    BY <2>5 DEF ConfigMark, Ends
  <2>6. CASE ConfigSync
    <3>1. ~loop.ends
      BY <2>6 DEF ConfigSync, Ends
    <3>2. CASE Configured
      BY <1>0, <2>6, <3>1, <3>2 DEF ConfigSync, Ends, NoLoop
    <3>3. CASE ~Configured
      BY <1>0, <2>6, <3>3 DEF ConfigSync, Configured, Ends, LoopState
    <3> QED BY <3>2, <3>3
  <2>7. CASE ConfigStop
    BY <2>7 DEF ConfigStop, AllStopped, Ends
  <2> QED BY <1>4, <2>1, <2>2, <2>3, <2>4, <2>5, <2>6, <2>7 DEF Elsewhere
<1> QED BY <1>1, <1>2, <1>4, NextCases

-----------------------------------------------------------------------------
(* Steps that keep the books.                                              *)

\* What a summary said of local jobs, of semantic ones, and what a summary and
\* the embedding run said together, is right after the step, too.
LocalKept ==
    \A c \in Summary :
        /\ CountsMetadata(c, todo, settling, work) => CountsMetadata(c, todo', settling', work')
        /\ CountsThumbnails(c, todo, work) => CountsThumbnails(c, todo', work')
        /\ CountsChecks(c, todo, work) => CountsChecks(c, todo', work')
SemanticKept ==
    \A c \in Summary :
        /\ CountsIndex(c, todo, work) => CountsIndex(c, todo', work')
        /\ conf.semantic => (CountsEmbeddings(c, todo, work) => CountsEmbeddings(c, todo', work'))
Status(c, t, k) ==
    k["embeddings"].pc = "report" /\ ~k["embeddings"].replaced => StatusCounts(c, t, k)
ReportKept ==
    /\ HintsKept(cache, work["embeddings"]) => HintsKept(cache, work'["embeddings"])
    /\ Status(cache, todo, work) => Status(cache, todo', work')

\* A summary of which at most the flags are set.
Same(c, d) ==
    /\ d.known = c.known /\ d.hash = c.hash /\ d.count = c.count /\ d.settling = c.settling
    /\ d.hint = c.hint
    /\ c.dirty => d.dirty
    /\ c.lapsed => d.lapsed
    /\ d.gap = {} => c.gap = {}

\* The goroutine of the loop has read something of the catalog.
Underway == {"thumbs", "semantic", "install"}

\* Somebody may use, or be reading, a summary after the step.
Relied ==
    /\ ~Owing'
    /\ \/ cache'.known /\ Usable(cache')
       \/ loop'.pc \in Underway /\ ~moved' /\ Usable(loop'.seen)

\* Two summaries that differ by their flags say the same of the jobs.
LEMMA SameCounts ==
    ASSUME NEW c, NEW d, Same(c, d), NEW t, NEW s, NEW k
    PROVE  /\ CountsMetadata(c, t, s, k) <=> CountsMetadata(d, t, s, k)
           /\ CountsThumbnails(c, t, k) <=> CountsThumbnails(d, t, k)
           /\ CountsChecks(c, t, k) <=> CountsChecks(d, t, k)
           /\ CountsIndex(c, t, k) <=> CountsIndex(d, t, k)
           /\ CountsEmbeddings(c, t, k) <=> CountsEmbeddings(d, t, k)
           /\ Status(c, t, k) <=> Status(d, t, k)
           /\ HintsKept(c, k["embeddings"]) <=> HintsKept(d, k["embeddings"])
           /\ Usable(d) => Usable(c)
BY DEF Same, CountsMetadata, CountsThumbnails, CountsChecks, CountsIndex, CountsEmbeddings, Status,
       StatusCounts, HintsKept, Usable

\* The books are right after a step that keeps them and leaves the summaries as
\* they are, or marks them.
LEMMA CarriedBooks ==
    ASSUME TypeOK, Books, conf' = conf, Owing => Owing', Same(cache, cache'),
           loop'.pc \in Underway /\ ~moved' =>
               loop'.pc = loop.pc /\ ~moved /\ Same(loop.seen, loop'.seen),
           conf.local /\ Relied => LocalKept, SemanticKept, ReportKept
    PROVE  Books'
<1>0. cache \in Summary /\ loop.seen \in Summary
  BY DEF TypeOK, LoopState
<1>1. CacheInv'
  <2> SUFFICES ASSUME cache'.known, Usable(cache'), ~Owing'
               PROVE  /\ conf.local => /\ CountsMetadata(cache', todo', settling', work')
                                       /\ CountsThumbnails(cache', todo', work')
                                       /\ CountsChecks(cache', todo', work')
                      /\ cache'.gap = {} /\ conf.workers > 0 =>
                           /\ CountsIndex(cache', todo', work')
                           /\ conf.semantic /\ cache'.hash = Hash(conf) =>
                                CountsEmbeddings(cache', todo', work')
    BY DEF CacheInv
  <2>1. cache.known /\ Usable(cache) /\ ~Owing
    BY SameCounts DEF Same
  <2>2. cache'.hash = cache.hash /\ (cache'.gap = {} => cache.gap = {})
    BY DEF Same
  <2>3. conf.local => /\ CountsMetadata(cache, todo', settling', work')
                      /\ CountsThumbnails(cache, todo', work')
                      /\ CountsChecks(cache, todo', work')
    BY <1>0, <2>1 DEF Books, CacheInv, LocalKept, Relied
  <2>4. cache'.gap = {} /\ conf.workers > 0 =>
           /\ CountsIndex(cache, todo', work')
           /\ conf.semantic /\ cache.hash = Hash(conf) => CountsEmbeddings(cache, todo', work')
    BY <1>0, <2>1, <2>2 DEF Books, CacheInv, SemanticKept
  <2> QED BY <2>2, <2>3, <2>4, SameCounts
<1>2. ReadInv'
  <2> SUFFICES ASSUME loop'.pc \in Underway, ~moved', Usable(loop'.seen), ~Owing'
               PROVE  /\ conf.local =>
                           /\ CountsMetadata(loop'.seen, todo', settling', work')
                           /\ loop'.pc \in {"semantic", "install"} =>
                                 /\ CountsThumbnails(loop'.seen, todo', work')
                                 /\ CountsChecks(loop'.seen, todo', work')
                      /\ loop'.pc = "install" /\ loop'.seen.gap = {} /\ conf.workers > 0 =>
                           /\ CountsIndex(loop'.seen, todo', work')
                           /\ conf.semantic /\ loop'.seen.hash = Hash(conf) =>
                                CountsEmbeddings(loop'.seen, todo', work')
    BY DEF ReadInv, Underway
  <2>1. /\ loop'.pc = loop.pc /\ loop.pc \in Reading /\ ~moved /\ Usable(loop.seen) /\ ~Owing
        /\ Same(loop.seen, loop'.seen)
    BY SameCounts DEF Underway, Reading
  <2>2. loop'.seen.hash = loop.seen.hash /\ (loop'.seen.gap = {} => loop.seen.gap = {})
    BY <2>1 DEF Same
  <2>3. conf.local => /\ CountsMetadata(loop.seen, todo', settling', work')
                      /\ loop'.pc \in {"semantic", "install"} =>
                           /\ CountsThumbnails(loop.seen, todo', work')
                           /\ CountsChecks(loop.seen, todo', work')
    BY <1>0, <2>1 DEF Books, ReadInv, LocalKept, Underway, Relied
  <2>4. loop'.pc = "install" /\ loop'.seen.gap = {} /\ conf.workers > 0 =>
           /\ CountsIndex(loop.seen, todo', work')
           /\ conf.semantic /\ loop.seen.hash = Hash(conf) =>
                CountsEmbeddings(loop.seen, todo', work')
    BY <1>0, <2>1, <2>2 DEF Books, ReadInv, SemanticKept
  <2> QED BY <2>1, <2>2, <2>3, <2>4, SameCounts
<1>3. ReportInv'
  <2>1. HintsKept(cache', work'["embeddings"])
    BY SameCounts DEF Books, ReportInv, ReportKept
  <2>2. ASSUME cache'.known, Usable(cache'), cache'.hash.embeds, ~Owing'
        PROVE  Status(cache', todo', work')
    <3>1. cache.known /\ Usable(cache) /\ cache.hash.embeds /\ ~Owing
      BY <2>2, SameCounts DEF Same
    <3>2. Status(cache, todo, work)
      BY <3>1 DEF Books, ReportInv, Status
    <3> QED BY <3>2, SameCounts DEF ReportKept
  <2> QED BY <2>1, <2>2 DEF ReportInv, Status
<1> QED BY <1>1, <1>2, <1>3 DEF Books

\* They are right after a step that tells everybody not to use the summaries,
\* or that somebody who will do so remains.
LEMMA MarkedBooks ==
    ASSUME ~Usable(cache') \/ Owing', (loop'.pc \in Underway => moved') \/ Owing',
           HintsKept(cache', work'["embeddings"])
    PROVE  Books'
BY DEF Books, CacheInv, ReadInv, ReportInv, Underway, Reading

\* A batch that does not run takes no more jobs.
LEMMA RemainingType ==
    ASSUME NEW w \in Assignments
    PROVE  Remaining(w) \in Nat /\ (w.pc \notin {"run", "held"} => Remaining(w) = 0)
<1>1. w.planned \in Nat /\ w.done \in Nat /\ w.done + 1 \in Nat
  BY DEF Assignments
<1>2. Less(w.planned, w.done) \in Nat /\ Less(w.planned, w.done + 1) \in Nat
  BY <1>1, Subtraction
<1> QED BY <1>2 DEF Remaining

\* Local jobs that a step takes from the catalog, it takes from what batches may
\* still do; those that it adds, it adds to what they found.
LEMMA LocalCarry ==
    ASSUME TypeOK, TypeOK',
           todo'["metadata"] + Remaining(work["metadata"])
               <= todo["metadata"] + Remaining(work'["metadata"]),
           todo'["thumbnails"] + Remaining(work["thumbnails"]) + work["metadata"].found
               <= todo["thumbnails"] + Remaining(work'["thumbnails"]) + work'["metadata"].found,
           settling' > 0 => settling > 0,
           todo'["content_verification"] > 0 => todo["content_verification"] > 0,
           Awaited(work["content_verification"]) => Awaited(work'["content_verification"])
    PROVE  LocalKept
<1> SUFFICES ASSUME NEW c \in Summary
             PROVE  /\ CountsMetadata(c, todo, settling, work) =>
                          CountsMetadata(c, todo', settling', work')
                    /\ CountsThumbnails(c, todo, work) => CountsThumbnails(c, todo', work')
                    /\ CountsChecks(c, todo, work) => CountsChecks(c, todo', work')
  BY DEF LocalKept
<1>1. "metadata" \in Phase /\ "thumbnails" \in Phase
  BY DEF Phase, Local
<1>2. /\ todo["metadata"] \in Nat /\ todo["thumbnails"] \in Nat
      /\ todo'["metadata"] \in Nat /\ todo'["thumbnails"] \in Nat
      /\ c.count["metadata"] \in Nat /\ c.count["thumbnails"] \in Nat
      /\ \A p \in Phase : work[p] \in Assignments /\ work'[p] \in Assignments
  BY <1>1 DEF TypeOK, Summary
<1>3. /\ Remaining(work["metadata"]) \in Nat /\ Remaining(work'["metadata"]) \in Nat
      /\ Remaining(work["thumbnails"]) \in Nat /\ Remaining(work'["thumbnails"]) \in Nat
      /\ work["metadata"].found \in Nat /\ work'["metadata"].found \in Nat
  BY <1>1, <1>2, RemainingType DEF Assignments
<1>4. CountsMetadata(c, todo, settling, work) => CountsMetadata(c, todo', settling', work')
  BY <1>2, <1>3 DEF CountsMetadata
<1>5. CountsThumbnails(c, todo, work) => CountsThumbnails(c, todo', work')
  BY <1>2, <1>3 DEF CountsThumbnails
<1>6. CountsChecks(c, todo, work) => CountsChecks(c, todo', work')
  BY DEF CountsChecks
<1> QED BY <1>4, <1>5, <1>6

\* Semantic jobs that a step adds, somebody is under way to report; who was under way
\* still is, or what he would have reported is done.
LEMMA SemanticCarry ==
    ASSUME todo'["embeddings"] > 0 => todo["embeddings"] > 0 \/ work'["thumbnails"].found > 0,
           work["thumbnails"].found > 0 => work'["thumbnails"].found > 0,
           todo'["search_index"] > 0 =>
               todo["search_index"] > 0 \/ work'["embeddings"].pc = "report",
           work["embeddings"].pc = "report" =>
               work'["embeddings"].pc = "report" \/ todo'["search_index"] = 0,
           conf.semantic => (Awaited(work["embeddings"]) =>
               Awaited(work'["embeddings"]) \/ todo'["embeddings"] = 0)
    PROVE  SemanticKept
BY DEF SemanticKept, CountsIndex, CountsEmbeddings

\* A step of others than the embedding run.
LEMMA ReportCarry ==
    ASSUME TypeOK, TypeOK',
           work'["embeddings"].pc \in {"held", "report"} =>
               /\ work["embeddings"].pc = work'["embeddings"].pc
               /\ work["embeddings"].found = work'["embeddings"].found
               /\ work["embeddings"].hint = work'["embeddings"].hint
               /\ work["embeddings"].replaced => work'["embeddings"].replaced,
           todo'["embeddings"] + work["thumbnails"].found
               <= todo["embeddings"] + work'["thumbnails"].found
    PROVE  ReportKept
<1>1. HintsKept(cache, work["embeddings"]) => HintsKept(cache, work'["embeddings"])
  BY DEF HintsKept
<1>2. ASSUME Status(cache, todo, work), work'["embeddings"].pc = "report",
             ~work'["embeddings"].replaced
      PROVE  StatusCounts(cache, todo', work')
  <2>1. StatusCounts(cache, todo, work)
    BY <1>2 DEF Status
  <2>2. "embeddings" \in Phase /\ "thumbnails" \in Phase
    BY DEF Phase, Local, Semantic
  <2>3. /\ todo["embeddings"] \in Nat /\ todo'["embeddings"] \in Nat
        /\ work["thumbnails"].found \in Nat /\ work'["thumbnails"].found \in Nat
        /\ work["embeddings"].found \in Nat /\ work["embeddings"].hint \in Nat
        /\ cache.hint \in Nat
    BY <2>2 DEF TypeOK, Assignments, Summary
  <2>4. Less(cache.hint, work["embeddings"].hint) \in Nat
    BY <2>3, Subtraction
  <2> QED BY <1>2, <2>1, <2>3, <2>4 DEF StatusCounts
<1> QED BY <1>1, <1>2 DEF ReportKept, Status

\* Steps that leave jobs and assignments alone.
LEMMA FlaggedKept ==
    ASSUME TypeOK, TypeOK', Flagged, todo' = todo, settling' = settling
    PROVE  /\ conf.local => LocalKept
           /\ SemanticKept /\ ReportKept
           /\ notice' = notice /\ admin' = admin => (Owing => Owing')
<1>0. /\ \A p \in Phase : work[p] \in Assignments /\ work'[p] \in Assignments
      /\ \A p \in Phase : todo[p] \in Nat
      /\ Ungated \subseteq Phase /\ "embeddings" \in Phase /\ "content_verification" \in Phase
      /\ "metadata" \in Ungated /\ "thumbnails" \in Ungated
  BY PhaseKinds DEF TypeOK
<1>1. \A p \in Phase : Remaining(work'[p]) = Remaining(work[p])
  BY DEF Remaining, Flagged
<1>2. conf.local \/ conf.semantic => \A p \in Phase : Awaited(work[p]) => Awaited(work'[p])
  BY DEF Awaited, Flagged
<1>3. \A p \in Phase : work'[p].pc = work[p].pc /\ work'[p].found = work[p].found
  BY DEF Flagged
<1>4. conf.local => LocalKept
  <2>1. \A p \in Ungated : Remaining(work[p]) \in Nat /\ work[p].found \in Nat
    BY <1>0, RemainingType DEF Assignments
  <2> QED BY <1>0, <1>1, <1>2, <1>3, <2>1, LocalCarry
<1>5. SemanticKept
  BY <1>0, <1>2, <1>3, SemanticCarry
<1>6. ReportKept
  <2>1. /\ work'["embeddings"].hint = work["embeddings"].hint
        /\ work["embeddings"].pc # "off" /\ work["embeddings"].replaced =>
              work'["embeddings"].replaced
    BY <1>0 DEF Flagged
  <2>2. work["thumbnails"].found \in Nat /\ todo["embeddings"] \in Nat
    BY <1>0 DEF Assignments
  <2> QED BY <1>0, <1>3, <2>1, <2>2, ReportCarry
<1>7. notice' = notice /\ admin' = admin => (Owing => Owing')
  BY <1>0 DEF Owing, Owes, Flagged
<1> QED BY <1>4, <1>5, <1>6, <1>7

\* Steps of others than the loop and the assignments.
LEMMA ElsewhereBooks == ASSUME TypeOK, TypeOK', Ends, Books, Elsewhere PROVE Books'
<1>0. /\ Flagged /\ loop \in LoopState /\ cache \in Summary /\ loop.seen \in Summary
      /\ "embeddings" \in Phase /\ "metadata" \in Phase
  BY OtherFlags DEF TypeOK, LoopState, Phase, Local, Semantic
<1>1. HintsKept(cache, work["embeddings"]) /\ (cache'.hint = cache.hint =>
        HintsKept(cache', work'["embeddings"]))
  BY <1>0 DEF Books, ReportInv, HintsKept, Flagged
<1>2. Same(cache, cache) /\ Same(loop.seen, loop.seen)
  BY DEF Same
<1>3. ASSUME todo' = todo, settling' = settling, conf' = conf, Owing => Owing',
             Same(cache, cache'),
             loop'.pc \in Underway /\ ~moved' =>
                 loop'.pc = loop.pc /\ ~moved /\ Same(loop.seen, loop'.seen)
      PROVE  Books'
  BY <1>0, <1>3, FlaggedKept, CarriedBooks
<1>4. ASSUME MarkDirty, loop' = loop PROVE Books'
  <2>1. cache'.dirty /\ cache'.hint = cache.hint /\ moved' = (loop.pc \in Reading)
    BY <1>0, <1>4 DEF MarkDirty, Correct, Dirtied, Summary
  <2> QED BY <1>1, <1>4, <2>1, MarkedBooks DEF Usable, Underway, Reading
<1>5. CASE WakeLoop \/ UNCHANGED vars
  BY <1>0, <1>2, <1>3, <1>5, FlaggedKept DEF WakeLoop, vars
<1>6. ASSUME NEW p \in Phase, Arrive(p) PROVE Books'
  BY <1>1, <1>6, MarkedBooks DEF Arrive, Owing, Owes
<1>7. ASSUME NEW a, NEW b, Expires(a, b), a \in BOOLEAN, b \in BOOLEAN, loop'.pc = loop.pc
      PROVE  Same(cache, cache') /\ Same(loop.seen, loop'.seen) /\ cache'.hint = cache.hint
  <2>1. cache' = [cache EXCEPT !.lapsed = cache.lapsed \/ a]
        /\ loop' = [loop EXCEPT !.seen = [loop.seen EXCEPT !.lapsed = loop.seen.lapsed \/ b]]
    BY <1>0, <1>7 DEF Expires, LoopState
  <2> DEFINE x == cache.lapsed \/ a
             y == loop.seen.lapsed \/ b
  <2>2. x \in BOOLEAN /\ y \in BOOLEAN /\ (cache.lapsed => x) /\ (loop.seen.lapsed => y)
    BY <1>0, <1>7 DEF Summary
  <2>3. cache' = [cache EXCEPT !.lapsed = x]
        /\ loop' = [loop EXCEPT !.seen = [loop.seen EXCEPT !.lapsed = y]]
    BY <2>1
  <2> HIDE DEF x, y
  <2>4. loop'.seen = [loop.seen EXCEPT !.lapsed = y]
    BY <1>0, <2>3 DEF LoopState
  <2> QED BY <1>0, <2>2, <2>3, <2>4 DEF Same, Summary
<1>8. ASSUME NEW p \in Phase, RetryDue(p) PROVE Books'
  <2>1. /\ Expires(p = "embeddings" /\ cache.later, p = "embeddings" /\ loop.seen.later)
        /\ todo' = todo /\ settling' = settling /\ conf' = conf /\ moved' = moved
        /\ notice' = notice /\ admin' = admin
    BY <1>8 DEF RetryDue
  <2>2. loop'.pc = loop.pc
    BY <1>0, <2>1 DEF Expires, LoopState
  <2>3. Same(cache, cache') /\ Same(loop.seen, loop'.seen)
    BY <1>0, <1>7, <2>1, <2>2 DEF Summary
  <2> QED BY <1>0, <1>3, <2>1, <2>2, <2>3, FlaggedKept
<1>9. ASSUME NEW r \in Request, BeginCount(r) \/ BeginCancel(r) \/ EndRequest(r) PROVE Books'
  <2>1. /\ loop'.pc = loop.pc /\ loop'.seen = loop.seen /\ moved' = moved /\ cache' = cache
        /\ todo' = todo /\ settling' = settling /\ conf' = conf
        /\ notice' = notice /\ admin' = admin
    BY <1>0, <1>9 DEF BeginCount, BeginCancel, EndRequest, LoopState
  <2> QED BY <1>0, <1>2, <1>3, <2>1, FlaggedKept
<1>10. ASSUME NEW c \in Config, Configure(c) PROVE Books'
  BY <1>1, <1>10, MarkedBooks DEF Configure, Owing, Owes
<1>11. CASE ConfigMark
  BY <1>4, <1>11 DEF ConfigMark
<1>12. CASE ConfigSync
  <2>1. /\ cache' = cache /\ moved' = moved /\ todo' = todo /\ settling' = settling
        /\ conf' = conf /\ notice' = notice /\ admin = "sync"
    BY <1>12 DEF ConfigSync
  <2>2. loop'.pc \in Underway => loop'.pc = loop.pc /\ loop'.seen = loop.seen
    <3>1. [NoLoop EXCEPT !.pc = "sleep"].pc = "sleep"
      BY DEF NoLoop
    <3>2. [loop EXCEPT !.ends = loop.pc # "off"].pc = loop.pc
          /\ [loop EXCEPT !.ends = loop.pc # "off"].seen = loop.seen
      BY <1>0 DEF LoopState
    <3> QED BY <1>12, <3>1, <3>2 DEF ConfigSync, Underway
  <2>3. Owing => Owing'
    BY <1>0, <2>1, PhaseKinds DEF Owing, Owes, Flagged
  <2> QED BY <1>2, <1>3, <2>1, <2>2, <2>3
<1>13. CASE ConfigStop
  <2>1. Owing => Owing'
    BY <1>0, <1>13 DEF ConfigStop, Owing, Owes
  <2> QED BY <1>2, <1>3, <1>13, <2>1 DEF ConfigStop
<1>14. CASE Notify
  <2>1. CASE notice = "dirty"
    BY <1>4, <1>14, <2>1 DEF Notify
  <2>2. CASE notice = "wake"
    <3>1. /\ cache' = cache /\ moved' = moved /\ loop' = loop /\ work' = work /\ admin' = admin
          /\ todo' = todo /\ settling' = settling /\ conf' = conf
      BY <1>14, <2>2 DEF Notify
    <3>2. Owing => Owing'
      BY <2>2, <3>1 DEF Owing, Owes
    <3> QED BY <1>2, <1>3, <3>1, <3>2
  <2> QED BY <1>14, <2>1, <2>2 DEF Notify
<1>15. CASE Lapse
  <2>1. Same(cache, cache')
    BY <1>0, <1>15 DEF Lapse, Same, Summary
  <2> QED BY <1>0, <1>2, <1>3, <1>15, <2>1, FlaggedKept DEF Lapse
<1>16. CASE Settle
  <2>1. /\ Expires(cache.settling > 0, loop.seen.settling > 0)
        /\ work' = work /\ conf' = conf /\ moved' = moved /\ notice' = notice /\ admin' = admin
        /\ settling > 0 /\ todo' = [todo EXCEPT !["metadata"] = @ + 1]
    BY <1>16 DEF Settle
  <2>2. loop'.pc = loop.pc
    BY <1>0, <2>1 DEF Expires, LoopState
  <2>3. Same(cache, cache') /\ Same(loop.seen, loop'.seen)
    <3> DEFINE a == cache.settling > 0
               b == loop.seen.settling > 0
    <3>1. a \in BOOLEAN /\ b \in BOOLEAN /\ Expires(a, b)
      BY <2>1
    <3> HIDE DEF a, b
    <3> QED BY <1>7, <2>2, <3>1
  <2>4. (cache.settling > 0 => cache'.lapsed) /\ (loop.seen.settling > 0 => loop'.seen.lapsed)
    BY <1>0, <2>1 DEF Expires, LoopState, Summary
  <2>5. Owing' <=> Owing
    BY <2>1 DEF Owing, Owes
  <2>6. SemanticKept /\ ReportKept
    <3>1. todo'["embeddings"] = todo["embeddings"] /\ todo'["search_index"] = todo["search_index"]
      BY <2>1 DEF TypeOK
    <3>2. "thumbnails" \in Phase
      BY DEF Phase, Local
    <3>3. todo["embeddings"] \in Nat /\ work["thumbnails"].found \in Nat
      BY <1>0, <3>2 DEF TypeOK, Assignments
    <3> QED BY <2>1, <3>1, <3>3, SemanticCarry, ReportCarry
  <2>7. ASSUME conf.local, Relied PROVE FALSE
    <3>1. CASE cache'.known /\ Usable(cache')
      BY <2>1, <2>3, <2>4, <2>5, <2>7, <3>1 DEF Relied, Same, Usable, Books, CacheInv,
         CountsMetadata
    <3>2. CASE loop'.pc \in Underway /\ ~moved' /\ Usable(loop'.seen)
      BY <2>1, <2>2, <2>3, <2>4, <2>5, <2>7, <3>2 DEF Relied, Same, Usable, Books, ReadInv,
         CountsMetadata, Underway, Reading
    <3> QED BY <2>7, <3>1, <3>2 DEF Relied
  <2> QED BY <2>1, <2>2, <2>3, <2>5, <2>6, <2>7, CarriedBooks
<1> QED BY <1>5, <1>6, <1>8, <1>9, <1>10, <1>11, <1>12, <1>13, <1>14, <1>15, <1>16 DEF Elsewhere

-----------------------------------------------------------------------------
(* The books through the steps of assignments.                             *)

\* A step of the assignment of p that marks the summary.
LEMMA WorkMarks ==
    ASSUME TypeOK, NEW p \in Phase, Worker(p), NEW c, c.dirty, Correct(c),
           HintsKept(c, work'["embeddings"])
    PROVE  Books'
<1>1. loop'.pc = loop.pc
  BY WorkCourse DEF Course
<1> QED BY <1>1, MarkedBooks DEF Correct, Usable, Underway, Reading

\* A step of a batch, as long as it does not count.
LEMMA BatchSteps ==
    ASSUME TypeOK, TypeOK', Places, Books, NEW p \in Ungated,
           WorkClaim(p) \/ WorkJob(p) \/ WorkDefers(p)
    PROVE  Books'
<1>0. /\ work \in [Phase -> Assignments] /\ todo \in [Phase -> Nat] /\ settling \in Nat
      /\ p \in Phase /\ p \in {"metadata", "thumbnails"}
      /\ "metadata" \in Phase /\ "thumbnails" \in Phase /\ "embeddings" \in Phase
      /\ Batch \in Nat
  BY PhaseKinds, BoundAssumption DEF TypeOK, Ungated
<1>1. /\ conf' = conf /\ cache' = cache /\ moved' = moved /\ loop' = loop
      /\ notice' = notice /\ admin' = admin
      /\ \A q \in Phase \ {p} : work'[q] = work[q]
  BY <1>0 DEF WorkClaim, WorkJob, WorkDefers, WorkUnchanged
<1>2. work'[p].pc \in {"run", "held"} /\ work[p].pc \in {"run", "held"}
      /\ work'[p].ends = work[p].ends
      /\ (work[p].odd => work'[p].odd)
  <2>1. CASE WorkClaim(p)
    BY <1>0, <2>1 DEF WorkClaim, Assignments
  <2>2. CASE WorkJob(p)
    BY <1>0, <2>2 DEF WorkJob, Assignments
  <2>3. CASE WorkDefers(p)
    BY <1>0, <2>3 DEF WorkDefers, Assignments
  <2> QED BY <2>1, <2>2, <2>3
<1>3. Owing => Owing'
  BY <1>0, <1>1, <1>2 DEF Owing, Owes, Ungated
<1>4. Same(cache, cache') /\ Same(loop.seen, loop'.seen)
  BY <1>1 DEF Same
<1>5. /\ work[p].planned \in Nat /\ work[p].done \in Nat /\ work[p].found \in Nat
      /\ work["metadata"].found \in Nat /\ work["thumbnails"].found \in Nat
      /\ \A q \in Phase : Remaining(work[q]) \in Nat /\ todo[q] \in Nat
  BY <1>0, RemainingType DEF Assignments
<1>6. ASSUME LocalKept, SemanticKept, ReportKept PROVE Books'
  BY <1>1, <1>3, <1>4, <1>6, CarriedBooks
<1>7. CASE WorkClaim(p)
  <2>1. /\ todo' = [todo EXCEPT ![p] = @ - 1] /\ todo[p] > 0 /\ settling' = settling
        /\ work'[p] = [work[p] EXCEPT !.pc = "held"] /\ work[p].pc = "run"
    BY <1>0, <1>7 DEF WorkClaim
  <2>2. /\ work'[p].pc = "held" /\ work'[p].planned = work[p].planned
        /\ work'[p].done = work[p].done /\ work'[p].found = work[p].found
    BY <1>0, <2>1 DEF Assignments
  <2>3. Remaining(work[p]) <= Remaining(work'[p]) + 1
    BY <1>5, <2>1, <2>2 DEF Remaining, Less
  <2>4. \A q \in Phase : todo'[q] = IF q = p THEN todo[q] - 1 ELSE todo[q]
    BY <1>0, <2>1
  <2>5. Remaining(work'[p]) \in Nat
    BY <1>0, RemainingType DEF TypeOK
  <2>6. LocalKept
    <3>1. /\ todo'["content_verification"] = todo["content_verification"]
          /\ work'["content_verification"] = work["content_verification"]
          /\ work'["metadata"].found = work["metadata"].found
      BY <1>0, <1>1, <2>2, <2>4 DEF Phase, Local
    <3>2. CASE p = "metadata"
      <4>1. /\ todo'["metadata"] = todo["metadata"] - 1
            /\ todo'["thumbnails"] = todo["thumbnails"]
            /\ work'["thumbnails"] = work["thumbnails"]
        BY <1>0, <1>1, <2>4, <3>2
      <4> QED BY <1>0, <1>5, <2>1, <2>3, <2>5, <3>1, <3>2, <4>1, LocalCarry
    <3>3. CASE p = "thumbnails"
      <4>1. /\ todo'["thumbnails"] = todo["thumbnails"] - 1
            /\ todo'["metadata"] = todo["metadata"]
            /\ work'["metadata"] = work["metadata"]
        BY <1>0, <1>1, <2>4, <3>3
      <4> QED BY <1>0, <1>5, <2>1, <2>3, <2>5, <3>1, <3>3, <4>1, LocalCarry
    <3> QED BY <1>0, <3>2, <3>3
  <2>7. SemanticKept /\ ReportKept
    BY <1>0, <1>1, <1>5, <2>2, <2>4, SemanticCarry, ReportCarry DEF Phase, Semantic
  <2> QED BY <1>6, <2>6, <2>7
<1>8. CASE WorkJob(p)
  <2>1. /\ settling' = settling /\ work[p].pc = "held"
        /\ work'[p].pc = "run" /\ work'[p].planned = work[p].planned
        /\ work'[p].done = work[p].done + 1
    BY <1>0, <1>8 DEF WorkJob, Assignments
  <2>2. Remaining(work'[p]) = Remaining(work[p])
    BY <2>1 DEF Remaining
  <2>3. PICK n \in {0, 1} : /\ work'[p].found = work[p].found + n
                            /\ \A q \in Phase : todo'[q] = todo[q] + (IF q = Produces(p) THEN n ELSE 0)
    <3>1. CASE todo' = todo /\ work' = [work EXCEPT ![p].pc = "run", ![p].done = @ + 1]
      BY <1>0, <1>5, <3>1 DEF Assignments
    <3>2. CASE todo' = [todo EXCEPT ![Produces(p)] = @ + 1]
               /\ work' = [work EXCEPT ![p].pc = "run", ![p].done = @ + 1, ![p].found = @ + 1]
      BY <1>0, <1>5, <3>2 DEF Assignments, Produces
    <3> QED BY <1>8, <3>1, <3>2 DEF WorkJob
  <2>4. LocalKept
    BY <1>0, <1>1, <1>5, <2>1, <2>2, <2>3, LocalCarry DEF Phase, Local, Produces
  <2>5. SemanticKept /\ ReportKept
    BY <1>0, <1>1, <1>5, <2>1, <2>3, SemanticCarry, ReportCarry DEF Phase, Semantic, Produces
  <2> QED BY <1>6, <2>4, <2>5
<1>9. CASE WorkDefers(p)
  <2>1. work'[p].odd
    BY <1>0, <1>9 DEF WorkDefers, Assignments
  <2>2. Owing'
    BY <1>2, <2>1 DEF Owing, Owes
  <2>3. HintsKept(cache', work'["embeddings"])
    BY <1>0, <1>1 DEF Books, ReportInv
  <2> QED BY <2>2, <2>3, MarkedBooks
<1> QED BY <1>7, <1>8, <1>9

\* A configuration that computes vectors says so in its hash.
LEMMA HashEmbeds == Hash(conf).embeds <=> conf.semantic /\ conf.workers > 0
BY Zenon DEF Hash

\* What the report of a batch makes of the summary.
LEMMA ReportedFacts ==
    ASSUME cache \in Summary, NEW p \in Ungated, NEW w \in Assignments, w.planned > 0,
           NEW c, c = Reported(p, w)
    PROVE  /\ c.known = cache.known /\ c.hash = cache.hash /\ c.gap = cache.gap
           /\ c.settling = cache.settling /\ c.lapsed = cache.lapsed
           /\ c.dirty <=> cache.dirty \/ w.odd \/ w.done = 0
           /\ c.count[p] = cache.count[p] + Less(w.planned, w.done)
           /\ p = "metadata" => c.count["thumbnails"] = cache.count["thumbnails"] + w.found
           /\ p = "thumbnails" => c.count["metadata"] = cache.count["metadata"]
           /\ \A q \in Gated : c.count[q] = cache.count[q]
           /\ c.hint = IF p = "thumbnails" /\ cache.hash.embeds THEN cache.hint + w.found
                       ELSE cache.hint
<1>0. /\ cache.count \in [Phase -> Nat] /\ p \in Phase /\ p \in {"metadata", "thumbnails"}
      /\ "metadata" \in Phase /\ "thumbnails" \in Phase
      /\ Gated \subseteq Phase /\ "metadata" \notin Gated /\ "thumbnails" \notin Gated
  BY PhaseKinds DEF Summary, Ungated
<1> DEFINE n == IF w.planned > 0 THEN cache.count[p] + Less(w.planned, w.done)
                ELSE Less(cache.count[p], w.done)
           kept == [cache EXCEPT !.count[p] = n]
           more == IF p = "metadata" THEN [kept EXCEPT !.count["thumbnails"] = @ + w.found]
                   ELSE IF cache.hash.embeds THEN [kept EXCEPT !.hint = @ + w.found] ELSE kept
           odd == cache.dirty \/ w.odd \/ (w.done = 0 /\ w.planned > 0)
<1>1. c = [more EXCEPT !.dirty = @ \/ w.odd \/ (w.done = 0 /\ w.planned > 0)]
  BY DEF Reported
<1>3. /\ kept.known = cache.known /\ kept.hash = cache.hash /\ kept.gap = cache.gap
      /\ kept.settling = cache.settling /\ kept.lapsed = cache.lapsed /\ kept.dirty = cache.dirty
      /\ kept.hint = cache.hint /\ kept.count = [cache.count EXCEPT ![p] = n]
      /\ DOMAIN kept = DOMAIN cache
  BY DEF Summary
<1>4. DOMAIN cache = {"known", "dirty", "lapsed", "hash", "count", "settling", "ready", "hint",
                      "later", "gap"}
  BY DEF Summary
<1> HIDE DEF kept
<1>5. /\ more.known = cache.known /\ more.hash = cache.hash /\ more.gap = cache.gap
      /\ more.settling = cache.settling /\ more.lapsed = cache.lapsed /\ more.dirty = cache.dirty
      /\ more.hint = IF p = "thumbnails" /\ cache.hash.embeds THEN cache.hint + w.found
                     ELSE cache.hint
      /\ more.count = IF p = "metadata"
                      THEN [kept.count EXCEPT !["thumbnails"] = @ + w.found] ELSE kept.count
      /\ DOMAIN more = DOMAIN cache
  BY <1>0, <1>3, <1>4
<1> HIDE DEF more
<1>6. c = [more EXCEPT !.dirty = odd]
  BY <1>1, <1>5
<1>7. odd \in BOOLEAN /\ (odd <=> cache.dirty \/ w.odd \/ w.done = 0)
  BY DEF Summary, Assignments
<1> HIDE DEF odd
<1>8. /\ c.known = cache.known /\ c.hash = cache.hash /\ c.gap = cache.gap
      /\ c.settling = cache.settling /\ c.lapsed = cache.lapsed /\ c.dirty = odd
      /\ c.hint = more.hint /\ c.count = more.count
  BY <1>4, <1>5, <1>6
<1> HIDE DEF n
<1>9. kept.count[p] = n /\ \A q \in Phase \ {p} : kept.count[q] = cache.count[q]
  BY <1>0, <1>3
<1>10. kept.count \in [Phase -> UNION {Nat, {n}}]
  BY <1>0, <1>3
<1>11. /\ more.count[p] = n
       /\ p = "metadata" => more.count["thumbnails"] = cache.count["thumbnails"] + w.found
       /\ p = "thumbnails" => more.count["metadata"] = cache.count["metadata"]
       /\ \A q \in Gated : more.count[q] = cache.count[q]
  BY <1>0, <1>5, <1>9, <1>10
<1> QED BY <1>5, <1>7, <1>8, <1>11 DEF n

\* After a correction of the summary nothing is asked of the reading.
LEMMA MovedRead ==
    ASSUME TypeOK, NEW p \in Phase, Worker(p), NEW c, Correct(c)
    PROVE  ReadInv'
<1>1. loop'.pc = loop.pc
  BY WorkCourse DEF Course
<1> QED BY <1>1 DEF Correct, ReadInv

\* The report of a batch.
LEMMA ReportBooks ==
    ASSUME TypeOK, TypeOK', Places, Books, NEW p \in Ungated, Worker(p), WorkReport(p)
    PROVE  Books'
<1>0. /\ cache \in Summary /\ work \in [Phase -> Assignments] /\ todo \in [Phase -> Nat]
      /\ p \in Phase /\ p \in {"metadata", "thumbnails"} /\ settling \in Nat
      /\ "metadata" \in Phase /\ "thumbnails" \in Phase /\ "embeddings" \in Phase
  BY PhaseKinds DEF TypeOK, Ungated
<1> DEFINE w == work[p]
           c == Reported(p, w)
<1>1. /\ Correct(c) /\ cache' = c /\ w.pc = "run" /\ Quits(p, "after")
      /\ conf' = conf /\ loop' = loop /\ todo' = todo /\ settling' = settling
      /\ notice' = notice /\ admin' = admin
  BY DEF WorkReport, WorkUnchanged, Correct
<1>2. w \in Assignments /\ w.planned > 0 /\ w.planned \in Nat /\ w.done \in Nat /\ w.found \in Nat
      /\ Less(w.planned, w.done) \in Nat
  BY <1>0, <1>1, Subtraction DEF Places, Assignments
<1>3. /\ c.known = cache.known /\ c.hash = cache.hash /\ c.gap = cache.gap
      /\ c.settling = cache.settling /\ c.lapsed = cache.lapsed
      /\ c.dirty <=> cache.dirty \/ w.odd \/ w.done = 0
      /\ c.count[p] = cache.count[p] + Less(w.planned, w.done)
      /\ p = "metadata" => c.count["thumbnails"] = cache.count["thumbnails"] + w.found
      /\ p = "thumbnails" => c.count["metadata"] = cache.count["metadata"]
      /\ \A q \in Gated : c.count[q] = cache.count[q]
      /\ c.hint = IF p = "thumbnails" /\ cache.hash.embeds THEN cache.hint + w.found
                  ELSE cache.hint
  BY <1>0, <1>2, ReportedFacts
<1> HIDE DEF c
<1>4. /\ work'[p].pc = "after" /\ work'[p].found = 0 /\ ~work'[p].odd
      /\ work'[p].ends = w.ends /\ \A q \in Phase \ {p} : work'[q] = work[q]
  BY <1>0, <1>1, Quitted
<1>5. work'["embeddings"] = work["embeddings"] /\ cache.hint \in Nat /\ c.hint \in Nat
  BY <1>0, <1>2, <1>3, <1>4 DEF Summary
<1>6. HintsKept(c, work'["embeddings"])
  <2>1. HintsKept(cache, work["embeddings"]) /\ work["embeddings"].hint \in Nat
    BY <1>0 DEF Books, ReportInv, Assignments
  <2> QED BY <1>2, <1>3, <1>5, <2>1 DEF HintsKept
<1>7. CASE c.dirty
  BY <1>0, <1>1, <1>6, <1>7, WorkMarks
<1>8. CASE w.ends
  <2>1. Owing'
    BY <1>4, <1>8 DEF Owing, Owes
  <2> QED BY <1>1, <1>6, <2>1, MarkedBooks
<1>9. CASE ~c.dirty /\ ~w.ends
  <2>1. Remaining(w) = Less(w.planned, w.done) /\ Remaining(work'[p]) = 0
    BY <1>1, <1>4 DEF Remaining
  <2>2. Owing => Owing'
    BY <1>0, <1>1, <1>3, <1>4, <1>9 DEF Owing, Owes, Ungated
  <2>3. Usable(c) => Usable(cache)
    BY <1>3 DEF Usable
  <2>4. /\ \A q \in Phase : todo[q] \in Nat /\ cache.count[q] \in Nat
        /\ \A q \in Phase : Remaining(work[q]) \in Nat /\ work[q].found \in Nat
                            /\ work[q].hint \in Nat
    BY <1>0, RemainingType DEF Summary, Assignments
  <2>5. CacheInv'
    <3> SUFFICES ASSUME c.known, Usable(c), ~Owing'
                 PROVE  /\ conf.local => /\ CountsMetadata(c, todo, settling, work')
                                         /\ CountsThumbnails(c, todo, work')
                                         /\ CountsChecks(c, todo, work')
                        /\ c.gap = {} /\ conf.workers > 0 =>
                             /\ CountsIndex(c, todo, work')
                             /\ conf.semantic /\ c.hash = Hash(conf) =>
                                  CountsEmbeddings(c, todo, work')
      BY <1>1 DEF CacheInv
    <3>1. cache.known /\ Usable(cache) /\ ~Owing
      BY <1>3, <2>2, <2>3
    <3>2. ASSUME conf.local
          PROVE  CountsMetadata(c, todo, settling, work') /\ CountsThumbnails(c, todo, work')
      <4>1. CountsMetadata(cache, todo, settling, work) /\ CountsThumbnails(cache, todo, work)
        BY <3>1, <3>2 DEF Books, CacheInv
      <4>2. CASE p = "metadata"
        <5>1. work'["thumbnails"] = work["thumbnails"]
          BY <1>0, <1>4, <4>2
        <5> QED BY <1>0, <1>2, <1>3, <1>4, <2>1, <2>4, <4>1, <4>2,
                   <5>1 DEF CountsMetadata, CountsThumbnails
      <4>3. CASE p = "thumbnails"
        <5>1. work'["metadata"] = work["metadata"]
          BY <1>0, <1>4, <4>3
        <5> QED BY <1>0, <1>2, <1>3, <1>4, <2>1, <2>4, <4>1, <4>3,
                   <5>1 DEF CountsMetadata, CountsThumbnails
      <4> QED BY <1>0, <4>2, <4>3
    <3>3. conf.local => CountsChecks(c, todo, work')
      <4>1. work'["content_verification"] = work["content_verification"]
            /\ c.count["content_verification"] = cache.count["content_verification"]
        BY <1>0, <1>3, <1>4, PhaseKinds DEF Phase, Local
      <4> QED BY <3>1, <4>1 DEF Books, CacheInv, CountsChecks
    <3>4. c.gap = {} /\ conf.workers > 0 => CountsIndex(c, todo, work')
      <4>1. c.count["search_index"] = cache.count["search_index"]
        BY <1>3, PhaseKinds
      <4> QED BY <1>3, <1>5, <3>1, <4>1 DEF Books, CacheInv, CountsIndex
    <3>5. ASSUME c.gap = {}, conf.workers > 0, conf.semantic, c.hash = Hash(conf)
          PROVE  CountsEmbeddings(c, todo, work')
      <4>1. cache.hash.embeds /\ CountsEmbeddings(cache, todo, work)
        BY <1>3, <3>1, <3>5, HashEmbeds DEF Books, CacheInv
      <4>2. c.count["embeddings"] = cache.count["embeddings"]
        BY <1>3, PhaseKinds
      <4>3. p = "metadata" => work'["thumbnails"] = work["thumbnails"]
        BY <1>0, <1>4
      <4> QED BY <1>0, <1>2, <1>3, <1>5, <2>4, <4>1, <4>2, <4>3 DEF CountsEmbeddings
    <3> QED BY <3>2, <3>3, <3>4, <3>5
  <2>6. ReportInv'
    <3> SUFFICES ASSUME work["embeddings"].pc = "report", ~work["embeddings"].replaced,
                        c.known, Usable(c), c.hash.embeds, ~Owing'
                 PROVE  StatusCounts(c, todo, work')
      BY <1>1, <1>5, <1>6 DEF ReportInv
    <3>1. StatusCounts(cache, todo, work) /\ cache.hash.embeds
      BY <1>3, <2>2, <2>3 DEF Books, ReportInv
    <3>2. work["embeddings"].hint <= cache.hint
      BY DEF Books, ReportInv, HintsKept
    <3>3. p = "metadata" => work'["thumbnails"] = work["thumbnails"]
      BY <1>0, <1>4
    <3> QED BY <1>0, <1>2, <1>3, <1>4, <1>5, <2>4, <3>1, <3>2, <3>3 DEF StatusCounts, Less
  <2>7. ReadInv'
    BY <1>0, <1>1, MovedRead
  <2> QED BY <2>5, <2>6, <2>7 DEF Books
<1> QED BY <1>7, <1>8, <1>9

\* A failed batch marks the summary; what it releases leaves the hints alone.
LEMMA FailedBooks ==
    ASSUME TypeOK, TypeOK', Places, Books, NEW p \in Ungated, Worker(p), WorkFails(p)
    PROVE  Books'
<1>0. /\ cache \in Summary /\ work \in [Phase -> Assignments] /\ p \in Phase
      /\ "embeddings" \in Phase /\ "embeddings" # p
  BY PhaseKinds DEF TypeOK
<1> DEFINE c == Released(p, work[p])
<1>1. PICK pc \in {"after", "lost"} : Quits(p, pc)
  BY DEF WorkFails
<1>2. Correct(c) /\ work'["embeddings"] = work["embeddings"]
  BY <1>0, <1>1, Quitted DEF WorkFails
<1>3. work[p] \in Assignments /\ work[p].planned > 0 /\ work[p].found \in Nat
      /\ cache.hint \in Nat /\ work["embeddings"].hint \in Nat
  BY <1>0 DEF WorkFails, Places, Assignments, Summary
<1>4. c.dirty /\ c.hint >= cache.hint /\ c.hint \in Nat
  <2>1. CASE work[p].done > 0
    <3>1. c = Dirtied(Reported(p, work[p]))
      BY <2>1 DEF Released
    <3>2. Reported(p, work[p]) \in Summary
      BY <1>0, <1>3, ReportedType
    <3>3. c.dirty /\ c.hint = Reported(p, work[p]).hint
      BY <3>1, <3>2 DEF Dirtied, Summary
    <3>4. Reported(p, work[p]).hint \in {cache.hint, cache.hint + work[p].found}
      BY <1>0, <1>3, ReportedFacts
    <3> QED BY <1>3, <3>3, <3>4
  <2>2. CASE ~(work[p].done > 0)
    <3>1. c = Dirtied([cache EXCEPT !.count[p] = @ + work[p].planned])
      BY <2>2 DEF Released
    <3>2. c.dirty /\ c.hint = cache.hint
      BY <1>0, <3>1 DEF Dirtied, Summary
    <3> QED BY <1>3, <3>2
  <2> QED BY <2>1, <2>2
<1>5. HintsKept(c, work'["embeddings"])
  BY <1>2, <1>3, <1>4 DEF Books, ReportInv, HintsKept
<1> HIDE DEF c
<1> QED BY <1>0, <1>2, <1>4, <1>5, WorkMarks

\* Steps of an assignment that leaves the jobs alone, and of which neither the
\* batches nor the embedding run count on anything.
LEMMA LeavingKept ==
    ASSUME TypeOK, TypeOK', NEW p \in Phase,
           todo' = todo, settling' = settling, notice' = notice, admin' = admin,
           \A q \in Phase \ {p} : work'[q] = work[q],
           p \in Ungated => /\ work[p].pc \notin {"run", "held"} /\ work[p].found = 0
                            /\ work[p].pc \in {"after", "lost"} => ~work[p].ends,
           p = "embeddings" => /\ work[p].pc # "report"
                               /\ work'[p].pc \notin {"held", "report"},
           p \in Gated => (Awaited(work[p]) => Awaited(work'[p]))
    PROVE  LocalKept /\ SemanticKept /\ ReportKept /\ (Owing => Owing')
<1>0. /\ \A q \in Phase : work[q] \in Assignments /\ work'[q] \in Assignments /\ todo[q] \in Nat
      /\ "metadata" \in Phase /\ "thumbnails" \in Phase /\ "embeddings" \in Phase
      /\ "content_verification" \in Phase
      /\ Ungated = {"metadata", "thumbnails"}
  BY PhaseKinds DEF TypeOK, Ungated
<1>1. /\ \A q \in Phase : /\ Remaining(work[q]) \in Nat /\ Remaining(work'[q]) \in Nat
                          /\ work[q].found \in Nat /\ work'[q].found \in Nat
      /\ p \in Ungated => Remaining(work[p]) = 0
  BY <1>0, RemainingType DEF Assignments
<1>2. \A q \in Ungated : Remaining(work[q]) <= Remaining(work'[q])
                         /\ work[q].found <= work'[q].found
  BY <1>0, <1>1
<1>3. \A q \in Gated : Awaited(work[q]) => Awaited(work'[q])
  BY PhaseKinds
<1>4. LocalKept
  BY <1>0, <1>1, <1>2, <1>3, LocalCarry, PhaseKinds
<1>5. /\ work["thumbnails"].found > 0 => work'["thumbnails"].found > 0
      /\ work["embeddings"].pc = "report" => work'["embeddings"].pc = "report"
  BY <1>0, <1>1, <1>2
<1>6. SemanticKept
  BY <1>0, <1>3, <1>5, SemanticCarry, PhaseKinds
<1>7. ReportKept
  <2>1. work'["embeddings"].pc \in {"held", "report"} => work'["embeddings"] = work["embeddings"]
    BY <1>0
  <2>2. todo'["embeddings"] + work["thumbnails"].found
          <= todo["embeddings"] + work'["thumbnails"].found
    BY <1>0, <1>1, <1>2
  <2> QED BY <2>1, <2>2, ReportCarry
<1>8. Owing => Owing'
  BY <1>0 DEF Owing, Owes
<1> QED BY <1>4, <1>6, <1>7, <1>8

\* Such a step keeps the books, unless it marks the summary.
LEMMA LeavingBooks ==
    ASSUME TypeOK, TypeOK', Books, NEW p \in Phase,
           todo' = todo, settling' = settling, notice' = notice, admin' = admin, conf' = conf,
           cache' = cache, moved' = moved, loop' = loop,
           \A q \in Phase \ {p} : work'[q] = work[q],
           p \in Ungated => /\ work[p].pc \notin {"run", "held"} /\ work[p].found = 0
                            /\ work[p].pc \in {"after", "lost"} => ~work[p].ends,
           p = "embeddings" => /\ work[p].pc # "report"
                               /\ work'[p].pc \notin {"held", "report"},
           p \in Gated => (Awaited(work[p]) => Awaited(work'[p]))
    PROVE  Books'
<1>1. LocalKept /\ SemanticKept /\ ReportKept /\ (Owing => Owing')
  BY LeavingKept
<1>2. Same(cache, cache') /\ Same(loop.seen, loop'.seen)
  BY DEF Same
<1> QED BY <1>1, <1>2, CarriedBooks

\* After an assignment, and its end.
LEMMA AfterBooks ==
    ASSUME TypeOK, TypeOK', Places, Books, NEW p \in Phase, Worker(p),
           WorkAfter(p) \/ WorkFinish(p)
    PROVE  Books'
<1>0. /\ cache \in Summary /\ work \in [Phase -> Assignments] /\ "embeddings" \in Phase
  BY PhaseKinds DEF TypeOK
<1>1. CASE WorkAfter(p)
  <2>1. /\ work[p].pc \in {"after", "lost"} /\ work' = [work EXCEPT ![p].pc = "finish"]
        /\ settling' = settling /\ conf' = conf /\ loop' = loop
        /\ notice' = notice /\ admin' = admin
    BY <1>1 DEF WorkAfter, WorkUnchanged
  <2>2. /\ work'[p].pc = "finish" /\ work'[p].ends = work[p].ends
        /\ \A q \in Phase \ {p} : work'[q] = work[q]
    BY <1>0, <2>1 DEF Assignments
  <2>3. CASE MarkDirty
    <3>1. Dirtied(cache).dirty /\ Dirtied(cache).hint = cache.hint
      BY <1>0 DEF Dirtied, Summary
    <3>2. HintsKept(Dirtied(cache), work'["embeddings"])
      BY <1>0, <2>2, <3>1 DEF Books, ReportInv, HintsKept
    <3> QED BY <2>3, <3>1, <3>2, WorkMarks DEF MarkDirty
  <2>4. CASE ~MarkDirty
    <3>1. /\ cache' = cache /\ moved' = moved
          /\ ~(IF p \in Gated THEN work[p].cut /\ ~work[p].ends ELSE work[p].ends)
      BY <1>1, <2>4 DEF WorkAfter
    <3>2. p \in Ungated => /\ ~work[p].ends /\ work[p].pc # "lost" /\ work[p].found = 0
      BY <2>1, <3>1, PhaseKinds DEF Places
    <3>3. CASE work[p].pc = "after"
      <4>1. todo' = todo
        BY <1>1, <3>3 DEF WorkAfter
      <4>2. ~Awaited(work[p]) \/ p \in Ungated
        BY <3>1, <3>3, PhaseKinds DEF Awaited
      <4>3. CASE p \in Ungated
        BY <1>0, <2>1, <2>2, <3>1, <3>2, <3>3, <4>1, <4>3, LeavingBooks, PhaseKinds
      <4>4. CASE p \notin Ungated
        BY <2>1, <2>2, <3>1, <3>3, <4>1, <4>2, <4>4, LeavingBooks
      <4> QED BY <4>3, <4>4
    <3>4. CASE work[p].pc = "lost"
      BY <3>2, <3>4, PhaseKinds DEF Places
    <3> QED BY <2>1, <3>3, <3>4
  <2> QED BY <2>3, <2>4
<1>2. CASE WorkFinish(p)
  <2>1. /\ work[p].pc = "finish" /\ todo' = todo /\ cache' = cache /\ moved' = moved
        /\ settling' = settling /\ conf' = conf /\ loop' = loop
        /\ notice' = notice /\ admin' = admin
    BY <1>2 DEF WorkFinish, WorkUnchanged
  <2>2. work'[p].pc = "off" /\ \A q \in Phase \ {p} : work'[q] = work[q]
    BY <1>2, Finished
  <2>3. ~Awaited(work[p])
    BY <2>1 DEF Awaited
  <2>4. p \in Ungated => work[p].found = 0
    BY <2>1 DEF Places
  <2> QED BY <2>1, <2>2, <2>3, <2>4, LeavingBooks
<1> QED BY <1>1, <1>2

\* A mark of an assignment that leaves the embedding run alone, or ends it.
LEMMA DirtyBooks ==
    ASSUME TypeOK, Books, NEW p \in Phase, Worker(p), MarkDirty,
           \/ work'["embeddings"] = work["embeddings"]
           \/ work'["embeddings"].pc \notin {"held", "report"}
    PROVE  Books'
<1>0. cache \in Summary
  BY DEF TypeOK
<1>1. Dirtied(cache).dirty /\ Dirtied(cache).hint = cache.hint
  BY <1>0 DEF Dirtied, Summary
<1>2. HintsKept(Dirtied(cache), work'["embeddings"])
  BY <1>1 DEF Books, ReportInv, HintsKept
<1> QED BY <1>1, <1>2, WorkMarks DEF MarkDirty

\* The gate, publications and verifications.
LEMMA GatedBooks ==
    ASSUME TypeOK, TypeOK', Books, NEW p \in Gated, Worker(p),
           \/ WorkGate(p) \/ GatedFails(p)
           \/ p = "search_index" /\ PublishIndex
           \/ p = "content_verification" /\ Verify
    PROVE  Books'
<1>0. /\ cache \in Summary /\ work \in [Phase -> Assignments] /\ p \in Phase /\ p \notin Ungated
      /\ "embeddings" \in Phase
  BY PhaseKinds DEF TypeOK
<1>1. CASE WorkGate(p)
  <2>1. /\ UNCHANGED <<conf, admin, loop, notice, todo, settling, cache, moved>>
        /\ \A q \in Phase \ {p} : work'[q] = work[q]
        /\ work[p].pc \in {"gate", "admit"} /\ work'[p].ends = work[p].ends
        /\ work'[p].pc \in {"gate", "admit", "run"} \/ (work[p].ends /\ work'[p].pc = "finish")
    BY <1>0, <1>1 DEF WorkGate, WorkUnchanged, Assignments
  <2>2. Awaited(work[p]) => Awaited(work'[p])
    BY <2>1 DEF Awaited
  <2>3. work[p].pc # "report" /\ work'[p].pc \notin {"held", "report"}
    BY <2>1
  <2> QED BY <1>0, <2>1, <2>2, <2>3, LeavingBooks
<1>2. CASE GatedFails(p)
  <2>1. /\ Quits(p, "after") /\ UNCHANGED <<conf, admin, loop, notice, todo, settling>>
        /\ work[p].pc = "run" /\ p # "embeddings"
    BY <1>2 DEF GatedFails, GatedUnchanged
  <2>2. /\ \A q \in Phase \ {p} : work'[q] = work[q]
        /\ work'[p].pc = "after" /\ work'[p].ends = work[p].ends /\ work'[p].cut = work[p].cut
    BY <1>0, <2>1, Quitted
  <2>3. CASE MarkDirty
    BY <1>0, <2>1, <2>2, <2>3, DirtyBooks
  <2>4. CASE Stopped(p) /\ UNCHANGED <<cache, moved>>
    <3>1. Awaited(work[p]) => Awaited(work'[p])
      BY <2>1, <2>2, <2>4 DEF Awaited, Stopped
    <3> QED BY <1>0, <2>1, <2>2, <2>4, <3>1, LeavingBooks
  <2> QED BY <1>2, <2>3, <2>4 DEF GatedFails, Verified
<1>3. CASE p = "search_index" /\ PublishIndex
  <2>1. /\ Quits(p, "after") /\ UNCHANGED <<conf, admin, loop, notice, settling>>
        /\ todo' = [todo EXCEPT !["search_index"] = 0]
    BY <1>3 DEF PublishIndex, WorkUnchanged
  <2>2. \A q \in Phase \ {p} : work'[q] = work[q]
    BY <1>0, <2>1, Quitted
  <2>3. CASE MarkDirty
    BY <1>0, <1>3, <2>2, <2>3, DirtyBooks
  <2>4. CASE todo["search_index"] = 0 /\ UNCHANGED <<cache, moved>>
    <3>1. todo' = todo
      BY <2>1, <2>4 DEF TypeOK
    <3>2. \A q \in {"metadata", "thumbnails", "embeddings", "content_verification"} :
            work'[q] = work[q]
      BY <1>3, <2>2 DEF Phase, Local, Semantic
    <3>3. \A q \in {"metadata", "thumbnails", "embeddings"} :
            todo[q] \in Nat /\ work[q].found \in Nat /\ Remaining(work[q]) \in Nat
      BY <1>0, RemainingType DEF TypeOK, Assignments, Phase, Local, Semantic
    <3>4. LocalKept /\ SemanticKept /\ ReportKept
      BY <2>1, <3>1, <3>2, <3>3, LocalCarry, SemanticCarry, ReportCarry
    <3>5. Owing => Owing'
      BY <2>1, <3>2 DEF Owing, Owes, Ungated
    <3>6. Same(cache, cache') /\ Same(loop.seen, loop'.seen)
      BY <2>1, <2>4 DEF Same
    <3> QED BY <2>1, <2>4, <3>4, <3>5, <3>6, CarriedBooks
  <2> QED BY <1>3, <2>3, <2>4 DEF PublishIndex, TypeOK
<1>4. CASE p = "content_verification" /\ Verify
  <2>1. Quits(p, "after") /\ MarkDirty
    BY <1>4 DEF Verify, Verified
  <2>2. \A q \in Phase \ {p} : work'[q] = work[q]
    BY <1>0, <2>1, Quitted
  <2> QED BY <1>0, <1>4, <2>1, <2>2, DirtyBooks
<1> QED BY <1>1, <1>2, <1>3, <1>4

\* What is the same in every step of the embedding run.
LEMMA EmbeddingSteps ==
    ASSUME TypeOK, Worker("embeddings"), EmbedLookup \/ Embed \/ EmbedReport \/ EmbedFails
    PROVE  /\ conf' = conf /\ admin' = admin /\ notice' = notice /\ settling' = settling
           /\ \A q \in Phase \ {"embeddings"} : work'[q] = work[q]
           /\ \A q \in Local : todo'[q] = todo[q]
           /\ Owing => Owing'
           /\ todo["embeddings"] \in Nat /\ work["thumbnails"].found \in Nat
<1>0. /\ todo \in [Phase -> Nat] /\ work \in [Phase -> Assignments] /\ "embeddings" \in Phase
      /\ "thumbnails" \in Phase /\ Ungated \subseteq Phase \ {"embeddings"}
  BY PhaseKinds DEF TypeOK
<1>1. /\ conf' = conf /\ admin' = admin /\ notice' = notice /\ settling' = settling
      /\ \A q \in Local : todo'[q] = todo[q]
  <2>1. CASE EmbedLookup
    BY <2>1 DEF EmbedLookup, WorkUnchanged
  <2>2. CASE Embed
    BY <1>0, <2>2 DEF Embed, WorkUnchanged, Local, Phase
  <2>3. CASE EmbedReport
    BY <2>3 DEF EmbedReport, WorkUnchanged
  <2>4. CASE EmbedFails
    BY <1>0, <2>4 DEF EmbedFails, Local, Phase
  <2> QED BY <2>1, <2>2, <2>3, <2>4
<1>2. \A q \in Phase \ {"embeddings"} : work'[q] = work[q]
  BY <1>0, WorkCourse DEF Course
<1>3. Owing => Owing'
  BY <1>0, <1>1, <1>2 DEF Owing, Owes
<1> QED BY <1>0, <1>1, <1>2, <1>3 DEF Assignments

\* They keep the books of local jobs.
LEMMA EmbeddingLocal ==
    ASSUME TypeOK, TypeOK', settling' = settling,
           \A q \in Phase \ {"embeddings"} : work'[q] = work[q],
           \A q \in Local : todo'[q] = todo[q]
    PROVE  LocalKept
<1>1. \A q \in Local : /\ todo[q] \in Nat /\ Remaining(work[q]) \in Nat /\ work[q].found \in Nat
                       /\ work'[q] = work[q]
  BY RemainingType DEF TypeOK, Assignments, Phase, Local, Semantic
<1> QED BY <1>1, LocalCarry DEF Local

\* The lookup: a run that finds no vectors to compute has nothing to report.
LEMMA LookupBooks ==
    ASSUME TypeOK, TypeOK', Books, Worker("embeddings"), EmbedLookup
    PROVE  Books'
<1> DEFINE w == work["embeddings"]
           v == work'["embeddings"]
<1>0. /\ cache \in Summary /\ work \in [Phase -> Assignments] /\ "embeddings" \in Phase
      /\ loop' = loop /\ todo' = todo /\ w.pc = "run"
  BY PhaseKinds DEF TypeOK, EmbedLookup, WorkUnchanged
<1>1. /\ conf' = conf /\ admin' = admin /\ notice' = notice /\ settling' = settling
      /\ \A q \in Phase \ {"embeddings"} : work'[q] = work[q]
      /\ Owing => Owing'
      /\ todo["embeddings"] \in Nat /\ work["thumbnails"].found \in Nat
  BY EmbeddingSteps
<1>2. LocalKept /\ work'["thumbnails"] = work["thumbnails"]
  BY <1>0, <1>1, EmbeddingLocal DEF Phase, Local, Semantic
<1>3. CASE /\ work' = [work EXCEPT !["embeddings"].pc = "held", !["embeddings"].hint = cache.hint]
           /\ ~Stopped("embeddings") /\ UNCHANGED <<cache, moved>>
  <2>1. v.pc = "held" /\ v.hint = cache.hint /\ v.ends = w.ends
    BY <1>0, <1>3 DEF Assignments
  <2>2. SemanticKept
    <3>1. Awaited(w) => Awaited(v)
      BY <2>1 DEF Awaited
    <3> QED BY <1>0, <1>2, <3>1, SemanticCarry
  <2>3. ReportKept
    BY <1>0, <2>1 DEF ReportKept, HintsKept, Status, Summary
  <2>4. Same(cache, cache') /\ Same(loop.seen, loop'.seen)
    BY <1>0, <1>3 DEF Same
  <2> QED BY <1>0, <1>1, <1>2, <1>3, <2>2, <2>3, <2>4, CarriedBooks
<1>4. CASE Quits("embeddings", "after") /\ w.mixed /\ Correct(Discarded)
  <2>1. v.pc = "after"
    BY <1>0, <1>4, Quitted
  <2>2. Discarded.dirty
    <3>1. Dirtied(cache) \in Summary /\ Dirtied(cache).dirty
      BY <1>0, DirtiedType DEF Dirtied, Summary
    <3> QED BY <3>1 DEF Discarded, Summary
  <2>3. HintsKept(Discarded, v)
    BY <2>1 DEF HintsKept
  <2> QED BY <1>0, <1>4, <2>2, <2>3, WorkMarks
<1>5. CASE /\ Quits("embeddings", "after") /\ Correct(NoWork)
           /\ Stopped("embeddings") \/ ~(todo["embeddings"] >= 1)
  <2>1. v.pc = "after" /\ v.cut = w.cut /\ v.ends = w.ends
    BY <1>0, <1>5, Quitted
  <2>2. Same(cache, cache')
    BY <1>0, <1>5 DEF Same, Correct, NoWork, Summary
  <2>3. SemanticKept
    <3>1. Awaited(w) => Awaited(v) \/ todo["embeddings"] = 0
      BY <1>1, <1>5, <2>1 DEF Awaited, Stopped
    <3> QED BY <1>0, <1>2, <3>1, SemanticCarry
  <2>4. ReportKept
    BY <2>1 DEF ReportKept, HintsKept, Status
  <2>5. loop'.pc \in Underway => moved'
    BY <1>0, <1>5 DEF Correct, Underway, Reading
  <2> QED BY <1>1, <1>2, <2>2, <2>3, <2>4, <2>5, CarriedBooks
<1>6. CASE w.mixed
  BY <1>3, <1>4, <1>6 DEF EmbedLookup
<1>7. CASE ~w.mixed
  BY <1>3, <1>5, <1>7 DEF EmbedLookup
<1> QED BY <1>6, <1>7

\* Vectors, and an index job that the report will bring.
LEMMA EmbedBooks ==
    ASSUME TypeOK, TypeOK', Books, Worker("embeddings"), Embed
    PROVE  Books'
<1> DEFINE w == work["embeddings"]
           v == work'["embeddings"]
<1>0. /\ cache \in Summary /\ work \in [Phase -> Assignments] /\ "embeddings" \in Phase
      /\ todo \in [Phase -> Nat] /\ "search_index" \in Phase
      /\ UNCHANGED <<cache, moved, loop>> /\ w.pc = "held"
  BY PhaseKinds DEF TypeOK, Embed, WorkUnchanged
<1>1. /\ conf' = conf /\ admin' = admin /\ notice' = notice /\ settling' = settling
      /\ \A q \in Phase \ {"embeddings"} : work'[q] = work[q]
      /\ \A q \in Local : todo'[q] = todo[q]
      /\ Owing => Owing'
      /\ todo["embeddings"] \in Nat /\ work["thumbnails"].found \in Nat
  BY EmbeddingSteps
<1>2. LocalKept /\ work'["thumbnails"] = work["thumbnails"]
  BY <1>0, <1>1, EmbeddingLocal DEF Phase, Local, Semantic
<1>3. /\ v.pc = "report" /\ v.hint = w.hint /\ v.ends = w.ends /\ v.replaced = w.replaced
      /\ v.found = todo'["embeddings"]
  BY <1>0 DEF Embed, Assignments
<1>4. todo'["embeddings"] = Less(todo["embeddings"], Batch) /\ todo'["embeddings"] \in Nat
  BY <1>0, BoundAssumption, Subtraction DEF Embed
<1>5. todo'["embeddings"] > 0 => todo["embeddings"] > 0
  BY <1>1, <1>4, BoundAssumption, Subtraction
<1>6. SemanticKept
  <2>1. Awaited(w) => Awaited(v)
    BY <1>0, <1>3 DEF Awaited
  <2> QED BY <1>0, <1>2, <1>3, <1>5, <2>1, SemanticCarry
<1>7. ReportKept
  <2>1. cache.hint \in Nat /\ v.hint \in Nat
    BY <1>0, <1>3 DEF Summary, Assignments
  <2>2. Less(cache.hint, v.hint) \in Nat
    BY <2>1, Subtraction
  <2>3. StatusCounts(cache, todo', work')
    BY <1>1, <1>2, <1>3, <1>4, <2>2 DEF StatusCounts
  <2>4. HintsKept(cache, w) => HintsKept(cache, v)
    BY <1>0, <1>3 DEF HintsKept
  <2> QED BY <2>3, <2>4 DEF ReportKept, Status
<1>8. Same(cache, cache') /\ Same(loop.seen, loop'.seen)
  BY <1>0 DEF Same
<1> QED BY <1>0, <1>1, <1>2, <1>6, <1>7, <1>8, CarriedBooks

\* The report of an embedding run: the status it brings, and the hints that came
\* meanwhile, count all vectors to be computed, unless the run was overtaken by
\* a recount.
LEMMA StatusBooks ==
    ASSUME TypeOK, TypeOK', Books, Worker("embeddings"), EmbedReport
    PROVE  Books'
<1> DEFINE w == work["embeddings"]
           v == work'["embeddings"]
           c == Embedded(w)
<1>0. /\ cache \in Summary /\ work \in [Phase -> Assignments] /\ "embeddings" \in Phase
      /\ "search_index" \in Phase
      /\ loop' = loop /\ todo' = todo /\ w.pc = "report" /\ Correct(c) /\ cache' = c
      /\ Quits("embeddings", "after")
  BY PhaseKinds DEF TypeOK, EmbedReport, WorkUnchanged, Correct
<1>1. /\ conf' = conf /\ admin' = admin /\ notice' = notice /\ settling' = settling
      /\ \A q \in Phase \ {"embeddings"} : work'[q] = work[q]
      /\ Owing => Owing'
      /\ todo["embeddings"] \in Nat /\ work["thumbnails"].found \in Nat
  BY EmbeddingSteps
<1>2. LocalKept /\ work'["thumbnails"] = work["thumbnails"]
  BY <1>0, <1>1, EmbeddingLocal DEF Phase, Local, Semantic
<1>3. v.pc = "after"
  BY <1>0, Quitted
<1>4. /\ c.known = cache.known /\ c.dirty = cache.dirty /\ c.lapsed = cache.lapsed
      /\ c.hash = cache.hash /\ c.settling = cache.settling
      /\ c.hint = Less(cache.hint, w.hint)
      /\ c.gap = (IF w.replaced THEN cache.gap \cup {"replaced"} ELSE cache.gap)
      /\ c.count = [cache.count EXCEPT !["embeddings"] = w.found, !["search_index"] = 1]
  <2> DEFINE r == cache.ready /\ w.found > 0
             n == [cache.count EXCEPT !["embeddings"] = w.found, !["search_index"] = 1]
             g == IF w.replaced THEN cache.gap \cup {"replaced"} ELSE cache.gap
             h == Less(cache.hint, w.hint)
  <2>1. c = [cache EXCEPT !.count = n, !.ready = r, !.hint = h, !.later = FALSE, !.gap = g]
    BY DEF Embedded
  <2> HIDE DEF c, r, n, g, h
  <2>2. /\ c.known = cache.known /\ c.dirty = cache.dirty /\ c.lapsed = cache.lapsed
        /\ c.hash = cache.hash /\ c.settling = cache.settling
        /\ c.hint = h /\ c.gap = g /\ c.count = n
    BY <1>0, <2>1 DEF Summary
  <2> QED BY <2>2 DEF n, g, h
<1> HIDE DEF c
<1>5. /\ c.count["embeddings"] = w.found /\ c.count["search_index"] = 1
      /\ \A q \in Local : c.count[q] = cache.count[q]
  BY <1>0, <1>4 DEF Summary, Local, Phase, Semantic
<1>6. Usable(c) <=> Usable(cache)
  BY <1>4 DEF Usable
<1>7. CacheInv'
  <2> SUFFICES ASSUME c.known, Usable(c), ~Owing'
               PROVE  /\ conf.local => /\ CountsMetadata(c, todo, settling, work')
                                       /\ CountsThumbnails(c, todo, work')
                                       /\ CountsChecks(c, todo, work')
                      /\ c.gap = {} /\ conf.workers > 0 =>
                           /\ CountsIndex(c, todo, work')
                           /\ conf.semantic /\ c.hash = Hash(conf) =>
                                CountsEmbeddings(c, todo, work')
    BY <1>0, <1>1 DEF CacheInv
  <2>1. cache.known /\ Usable(cache) /\ ~Owing
    BY <1>1, <1>4, <1>6
  <2>2. conf.local => /\ CountsMetadata(cache, todo, settling, work')
                      /\ CountsThumbnails(cache, todo, work')
                      /\ CountsChecks(cache, todo, work')
    BY <1>0, <1>1, <1>2, <2>1 DEF Books, CacheInv, LocalKept
  <2>3. conf.local => /\ CountsMetadata(c, todo, settling, work')
                      /\ CountsThumbnails(c, todo, work')
                      /\ CountsChecks(c, todo, work')
    BY <1>4, <1>5, <2>2 DEF CountsMetadata, CountsThumbnails, CountsChecks, Local
  <2>4. CountsIndex(c, todo, work')
    BY <1>5 DEF CountsIndex
  <2>5. ASSUME c.gap = {}, conf.workers > 0, conf.semantic, c.hash = Hash(conf)
        PROVE  CountsEmbeddings(c, todo, work')
    <3>1. ~w.replaced /\ cache.hash.embeds
      BY <1>4, <2>5, HashEmbeds
    <3>2. StatusCounts(cache, todo, work)
      BY <1>0, <2>1, <3>1 DEF Books, ReportInv
    <3>3. cache.hint \in Nat /\ w.hint \in Nat /\ w.found \in Nat
      BY <1>0 DEF Summary, Assignments
    <3>4. c.hint \in Nat
      BY <1>4, <3>3, Subtraction
    <3>5. todo["embeddings"] <= c.count["embeddings"] + c.hint + work'["thumbnails"].found
      BY <1>2, <1>4, <1>5, <3>2 DEF StatusCounts
    <3> QED BY <1>1, <1>2, <1>5, <3>3, <3>4, <3>5 DEF CountsEmbeddings
  <2> QED BY <2>3, <2>4, <2>5
<1>8. ReportInv'
  BY <1>3 DEF ReportInv, HintsKept
<1>9. ReadInv'
  BY <1>0, MovedRead
<1> QED BY <1>7, <1>8, <1>9 DEF Books

\* A failed or cancelled run.  What a cancelled one keeps quiet about is the index
\* job of the gap "stored".
LEMMA SilentBooks ==
    ASSUME TypeOK, TypeOK', Books, Worker("embeddings"), EmbedFails
    PROVE  Books'
<1> DEFINE w == work["embeddings"]
           v == work'["embeddings"]
<1>0. /\ cache \in Summary /\ loop.seen \in Summary /\ loop \in LoopState
      /\ work \in [Phase -> Assignments] /\ "embeddings" \in Phase
      /\ todo \in [Phase -> Nat] /\ "search_index" \in Phase /\ "embeddings" # "search_index"
      /\ w.pc = "held" /\ Quits("embeddings", "after")
  BY PhaseKinds DEF TypeOK, LoopState, EmbedFails
<1>1. /\ conf' = conf /\ admin' = admin /\ notice' = notice /\ settling' = settling
      /\ \A q \in Phase \ {"embeddings"} : work'[q] = work[q]
      /\ \A q \in Local : todo'[q] = todo[q]
      /\ Owing => Owing'
      /\ todo["embeddings"] \in Nat /\ work["thumbnails"].found \in Nat
  BY EmbeddingSteps
<1>2. LocalKept /\ work'["thumbnails"] = work["thumbnails"]
  BY <1>1, EmbeddingLocal DEF Phase, Local, Semantic
<1>3. v.pc = "after" /\ v.cut = w.cut /\ v.ends = w.ends
  BY <1>0, Quitted
<1>4. CASE MarkDirty
  BY <1>0, <1>3, <1>4, DirtyBooks
<1>5. CASE Correct(Discarded)
  <2>1. Discarded.dirty
    <3>1. Dirtied(cache) \in Summary /\ Dirtied(cache).dirty
      BY <1>0, DirtiedType DEF Dirtied, Summary
    <3> QED BY <3>1 DEF Discarded, Summary
  <2>2. HintsKept(Discarded, v)
    BY <1>3 DEF HintsKept
  <2> QED BY <1>0, <1>5, <2>1, <2>2, WorkMarks
<1>6. ASSUME NEW stored \in BOOLEAN, Silent(stored), Stopped("embeddings"),
             todo' = IF stored THEN [todo EXCEPT !["embeddings"] = Less(@, 1), !["search_index"] = 1]
                     ELSE todo
      PROVE  Books'
  <2> DEFINE more == IF stored THEN {"stored"} ELSE {}
  <2>1. /\ cache' = [cache EXCEPT !.gap = cache.gap \cup more] /\ moved' = moved
        /\ loop'.pc = loop.pc
        /\ loop'.seen = [loop.seen EXCEPT !.gap = IF loop.pc = "install" THEN loop.seen.gap \cup more
                                                  ELSE loop.seen.gap]
    BY <1>0, <1>6 DEF Silent, LoopState
  <2>2. Same(cache, cache') /\ Same(loop.seen, loop'.seen)
    BY <1>0, <2>1 DEF Same, Summary
  <2>3. ReportKept
    BY <1>3 DEF ReportKept, HintsKept, Status
  <2>4. CASE ~stored
    <3>1. todo' = todo
      BY <1>6, <2>4
    <3>2. Awaited(w) => Awaited(v)
      BY <1>3, <1>6 DEF Awaited, Stopped
    <3>3. SemanticKept
      BY <1>0, <1>2, <3>1, <3>2, SemanticCarry
    <3> QED BY <1>1, <1>2, <2>1, <2>2, <2>3, <3>3, CarriedBooks
  <2>5. CASE stored
    <3>1. cache'.gap # {} /\ (loop.pc = "install" => loop'.seen.gap # {})
      <4>1. "stored" \in more
        BY <2>5
      <4> HIDE DEF more
      <4>2. /\ cache'.gap = cache.gap \cup more
            /\ loop.pc = "install" => loop'.seen.gap = loop.seen.gap \cup more
        BY <1>0, <2>1 DEF Summary
      <4> QED BY <4>1, <4>2
    <3>2. CacheInv'
      <4> SUFFICES ASSUME cache'.known, Usable(cache'), ~Owing', conf.local
                   PROVE  /\ CountsMetadata(cache', todo', settling', work')
                          /\ CountsThumbnails(cache', todo', work')
                          /\ CountsChecks(cache', todo', work')
        BY <1>1, <3>1 DEF CacheInv
      <4>1. cache.known /\ Usable(cache) /\ ~Owing
        BY <1>1, <2>2, SameCounts DEF Same
      <4>2. /\ CountsMetadata(cache, todo', settling', work')
            /\ CountsThumbnails(cache, todo', work')
            /\ CountsChecks(cache, todo', work')
        BY <1>0, <1>2, <4>1 DEF Books, CacheInv, LocalKept
      <4> QED BY <2>2, <4>2, SameCounts
    <3>3. ReadInv'
      <4> SUFFICES ASSUME loop.pc \in Underway, ~moved, Usable(loop'.seen), ~Owing', conf.local
                   PROVE  /\ CountsMetadata(loop'.seen, todo', settling', work')
                          /\ loop.pc \in {"semantic", "install"} =>
                               /\ CountsThumbnails(loop'.seen, todo', work')
                               /\ CountsChecks(loop'.seen, todo', work')
        BY <1>1, <2>1, <3>1 DEF ReadInv, Underway
      <4>1. Usable(loop.seen) /\ ~Owing
        BY <1>1, <2>2, SameCounts
      <4>2. /\ CountsMetadata(loop.seen, todo', settling', work')
            /\ loop.pc \in {"semantic", "install"} =>
                 /\ CountsThumbnails(loop.seen, todo', work')
                 /\ CountsChecks(loop.seen, todo', work')
        BY <1>0, <1>2, <4>1 DEF Books, ReadInv, LocalKept, Underway, Reading
      <4> QED BY <2>2, <4>2, SameCounts
    <3>4. ReportInv'
      BY <1>3 DEF ReportInv, HintsKept
    <3> QED BY <3>2, <3>3, <3>4 DEF Books
  <2> QED BY <2>4, <2>5
<1>7. CASE Stopped("embeddings")
  BY <1>4, <1>5, <1>6, <1>7 DEF EmbedFails
<1>8. CASE ~Stopped("embeddings")
  BY <1>4, <1>8 DEF EmbedFails
<1> QED BY <1>7, <1>8

-----------------------------------------------------------------------------
(* The books through the steps of the loop.                                *)

\* The reads: what the summary under way says of the jobs that were read.
LEMMA ReadBooks ==
    ASSUME TypeOK, Books, LoopRead
    PROVE  Books'
<1> DEFINE l == loop.seen
           m == loop'.seen
<1>0. /\ l \in Summary /\ loop \in LoopState /\ todo \in [Phase -> Nat] /\ settling \in Nat
      /\ work \in [Phase -> Assignments]
      /\ conf \in [local : BOOLEAN, semantic : BOOLEAN, workers : Nat]
      /\ "metadata" \in Phase /\ "thumbnails" \in Phase /\ "embeddings" \in Phase
      /\ "search_index" \in Phase /\ "content_verification" \in Phase
  BY ConfigType, PhaseKinds DEF TypeOK, LoopState
<1>1. UNCHANGED <<conf, admin, todo, settling, notice, cache, moved, work>>
  BY DEF LoopRead, LoopUnchanged
<1>2. CacheInv' /\ ReportInv'
  BY <1>1 DEF Books, CacheInv, ReportInv, Owing
<1>3. /\ \A p \in Phase : /\ todo[p] \in Nat /\ work[p].found \in Nat
                          /\ Remaining(work[p]) \in Nat
      /\ Owing' <=> Owing
  BY <1>0, <1>1, RemainingType DEF Assignments, Owing
<1>4. CASE loop.pc = "local"
  <2>1. loop'.pc = "thumbs" /\ m = ReadLocal(l)
    BY <1>0, <1>4 DEF LoopRead, LoopState
  <2>2. conf.local => CountsMetadata(m, todo, settling, work)
    <3>1. conf.local => m.count["metadata"] = todo["metadata"] /\ m.settling = settling
      BY <1>0, <2>1 DEF ReadLocal, Summary
    <3> QED BY <1>0, <1>3, <3>1 DEF CountsMetadata
  <2> QED BY <1>1, <1>2, <2>1, <2>2 DEF Books, ReadInv
<1>5. CASE loop.pc = "thumbs"
  <2>1. loop'.pc = "semantic" /\ m = ReadThumbs(l)
    BY <1>0, <1>5 DEF LoopRead, LoopState
  <2>2. /\ m.count["metadata"] = l.count["metadata"] /\ m.settling = l.settling
        /\ m.dirty = l.dirty /\ m.lapsed = l.lapsed
    BY <1>0, <2>1 DEF ReadThumbs, Summary
  <2>3. conf.local => CountsThumbnails(m, todo, work) /\ CountsChecks(m, todo, work)
    <3>1. conf.local => /\ m.count["thumbnails"] = todo["thumbnails"]
                        /\ m.count["content_verification"] = todo["content_verification"]
      BY <1>0, <2>1 DEF ReadThumbs, Summary
    <3> QED BY <1>0, <1>3, <3>1 DEF CountsThumbnails, CountsChecks
  <2>4. ~moved /\ Usable(m) /\ ~Owing /\ conf.local => CountsMetadata(m, todo, settling, work)
    BY <1>5, <2>2 DEF Books, ReadInv, Reading, Usable, CountsMetadata
  <2> QED BY <1>1, <1>2, <1>3, <2>1, <2>3, <2>4 DEF Books, ReadInv
<1>6. CASE loop.pc = "semantic"
  <2> DEFINE r == ReadSemantic(l)
  <2>1. loop'.pc = "install" /\ m = [r EXCEPT !.known = TRUE]
    BY <1>0, <1>6 DEF LoopRead, LoopState
  <2>2. r \in Summary
    <3>1. l.hash.embeds \in BOOLEAN
      BY <1>0 DEF Summary
    <3> QED BY <1>0, <3>1 DEF ReadSemantic, Summary
  <2>3. /\ r.dirty = l.dirty /\ r.lapsed = l.lapsed /\ r.hash = l.hash /\ r.settling = l.settling
        /\ \A p \in Local : r.count[p] = l.count[p]
    BY <1>0 DEF ReadSemantic, Summary, Local, Phase
  <2>4. /\ m.dirty = l.dirty /\ m.lapsed = l.lapsed /\ m.hash = l.hash /\ m.settling = l.settling
        /\ m.count = r.count /\ m.gap = r.gap
    BY <2>1, <2>2, <2>3 DEF Summary
  <2>5. ~moved /\ Usable(m) /\ ~Owing /\ conf.local =>
            /\ CountsMetadata(m, todo, settling, work) /\ CountsThumbnails(m, todo, work)
            /\ CountsChecks(m, todo, work)
    BY <1>6, <2>3, <2>4 DEF Books, ReadInv, Reading, Usable, CountsMetadata, CountsThumbnails,
       CountsChecks, Local
  <2>6. ASSUME m.gap = {}, conf.workers > 0
        PROVE  /\ CountsIndex(m, todo, work)
               /\ conf.semantic /\ m.hash = Hash(conf) => CountsEmbeddings(m, todo, work)
    <3>1. CASE loop.cut \/ loop.ends
      <4>1. r.gap = {"cut"}
        BY <1>0, <3>1 DEF ReadSemantic, Summary
      <4> QED BY <2>4, <2>6, <4>1
    <3>2. CASE ~(loop.cut \/ loop.ends) /\ ~Populated(l)
      <4>1. ~l.hash.embeds /\ todo["search_index"] = 0
        BY <1>3, <1>0, <2>6, <3>2 DEF Populated
      <4>2. ~(conf.semantic /\ m.hash = Hash(conf))
        BY <2>4, <2>6, <4>1, HashEmbeds
      <4> QED BY <4>1, <4>2 DEF CountsIndex
    <3>3. CASE ~(loop.cut \/ loop.ends) /\ Populated(l)
      <4>1. /\ m.count["embeddings"] = todo["embeddings"]
            /\ m.count["search_index"] = todo["search_index"]
        BY <1>0, <2>4, <3>3 DEF ReadSemantic, Summary
      <4> QED BY <4>1 DEF CountsIndex, CountsEmbeddings
    <3> QED BY <3>1, <3>2, <3>3
  <2> QED BY <1>1, <1>2, <1>3, <2>1, <2>5, <2>6 DEF Books, ReadInv
<1> QED BY <1>4, <1>5, <1>6 DEF LoopRead

\* The result of the reads becomes the summary.
LEMMA InstallBooks ==
    ASSUME TypeOK, TypeOK', Books, Ends, LoopInstall
    PROVE  Books'
<1>0. /\ cache \in Summary /\ loop \in LoopState /\ loop.seen \in Summary
      /\ work \in [Phase -> Assignments] /\ "embeddings" \in Phase
      /\ loop.pc = "install" /\ UNCHANGED <<conf, admin, todo, settling, notice>>
  BY PhaseKinds DEF TypeOK, LoopState, LoopInstall, LoopUnchanged
<1>1. Flagged
  BY LoopFlags DEF LoopStep, LoopInstall, LoopChoose
<1>2. LocalKept \/ ~conf.local
  BY <1>0, <1>1, FlaggedKept
<1>3. SemanticKept /\ (Owing => Owing')
  BY <1>0, <1>1, FlaggedKept
<1>4. loop'.pc \notin Reading
  BY <1>0 DEF LoopInstall, Rest, NoLoop, Reading, LoopState
<1>5. CASE Installs
  <2>1. /\ cache' = loop.seen /\ ~moved
        /\ work' = [work EXCEPT !["embeddings"].replaced = work["embeddings"].pc # "off"]
    BY <1>5 DEF LoopInstall, Installs
  <2>2. CacheInv'
    BY <1>0, <1>2, <1>3, <2>1 DEF Books, ReadInv, Reading, CacheInv, LocalKept, SemanticKept
  <2>3. work'["embeddings"].pc = "off" \/ work'["embeddings"].replaced
    <3> DEFINE b == work["embeddings"].pc # "off"
    <3>1. work'["embeddings"] = [work["embeddings"] EXCEPT !.replaced = b]
      BY <1>0, <2>1
    <3>2. b \in BOOLEAN /\ (~b => work["embeddings"].pc = "off")
      OBVIOUS
    <3> HIDE DEF b
    <3>3. work'["embeddings"].replaced = b /\ work'["embeddings"].pc = work["embeddings"].pc
      BY <1>0, <3>1 DEF Assignments
    <3> QED BY <3>2, <3>3
  <2>4. ReportInv'
    BY <2>3 DEF ReportInv, HintsKept
  <2> QED BY <1>4, <2>2, <2>4 DEF Books, ReadInv
<1>6. CASE ~Installs
  <2>1. cache' = Dirtied(cache) /\ work' = work
    BY <1>6 DEF LoopInstall
  <2>2. cache'.dirty /\ cache'.hint = cache.hint
    BY <1>0, <2>1 DEF Dirtied, Summary
  <2>3. HintsKept(cache', work'["embeddings"])
    BY <2>1, <2>2 DEF Books, ReportInv, HintsKept
  <2> QED BY <1>4, <2>2, <2>3, MarkedBooks DEF Usable, Underway, Reading
<1> QED BY <1>5, <1>6

\* A launch: the jobs that the assignment takes out of the summary are those it
\* plans, or it will correct the summary anyway.
LEMMA LaunchBooks ==
    ASSUME TypeOK, TypeOK', SlotsHeld, Places, Books, LoopChoose, NEW p \in Phase, Launched(p),
           p \in Ungated => loop.seen.count[p] > 0
    PROVE  Books'
<1> DEFINE n == Planned(p, loop.seen)
           c == Assigned(p, n)
<1>0. /\ cache \in Summary /\ loop \in LoopState /\ loop.seen \in Summary
      /\ work \in [Phase -> Assignments] /\ todo \in [Phase -> Nat] /\ settling \in Nat
      /\ UNCHANGED <<conf, admin, todo, settling, notice>> /\ cache' = c
      /\ "metadata" \in Phase /\ "thumbnails" \in Phase /\ "embeddings" \in Phase
      /\ "search_index" \in Phase /\ "content_verification" \in Phase
  BY PhaseKinds DEF TypeOK, LoopState, LoopChoose, LoopUnchanged, Launched, Correct
<1>1. loop'.pc = "look"
  BY <1>0 DEF Launched, LoopState
<1>2. work[p].pc = "off"
  <2>1. active[p] = 0
    BY DEF Launched, Launches
  <2> QED BY <2>1 DEF SlotsHeld
<1>3. /\ work'[p].planned = n /\ n \in Nat
      /\ p \in Ungated => work'[p].pc = "run"
      /\ p \in Gated => work'[p].pc = "gate"
      /\ work'[p].done = 0 /\ work'[p].found = 0 /\ ~work'[p].odd /\ ~work'[p].ends
      /\ \A q \in Phase \ {p} : work'[q] = work[q]
  BY LaunchedWork
<1>4. /\ c.known = cache.known /\ c.hash = cache.hash /\ c.gap = cache.gap
      /\ c.settling = cache.settling /\ c.dirty = cache.dirty /\ c.lapsed = cache.lapsed
      /\ c.hint = cache.hint
      /\ \A q \in Phase \ {p} : c.count[q] = cache.count[q]
      /\ n = 0 => c = cache
      /\ n > 0 /\ p # "content_verification" => c.count[p] = Less(cache.count[p], n)
  <2>1. CASE n = 0
    <3>1. c = cache
      BY <2>1 DEF Assigned
    <3> HIDE DEF c, n
    <3> QED BY <2>1, <3>1
  <2>2. CASE n # 0
    <3> DEFINE k == IF p = "content_verification" THEN 0 ELSE Less(cache.count[p], n)
    <3>1. c = [cache EXCEPT !.count[p] = k]
      BY <2>2 DEF Assigned
    <3> HIDE DEF c, k, n
    <3>2. /\ c.known = cache.known /\ c.hash = cache.hash /\ c.gap = cache.gap
          /\ c.settling = cache.settling /\ c.dirty = cache.dirty /\ c.lapsed = cache.lapsed
          /\ c.hint = cache.hint /\ c.count = [cache.count EXCEPT ![p] = k]
      BY <1>0, <3>1 DEF Summary
    <3>3. cache.count \in [Phase -> Nat]
      BY <1>0 DEF Summary
    <3> QED BY <2>2, <3>2, <3>3 DEF k
  <2> QED BY <2>1, <2>2
<1>5. p = "search_index" => n = 0
  BY DEF Planned
<1> HIDE DEF c, n
<1>6. /\ \A q \in Phase : /\ todo[q] \in Nat /\ cache.count[q] \in Nat /\ work[q].found \in Nat
                          /\ Remaining(work[q]) \in Nat
      /\ Remaining(work[p]) = 0
  BY <1>0, <1>2, RemainingType DEF Summary, Assignments
<1>7. p \in Ungated => work[p].found = 0 /\ Remaining(work'[p]) = n
  BY <1>2, <1>3 DEF Places, Remaining, Less
<1>8. n > 0 /\ p # "content_verification" =>
          /\ c.count[p] \in Nat /\ cache.count[p] <= c.count[p] + n
  <2>1. Less(cache.count[p], n) \in Nat /\ cache.count[p] <= Less(cache.count[p], n) + n
    BY <1>3, <1>6, Subtraction
  <2> QED BY <1>4, <2>1
<1>9. Usable(c) => Usable(cache)
  BY <1>4 DEF Usable
<1>10. Owing => Owing'
  BY <1>0, <1>2, <1>3, PhaseKinds DEF Owing, Owes
<1>11. p \in Gated => Awaited(work'[p])
  BY <1>3 DEF Awaited
<1>12. \A q \in Gated : Awaited(work[q]) => Awaited(work'[q])
  BY <1>3, <1>11, PhaseKinds
<1>13. CacheInv'
  <2> SUFFICES ASSUME c.known, Usable(c), ~Owing'
               PROVE  /\ conf.local => /\ CountsMetadata(c, todo, settling, work')
                                       /\ CountsThumbnails(c, todo, work')
                                       /\ CountsChecks(c, todo, work')
                      /\ c.gap = {} /\ conf.workers > 0 =>
                           /\ CountsIndex(c, todo, work')
                           /\ conf.semantic /\ c.hash = Hash(conf) =>
                                CountsEmbeddings(c, todo, work')
    BY <1>0 DEF CacheInv
  <2>1. cache.known /\ Usable(cache) /\ ~Owing
    BY <1>4, <1>9, <1>10
  <2>2. conf.local => CountsMetadata(c, todo, settling, work')
    <3>1. conf.local => CountsMetadata(cache, todo, settling, work)
      BY <2>1 DEF Books, CacheInv
    <3>2. CASE p = "metadata"
      <4>1. p \in Ungated
        BY <3>2, PhaseKinds
      <4> QED BY <1>3, <1>4, <1>6, <1>7, <1>8, <3>1, <3>2, <4>1 DEF CountsMetadata
    <3>3. CASE p # "metadata"
      BY <1>0, <1>3, <1>4, <3>1, <3>3 DEF CountsMetadata
    <3> QED BY <3>2, <3>3
  <2>3. conf.local => CountsThumbnails(c, todo, work')
    <3>1. conf.local => CountsThumbnails(cache, todo, work)
      BY <2>1 DEF Books, CacheInv
    <3>2. work'["metadata"].found = work["metadata"].found
      BY <1>0, <1>3, <1>7, PhaseKinds
    <3>3. CASE p = "thumbnails"
      <4>1. p \in Ungated
        BY <3>3, PhaseKinds
      <4> QED BY <1>0, <1>3, <1>4, <1>6, <1>7, <1>8, <3>1, <3>2, <3>3, <4>1 DEF CountsThumbnails
    <3>4. CASE p # "thumbnails"
      <4>1. work'["thumbnails"] = work["thumbnails"]
            /\ c.count["thumbnails"] = cache.count["thumbnails"]
        BY <1>0, <1>3, <1>4, <3>4
      <4> QED BY <3>1, <3>2, <4>1 DEF CountsThumbnails
    <3> QED BY <3>3, <3>4
  <2>4. conf.local => CountsChecks(c, todo, work')
    <3>1. conf.local => CountsChecks(cache, todo, work)
      BY <2>1 DEF Books, CacheInv
    <3>2. c.count["content_verification"] = cache.count["content_verification"]
          \/ Awaited(work'["content_verification"])
      BY <1>0, <1>4, <1>11, PhaseKinds
    <3> QED BY <1>12, <3>1, <3>2, PhaseKinds DEF CountsChecks
  <2>5. c.gap = {} /\ conf.workers > 0 => CountsIndex(c, todo, work')
    <3>1. c.count["search_index"] = cache.count["search_index"]
      BY <1>0, <1>4, <1>5
    <3>2. work["embeddings"].pc = "report" => work'["embeddings"].pc = "report"
      BY <1>0, <1>2, <1>3
    <3> QED BY <1>4, <2>1, <3>1, <3>2 DEF Books, CacheInv, CountsIndex
  <2>6. ASSUME c.gap = {}, conf.workers > 0, conf.semantic, c.hash = Hash(conf)
        PROVE  CountsEmbeddings(c, todo, work')
    <3>1. CountsEmbeddings(cache, todo, work)
      BY <1>4, <2>1, <2>6 DEF Books, CacheInv
    <3>2. work'["thumbnails"].found = work["thumbnails"].found
      BY <1>0, <1>3, <1>7, PhaseKinds
    <3>3. c.count["embeddings"] = cache.count["embeddings"] \/ Awaited(work'["embeddings"])
      BY <1>0, <1>4, <1>11, PhaseKinds
    <3> QED BY <1>4, <1>12, <3>1, <3>2, <3>3, PhaseKinds DEF CountsEmbeddings
  <2> QED BY <2>2, <2>3, <2>4, <2>5, <2>6
<1>14. ReadInv'
  BY <1>1 DEF ReadInv, Reading
<1>15. ReportInv'
  <2>1. CASE p = "embeddings"
    <3>1. work'["embeddings"].pc = "gate"
      BY <1>3, <2>1, PhaseKinds
    <3> QED BY <3>1 DEF ReportInv, HintsKept
  <2>2. CASE p # "embeddings"
    <3>1. work'["embeddings"] = work["embeddings"]
          /\ work'["thumbnails"].found = work["thumbnails"].found
      BY <1>0, <1>3, <1>7, <2>2, PhaseKinds
    <3> QED BY <1>0, <1>4, <1>9, <1>10, <3>1 DEF Books, ReportInv, HintsKept, StatusCounts
  <2> QED BY <2>1, <2>2
<1> QED BY <1>13, <1>14, <1>15 DEF Books

\* The steps of the loop.
LEMMA LoopBooks ==
    ASSUME TypeOK, TypeOK', SlotsHeld, Places, Ends, Books, LoopStep
    PROVE  Books'
<1>0. loop \in LoopState
  BY DEF TypeOK
<1>1. CASE LoopRead
  BY <1>1, ReadBooks
<1>2. CASE LoopInstall
  BY <1>2, InstallBooks
<1>3. CASE LoopChoose /\ \E p \in Phase : Launched(p) /\ (p \in Ungated => loop.seen.count[p] > 0)
  BY <1>3, LaunchBooks
<1>4. ASSUME Flagged, UNCHANGED <<conf, admin, todo, settling, notice, cache>>,
             loop'.pc \notin Underway
      PROVE  Books'
  <2>1. Same(cache, cache')
    BY <1>4 DEF Same
  <2> QED BY <1>4, <2>1, FlaggedKept, CarriedBooks
<1>5. Rest(loop).pc = "sleep" /\ NoLoop.pc = "off"
  BY DEF Rest, NoLoop
<1>6. CASE LoopWake
  <2>1. loop'.pc \notin Underway
    BY <1>0, <1>5, <1>6 DEF LoopWake, Leave, LoopState, Underway
  <2>2. Flagged
    BY <1>6, LoopFlags DEF LoopWake, LoopChoose
  <2> QED BY <1>4, <1>6, <2>1, <2>2 DEF LoopWake, LoopUnchanged
<1>7. CASE LoopLook
  <2>1. loop'.pc \notin Underway
    BY <1>0, <1>5, <1>7 DEF LoopLook, LoopState, Underway
  <2> QED BY <1>4, <1>7, <2>1, UnchangedFlags DEF LoopLook, LoopUnchanged
<1>8. CASE LoopGate
  <2>1. loop'.pc \notin Underway
    BY <1>0, <1>5, <1>8 DEF LoopGate, LoopState, Underway
  <2> QED BY <1>4, <1>8, <2>1, UnchangedFlags DEF LoopGate, LoopUnchanged
<1>9. CASE LoopReadFails
  BY <1>4, <1>5, <1>9, UnchangedFlags DEF LoopReadFails, LoopUnchanged, Underway
<1>10. CASE LoopChoose /\ loop' = Rest(loop) /\ UNCHANGED <<cache, moved, active, work>>
  BY <1>4, <1>5, <1>10, UnchangedFlags DEF LoopChoose, LoopUnchanged, Underway
<1> QED BY <1>1, <1>2, <1>3, <1>6, <1>7, <1>8, <1>9, <1>10, ChoiceMade DEF LoopStep

\* The steps of the assignments.
LEMMA WorkBooks ==
    ASSUME TypeOK, TypeOK', Places, Books, NEW p \in Phase, Worker(p)
    PROVE  Books'
<1>1. CASE p \in Ungated
  BY <1>1, UngatedSteps, BatchSteps, ReportBooks, FailedBooks, AfterBooks
<1>2. CASE p \in Gated
  <2>1. CASE p = "embeddings" /\ (EmbedLookup \/ Embed \/ EmbedReport \/ EmbedFails)
    BY <2>1, LookupBooks, EmbedBooks, StatusBooks, SilentBooks
  <2> QED BY <1>2, <2>1, GatedSteps, GatedBooks, AfterBooks
<1> QED BY <1>1, <1>2, PhaseKinds

-----------------------------------------------------------------------------
(* What the books are for.                                                 *)

BookKeeping == TypeOK /\ SlotsInv /\ Places /\ Ends /\ Books

\* An unknown summary says nothing.
LEMMA BooksInit == Init => Places /\ Ends /\ Books
<1> SUFFICES ASSUME Init PROVE Places /\ Ends /\ Books
  OBVIOUS
<1>1. /\ \A p \in Phase : work[p] = NoWorker
      /\ NoWorker.pc = "off" /\ NoWorker.planned = 0 /\ NoWorker.found = 0
  BY DEF Init, NoWorker
<1>2. loop.pc \in {"off", "sleep"} /\ ~loop.ends /\ admin = "none" /\ ~cache.known
  BY DEF Init, NoLoop, Empty
<1>3. Places
  BY <1>1, PhaseKinds DEF Places
<1>4. Ends
  BY <1>2 DEF Ends
<1>5. Books
  BY <1>1, <1>2, PhaseKinds DEF Books, CacheInv, ReadInv, ReportInv, HintsKept, Reading
<1> QED BY <1>3, <1>4, <1>5

\* Every step keeps the books.
LEMMA BooksStep == BookKeeping /\ [Next]_vars => Books'
<1> SUFFICES ASSUME BookKeeping, [Next]_vars PROVE Books'
  OBVIOUS
<1>1. TypeOK /\ TypeOK' /\ SlotsHeld /\ Places /\ Ends /\ Books
  BY TypeStep DEF BookKeeping, SlotsInv
<1> QED BY <1>1, NextCases, LoopBooks, WorkBooks, ElsewhereBooks

\* The books imply that a summary to be used as it is lacks nothing.
LEMMA BooksBalance == TypeOK /\ Places /\ Books => NothingForgotten
<1> SUFFICES ASSUME TypeOK, Places, Books, Fresh, ~Correcting
             PROVE  /\ \A p \in Local : Wanted(p) /\ todo[p] > 0 => Known(p)
                    /\ cache.gap = {} =>
                         \A p \in Semantic : Wanted(p) /\ todo[p] > 0 => Known(p)
  <2>1. cache.gap \cap {} = {}
    OBVIOUS
  <2>2. TypeOK => (cache.gap \cap {"cut", "replaced", "stored"} = {} => cache.gap = {})
    BY DEF TypeOK, Summary
  <2> QED BY <2>1, <2>2 DEF NothingForgotten, Knows
<1>0. /\ \A p \in Phase : todo[p] \in Nat /\ cache.count[p] \in Nat /\ work[p] \in Assignments
      /\ conf \in [local : BOOLEAN, semantic : BOOLEAN, workers : Nat]
      /\ Local \subseteq Phase /\ Semantic \subseteq Phase
      /\ "metadata" \in Phase /\ "thumbnails" \in Phase /\ "embeddings" \in Phase
      /\ "search_index" \in Phase /\ "content_verification" \in Phase
  BY ConfigType DEF TypeOK, Summary, Phase, Local, Semantic
<1>1. /\ notice = "none" /\ admin = "none"
      /\ \A p \in Phase : work[p].pc \in {"off", "finish"}
  BY DEF Correcting
<1>2. /\ \A p \in Phase : Remaining(work[p]) = 0 /\ ~Awaited(work[p])
      /\ work["metadata"].found = 0 /\ work["thumbnails"].found = 0
      /\ work["embeddings"].pc # "report"
  <2>1. work["metadata"].found = 0 /\ work["thumbnails"].found = 0
    BY <1>0, <1>1, PhaseKinds DEF Places
  <2>2. \A p \in Phase : work[p].pc \notin {"run", "held", "gate", "admit", "report", "after"}
    BY <1>1
  <2> QED BY <1>0, <2>1, <2>2 DEF Remaining, Awaited
<1>3. ~Owing
  BY <1>1, PhaseKinds DEF Owing, Owes
<1>4. cache.known /\ Usable(cache) /\ cache.hash = Hash(conf)
  BY DEF Fresh, Usable
<1>5. ASSUME conf.local
      PROVE  /\ todo["metadata"] <= cache.count["metadata"]
             /\ todo["thumbnails"] <= cache.count["thumbnails"]
             /\ todo["content_verification"] > 0 => cache.count["content_verification"] > 0
  <2>1. /\ CountsMetadata(cache, todo, settling, work) /\ CountsThumbnails(cache, todo, work)
        /\ CountsChecks(cache, todo, work)
    BY <1>3, <1>4, <1>5 DEF Books, CacheInv
  <2> QED BY <1>0, <1>2, <2>1 DEF CountsMetadata, CountsThumbnails, CountsChecks
<1>6. \A p \in Local : Wanted(p) /\ todo[p] > 0 => Known(p)
  <2> SUFFICES ASSUME NEW p \in Local, Wanted(p), todo[p] > 0 PROVE cache.count[p] > 0
    BY DEF Known
  <2>1. conf.local
    BY DEF Wanted, Local
  <2> QED BY <1>0, <1>5, <2>1 DEF Local
<1>7. ASSUME cache.gap = {}, conf.workers > 0
      PROVE  /\ todo["search_index"] > 0 => cache.count["search_index"] > 0
             /\ conf.semantic /\ todo["embeddings"] > 0 =>
                   cache.count["embeddings"] > 0 \/ cache.hint > 0
  <2>1. /\ CountsIndex(cache, todo, work)
        /\ conf.semantic => CountsEmbeddings(cache, todo, work)
    BY <1>3, <1>4, <1>7 DEF Books, CacheInv
  <2> QED BY <1>0, <1>2, <2>1 DEF CountsIndex, CountsEmbeddings
<1>8. cache.gap = {} => \A p \in Semantic : Wanted(p) /\ todo[p] > 0 => Known(p)
  BY <1>7 DEF Wanted, Known, Semantic, Local
<1> QED BY <1>6, <1>8

\* A summary that the scheduler will use as it is, with nobody under way who
\* corrects it, counts work for every phase that has work the configuration
\* wants, unless one of its gaps is known.
THEOREM NoWorkForgotten == Spec => []NothingForgotten
<1>1. Init => BookKeeping
  BY SlotsInit, TypeInit, BooksInit DEF BookKeeping
<1>2. BookKeeping /\ [Next]_vars => BookKeeping'
  BY TypeStep, SlotsStep, PlacesStep, EndsStep, BooksStep DEF BookKeeping
<1>3. BookKeeping => NothingForgotten
  BY BooksBalance DEF BookKeeping
<1> QED BY <1>1, <1>2, <1>3, PTL DEF Spec
=============================================================================
