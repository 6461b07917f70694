------------------------- MODULE UploadSafetyProofs -------------------------
(***************************************************************************)
(* The steps under the lock of one upload and the resets keep              *)
(* CommitInvariant; the safety theorems of the upload path follow.         *)
(***************************************************************************)
EXTENDS UploadCommitProofs

\* No file shares its inode with the temporary file of an active session, so
\* writing there changes no file of the upload root.
LEMMA NoAlias ==
    ASSUME CommitInvariant, NEW u \in UploadId, session[u].status = "active"
    PROVE  /\ \A f \in final : f.by # u
           /\ \A data : WriteThrough(u, data) = final
<1>1. \A f \in final : f.by # u
  BY NoUploadAssumption DEF CommitInvariant, FileOK
<1> QED BY <1>1 DEF WriteThrough

\* An active session has no row: a row of it is committing or uploaded, and so
\* would the session be.
LEMMA ActiveHasNoRow ==
    ASSUME CommitInvariant, NEW u \in UploadId,
           session[u].status \in {"unborn", "active", "aborted"}
    PROVE  \A a \in Asset : ledger[a].status # "none" => ledger[a].uid # u
<1> SUFFICES ASSUME NEW a \in Asset, ledger[a].status # "none", ledger[a].uid = u
             PROVE  FALSE
  OBVIOUS
<1>1. RowOK(a) /\ ledger[a].status \in {"committing", "uploaded"}
  BY DEF CommitInvariant, TypeOK, Row
<1> QED BY <1>1 DEF RowOK

\* The row of a held upload belongs to the asset of its session.
LEMMA RowOfAsset ==
    ASSUME CommitInvariant, NEW u \in UploadId, NEW a \in Asset,
           ledger[a].status # "none", ledger[a].uid = u
    PROVE  a = session[u].asset
BY DEF CommitInvariant, RowOK

\* Row, session and file clauses of an upload that is not about to be stored.
LEMMA UnstoredKeeps ==
    ASSUME CommitInvariant, NEW u \in UploadId,
           session[u].status \in {"unborn", "active", "aborted"},
           session'[u].status \in {"active", "aborted", "gone"},
           ledger' = ledger, final' = final,
           NEW h \in Handler, Moves(h), WorkingOK(h)', WorksOn(u), TypeOK',
           \/ hand[h].pc \in LockedPc /\ hand[h].uid = u
           \/ LockFree(u)
           \/ session[u].status = "unborn"
    PROVE  CommitInvariant'
<1>1. \A f \in final' : f.by # u
  BY NoUploadAssumption DEF CommitInvariant, FileOK
<1>2. \A a \in Asset : ledger[a].status = "none" \/ ledger[a].uid = u => RowOK(a)'
  BY ActiveHasNoRow DEF RowOK
<1>3. SessionOK(u)'
  BY DEF SessionOK
<1> QED BY <1>1, <1>2, <1>3, WorkedMove

\* A chunk is written to a file of its own session, which no row names yet.
LEMMA AppendSteps ==
    ASSUME CommitInvariant, TypeOK', NEW h \in Handler,
           \/ \E u \in UploadId, c \in Chunk : AppendWrite(h, u, c)
           \/ AppendCommit(h) \/ AppendUndo(h)
    PROVE  CommitInvariant' /\ final' = final
<1> USE HandlerHas
<1>1. ASSUME NEW u \in UploadId, NEW c \in Chunk, AppendWrite(h, u, c)
      PROVE  CommitInvariant' /\ final' = final
  <2> DEFINE data == Append(TempData(u), c)
  <2>1. session[u].status = "active" /\ LockFree(u)
        /\ GateOpen(Owner[session[u].asset])
    BY <1>1 DEF AppendWrite, Usable, Enter, TakeLock
  <2>2. final' = final
    BY <1>1, <2>1, NoAlias DEF AppendWrite
  <2>3. /\ hand'[h].pc = "append" /\ hand'[h].uid = u
        /\ hand'[h].dev = Owner[session[u].asset]
        /\ \A g \in Handler : g # h => hand'[g] = hand[g]
    BY ZenonT(60), <1>1 DEF AppendWrite, Enter, TakeLock, CommitInvariant, TypeOK, Local
  <2>4. Moves(h)
    BY <2>1, <2>3 DEF Moves, ExclusivePc, Ungated
  <2>5. session[u].next \in Nat /\ TempData(u) \in Seq(Chunk)
        /\ Len(TempData(u)) = session[u].next
    BY <1>1 DEF AppendWrite, TempAt, TempData, CommitInvariant, TypeOK, Temp, Session
  <2>6. data \in Seq(Chunk) /\ Len(data) = session[u].next + 1
    BY <2>5
  <2>7. temp' = [temp EXCEPT ![u] = [data |-> data, old |-> FALSE]]
        /\ session' = session /\ ledger' = ledger
    BY <1>1 DEF AppendWrite
  <2> HIDE DEF data
  <2>8. [data |-> data, old |-> FALSE] # NoFile
    <3>1. [data |-> data, old |-> FALSE] \in [data : Seq(Chunk), old : BOOLEAN]
      BY <2>6
    <3> QED BY <3>1, NoFileAssumption
  <2>9. temp'[u] # NoFile /\ temp'[u].data = data
        /\ \A w \in UploadId : w # u => temp'[w] = temp[w]
    BY <2>7, <2>8 DEF CommitInvariant, TypeOK
  <2>10. WorkingOK(h)'
    BY <2>1, <2>3, <2>6, <2>7, <2>9 DEF WorkingOK, LockedPc
  <2>11. WorksOn(u)
    BY <2>2, <2>7, <2>9 DEF WorksOn
  <2> QED BY <2>1, <2>2, <2>4, <2>7, <2>10, <2>11, UnstoredKeeps
<1>2. CASE AppendCommit(h) \/ AppendUndo(h)
  <2> DEFINE u == hand[h].uid
  <2>1. hand[h].pc = "append" /\ u \in UploadId /\ session[u].status = "active"
    BY <1>2 DEF AppendCommit, AppendUndo, WorkingOK, LockedPc
  <2>2. final' = final /\ ledger' = ledger
    BY <1>2, <2>1, NoAlias DEF AppendCommit, AppendUndo
  <2>3. hand'[h].pc = "idle" /\ \A g \in Handler : g # h => hand'[g] = hand[g]
    <3>1. Return(h)
      BY <1>2 DEF AppendCommit, AppendUndo
    <3> QED BY <3>1 DEF Return, AtRest
  <2>4. Moves(h) /\ WorkingOK(h)'
    BY <2>3, AtRestWorking DEF Moves, LockedPc, Ungated
  <2>5. session'[u].status = "active" /\ session'[u].asset = session[u].asset
    <3>1. CASE AppendCommit(h)
      <4>1. session' = [session EXCEPT ![u] =
                            [session[u] EXCEPT !.next = session[u].next + 1]]
        BY <3>1 DEF AppendCommit
      <4>2. \A n : [session[u] EXCEPT !.next = n].status = session[u].status
                   /\ [session[u] EXCEPT !.next = n].asset = session[u].asset
        BY <2>1 DEF CommitInvariant, TypeOK, Session
      <4>3. \A r : [session EXCEPT ![u] = r][u] = r
        BY <2>1 DEF CommitInvariant, TypeOK
      <4> QED BY <2>1, <4>1, <4>2, <4>3
    <3>2. CASE AppendUndo(h)
      BY <2>1, <3>2 DEF AppendUndo
    <3> QED BY <1>2, <3>1, <3>2
  <2>6. \A w \in UploadId : w # u => session'[w] = session[w] /\ temp'[w] = temp[w]
    BY <1>2 DEF AppendCommit, AppendUndo, CommitInvariant, TypeOK
  <2>7. WorksOn(u)
    BY <2>1, <2>2, <2>5, <2>6 DEF WorksOn
  <2>8. hand[h].pc \in LockedPc /\ hand[h].uid = u
    BY <2>1 DEF LockedPc
  <2> HIDE DEF u
  <2> QED BY <2>1, <2>2, <2>4, <2>5, <2>7, <2>8, UnstoredKeeps
<1> QED BY <1>1, <1>2

\* What a handler between the reservation and the mark knows.
LEMMA CommitterHas ==
    ASSUME CommitInvariant, NEW h \in Handler,
           hand[h].pc \in {"link", "unlink", "mark", "rmark"}
    PROVE  LET u == hand[h].uid
               a == session[u].asset
           IN  /\ u \in UploadId /\ u # NoUpload /\ a \in Asset
               /\ hand[h].pc \in LockedPc
               /\ hand[h].dev = Owner[a]
               /\ session[u].status = "committing"
               /\ ledger[a].status = "committing" /\ ledger[a].uid = u
               /\ RowOK(a)
<1>1. WorkingOK(h) /\ hand[h].pc \in LockedPc
  BY DEF CommitInvariant, LockedPc
<1>2. hand[h].uid \in UploadId /\ session[hand[h].uid].asset \in Asset
  BY <1>1 DEF WorkingOK, CommitInvariant, TypeOK, Session
<1>3. RowOK(session[hand[h].uid].asset)
  BY <1>2 DEF CommitInvariant
<1> QED
  BY <1>1, <1>2, <1>3, NoUploadAssumption DEF WorkingOK, Pending, HasRow, RowOf, RowOK

\* The first reservation of an identity, or the same one with another path:
\* nothing of the session is stored, so the row may move (ReserveUploadCommit).
LEMMA ReserveStep ==
    ASSUME CommitInvariant, TypeOK', NEW h \in Handler, Reserve(h)
    PROVE  CommitInvariant' /\ final' = final
<1> SUFFICES ASSUME NEW u, u = hand[h].uid, NEW a, a = session[u].asset
             PROVE  CommitInvariant' /\ final' = final
  OBVIOUS
<1>1. /\ hand[h].pc = "reserve" /\ hand[h].pc \in LockedPc /\ u \in UploadId
      /\ a \in Asset /\ WorkingOK(h) /\ hand[h] \in Local
      /\ session[u] \in Session
  BY HandlerHas DEF Reserve, WorkingOK, LockedPc, CommitInvariant, TypeOK, Session
<1>2. /\ hand'[h].pc = "link" /\ hand'[h].uid = u /\ hand'[h].dev = hand[h].dev
      /\ hand'[h].sum = hand[h].sum /\ TargetOf(h)' = TargetOf(h)
      /\ \A g \in Handler : g # h => hand'[g] = hand[g]
  BY <1>1 DEF Reserve, Goto, CommitInvariant, TypeOK, Local, TargetOf
<1>3. /\ session'[u].status = "committing" /\ session'[u].asset = a
      /\ \A w \in UploadId : w # u => session'[w] = session[w]
  BY <1>1 DEF Reserve, CommitInvariant, TypeOK, Session
<1>4. /\ ledger'[a].status = "committing" /\ ledger'[a].uid = u
      /\ ledger'[a].path = TargetOf(h) /\ ledger'[a].sum = hand[h].sum
      /\ \A b \in Asset : b # a => ledger'[b] = ledger[b]
  BY <1>1 DEF Reserve, Reservation, CommitInvariant, TypeOK
<1>5. temp' = temp /\ final' = final
      /\ session[u].status \in {"active", "committing"}
      /\ (ledger[a].status = "none" \/ ledger[a].uid = u)
  BY DEF Reserve, IdentityFree, HasRow, RowOf
<1>6. temp[u] # NoFile /\ temp[u].data = hand[h].sum
      /\ \A f \in final : f.by # u
  BY <1>1 DEF WorkingOK
<1>7. Moves(h)
  BY <1>1, <1>2 DEF Moves, ExclusivePc, Ungated
<1>8. WorksOn(u)
  BY <1>3, <1>4, <1>5 DEF WorksOn
<1>9. Pending(u)' /\ RowOf(u)' = ledger'[a]
  BY <1>3, <1>4 DEF Pending, HasRow, RowOf
<1>10. WorkingOK(h)'
  <2>1. /\ hand'[h].pc = "link" /\ hand'[h].uid = u /\ u \in UploadId
        /\ session'[u].status # "unborn" /\ hand'[h].dev = Owner[session'[u].asset]
    BY <1>1, <1>2, <1>3 DEF WorkingOK, LockedPc
  <2>2. /\ temp'[u] # NoFile /\ temp'[u].data = hand'[h].sum
        /\ \A f \in final' : f.by # u
    BY <1>2, <1>5, <1>6
  <2>3. RowOf(u)'.path = TargetOf(h)' /\ RowOf(u)'.sum = hand'[h].sum
    BY <1>2, <1>4, <1>9
  <2> QED BY <1>9, <2>1, <2>2, <2>3 DEF WorkingOK, LockedPc
<1>11. ASSUME NEW b \in Asset, ledger[b].status = "none" \/ ledger[b].uid = u
       PROVE  RowOK(b)'
  <2>1. CASE b = a
    BY <2>1, <1>1, <1>3, <1>4, <1>5, <1>6 DEF RowOK
  <2>2. CASE b # a
    BY <2>2, <1>1, <1>4, <1>11, RowOfAsset DEF RowOK
  <2> QED BY <2>1, <2>2
<1>12. SessionOK(u)' /\ \A f \in final' : f.by # u
  BY <1>3, <1>5, <1>6, <1>9 DEF SessionOK
<1> QED
  BY <1>1, <1>5, <1>7, <1>8, <1>10, <1>11, <1>12, WorkedMove

\* The link places the reserved bytes at the reserved path: the only step that
\* adds a file made by the agent (finalizeUploadFile).
LEMMA LinkStep ==
    ASSUME CommitInvariant, TypeOK', NEW h \in Handler, LinkFinal(h)
    PROVE  CommitInvariant' /\ final \subseteq final'
<1> SUFFICES ASSUME NEW u, u = hand[h].uid, NEW a, a = session[u].asset
             PROVE  CommitInvariant' /\ final \subseteq final'
  OBVIOUS
<1> SUFFICES ASSUME NEW new,
                    new = [path |-> TargetOf(h), data |-> temp[u].data, by |-> u]
             PROVE  CommitInvariant' /\ final \subseteq final'
  OBVIOUS
<1>1. /\ hand[h].pc = "link" /\ hand[h].pc \in LockedPc /\ u \in UploadId
      /\ u # NoUpload /\ a \in Asset /\ session[u].status = "committing"
      /\ ledger[a].status = "committing" /\ ledger[a].uid = u /\ RowOK(a)
      /\ hand[h].dev = Owner[a]
  BY CommitterHas DEF LinkFinal
<1>2. /\ hand'[h].pc = "unlink" /\ hand'[h].uid = u /\ hand'[h].dev = hand[h].dev
      /\ \A g \in Handler : g # h => hand'[g] = hand[g]
  BY <1>1, HandlerHas DEF LinkFinal, Goto, CommitInvariant, TypeOK, Local
<1>3. /\ session' = session /\ ledger' = ledger /\ temp' = temp
      /\ final' = final \cup {new}
  BY DEF LinkFinal
<1>4. /\ temp[u].data = hand[h].sum /\ \A f \in final : f.by # u
      /\ ledger[a].path = TargetOf(h) /\ ledger[a].sum = hand[h].sum
  BY <1>1, HandlerHas DEF WorkingOK, RowOf
<1>5. new \in final' /\ new.path = ledger[a].path /\ new.data = ledger[a].sum
      /\ new.by = u
  BY <1>3, <1>4
<1>6. Moves(h)
  BY <1>1, <1>2 DEF Moves, ExclusivePc, Ungated
<1>7. WorksOn(u)
  BY <1>3, <1>5 DEF WorksOn
<1>8. /\ Pending(u)' /\ RowOf(u)' = ledger[a] /\ HasRow(u)'
      /\ Stored(ledger[a].path, ledger[a].sum)' /\ FinalOK(u)'
  BY <1>1, <1>3, <1>5 DEF Pending, HasRow, RowOf, FinalOK, Stored
<1>9. WorkingOK(h)'
  BY <1>1, <1>2, <1>3, <1>8 DEF WorkingOK, LockedPc
<1>10. ASSUME NEW b \in Asset, ledger[b].status = "none" \/ ledger[b].uid = u
       PROVE  RowOK(b)'
  <2>1. RowOK(b) /\ final \subseteq final'
    BY <1>3 DEF CommitInvariant
  <2> QED BY <2>1, <1>3 DEF RowOK, Stored
<1>11. SessionOK(u)'
  BY <1>1, <1>3, <1>8 DEF SessionOK
<1>12. \A f \in final' : f.by = u => f = new
  BY <1>3, <1>4
<1>13. FileOK(new)'
  BY <1>1, <1>3, <1>5, <1>8 DEF FileOK
<1> QED
  BY ZenonT(60), <1>1, <1>3, <1>6, <1>7, <1>9, <1>10, <1>11, <1>12, <1>13, WorkedMove

\* The temporary file goes when its bytes are at the reserved path.
LEMMA UnlinkStep ==
    ASSUME CommitInvariant, TypeOK', NEW h \in Handler, UnlinkTemp(h)
    PROVE  CommitInvariant' /\ final' = final
<1> SUFFICES ASSUME NEW u, u = hand[h].uid, NEW a, a = session[u].asset
             PROVE  CommitInvariant' /\ final' = final
  OBVIOUS
<1>1. /\ hand[h].pc = "unlink" /\ hand[h].pc \in LockedPc /\ u \in UploadId
      /\ a \in Asset /\ session[u].status = "committing"
      /\ ledger[a].status = "committing" /\ ledger[a].uid = u
      /\ hand[h].dev = Owner[a]
  BY CommitterHas DEF UnlinkTemp
<1>2. /\ hand'[h].pc = "mark" /\ hand'[h].uid = u /\ hand'[h].dev = hand[h].dev
      /\ \A g \in Handler : g # h => hand'[g] = hand[g]
  BY <1>1, HandlerHas DEF UnlinkTemp, Goto, CommitInvariant, TypeOK, Local
<1>3. /\ session' = session /\ ledger' = ledger /\ final' = final
      /\ \A w \in UploadId : w # u => temp'[w] = temp[w]
  BY DEF UnlinkTemp, CommitInvariant, TypeOK
<1>4. FinalOK(u) /\ Pending(u) /\ Stored(ledger[a].path, ledger[a].sum)
  BY <1>1, HandlerHas DEF WorkingOK, FinalOK, RowOf
<1>5. FinalOK(u)' /\ Pending(u)' /\ Stored(ledger[a].path, ledger[a].sum)'
  BY <1>3, <1>4 DEF FinalOK, Pending, HasRow, RowOf, Stored
<1>6. Moves(h)
  BY <1>1, <1>2 DEF Moves, ExclusivePc, Ungated
<1>7. WorksOn(u)
  BY <1>3 DEF WorksOn
<1>8. WorkingOK(h)'
  BY <1>1, <1>2, <1>3, <1>5 DEF WorkingOK, LockedPc
<1>9. ASSUME NEW b \in Asset, ledger[b].status = "none" \/ ledger[b].uid = u
      PROVE  RowOK(b)'
  <2>1. CASE b = a
    BY <2>1, <1>1, <1>3, <1>5 DEF RowOK
  <2>2. CASE b # a
    BY <2>2, <1>1, <1>3, <1>9, RowOfAsset DEF RowOK
  <2> QED BY <2>1, <2>2
<1>10. SessionOK(u)'
  BY <1>1, <1>3, <1>5 DEF SessionOK
<1>11. \A f \in final' : FileOK(f)'
  BY <1>3 DEF CommitInvariant, FileOK, HasRow, RowOf
<1>12. \A f, g \in final' : f.by = u /\ g.by = u => f = g
  BY <1>1, <1>3, NoUploadAssumption DEF CommitInvariant, PlacedOnce
<1> QED
  BY <1>1, <1>3, <1>6, <1>7, <1>8, <1>9, <1>10, <1>11, <1>12, WorkedMove

\* The row is marked when its file is stored, by the commit or by a recovery.
LEMMA MarkStep ==
    ASSUME CommitInvariant, TypeOK', NEW h \in Handler, Mark(h) \/ RecoverMark(h)
    PROVE  CommitInvariant' /\ final' = final
<1> SUFFICES ASSUME NEW u, u = hand[h].uid, NEW a, a = session[u].asset
             PROVE  CommitInvariant' /\ final' = final
  OBVIOUS
<1>1. /\ hand[h].pc \in {"mark", "rmark"} /\ hand[h].pc \in LockedPc
      /\ u \in UploadId /\ u # NoUpload /\ a \in Asset
      /\ session[u].status = "committing"
      /\ ledger[a].status = "committing" /\ ledger[a].uid = u
      /\ hand[h].dev = Owner[a]
  BY CommitterHas DEF Mark, RecoverMark
<1>2. /\ \/ hand'[h].pc = "idle"
         \/ /\ hand'[h].pc = "rtemp" /\ hand'[h].uid = u
            /\ hand'[h].dev = hand[h].dev
      /\ \A g \in Handler : g # h => hand'[g] = hand[g]
  <2>1. CASE Mark(h)
    BY <2>1, HandlerHas DEF Mark, Return, AtRest
  <2>2. CASE RecoverMark(h)
    BY <2>2, HandlerHas DEF RecoverMark, Goto, CommitInvariant, TypeOK, Local
  <2> QED BY <2>1, <2>2
<1>3. MarkUploaded(u) /\ temp' = temp /\ final' = final
  BY DEF Mark, RecoverMark
<1>4. /\ ledger'[a].status = "uploaded" /\ ledger'[a].uid = u
      /\ ledger'[a].path = ledger[a].path /\ ledger'[a].sum = ledger[a].sum
      /\ \A b \in Asset : b # a => ledger'[b] = ledger[b]
  <2>1. ledger \in [Asset -> Row] /\ a \in Asset /\ ledger[a] \in Row
    BY <1>1 DEF CommitInvariant, TypeOK
  <2>2. ledger' = [ledger EXCEPT ![a].status = "uploaded"]
    BY <1>1, <1>3 DEF MarkUploaded
  <2> QED BY <1>1, <2>1, <2>2 DEF Row
<1>5. /\ session'[u].status = "completed" /\ session'[u].asset = a
      /\ \A w \in UploadId : w # u => session'[w] = session[w]
  BY <1>1, <1>3 DEF MarkUploaded, CommitInvariant, TypeOK, Session
<1>6. Stored(ledger[a].path, ledger[a].sum)
  BY <1>1, HandlerHas DEF WorkingOK, FinalOK, RowOf
<1>7. Moves(h)
  BY <1>1, <1>2 DEF Moves, ExclusivePc, LockedPc, Ungated
<1>8. WorksOn(u)
  BY <1>1, <1>3, <1>4, <1>5 DEF WorksOn
<1>9. WorkingOK(h)'
  BY <1>1, <1>2, <1>5 DEF WorkingOK, LockedPc
<1>10. ASSUME NEW b \in Asset, ledger[b].status = "none" \/ ledger[b].uid = u
       PROVE  RowOK(b)'
  <2>1. CASE b = a
    BY <2>1, <1>1, <1>3, <1>4, <1>5, <1>6 DEF RowOK, Stored
  <2>2. CASE b # a
    BY ZenonT(60), <2>2, <1>1, <1>4, <1>10, RowOfAsset DEF RowOK
  <2> QED BY <2>1, <2>2
<1>11. SessionOK(u)'
  BY <1>5 DEF SessionOK
<1>12. ASSUME NEW f \in final', f.by = u PROVE FileOK(f)'
  BY <1>4, <1>5, <1>12 DEF FileOK, HasRow, RowOf
<1>13. \A f, g \in final' : f.by = u /\ g.by = u => f = g
  BY <1>1, <1>3 DEF CommitInvariant, PlacedOnce
<1> QED
  BY <1>1, <1>3, <1>7, <1>8, <1>9, <1>10, <1>11, <1>12, <1>13, WorkedMove

\* What Return changes.
LEMMA Returned ==
    ASSUME CommitInvariant, NEW h \in Handler, Return(h)
    PROVE  /\ hand'[h].pc = "idle"
           /\ \A g \in Handler : g # h => hand'[g] = hand[g]
BY HandlerHas DEF Return, AtRest

\* Sessions that placed nothing: a new one, and one that is aborted.
LEMMA CreateAndAbortSteps ==
    ASSUME CommitInvariant, TypeOK', NEW h \in Handler, NEW u \in UploadId,
           StartCreate(h, u) \/ AbortSession(h, u)
    PROVE  CommitInvariant' /\ final' = final
<1> USE HandlerHas
<1>1. CASE StartCreate(h, u)
  <2>1. /\ session'[u].status = "active" /\ session[u].status = "unborn"
        /\ \A w \in UploadId : w # u => session'[w] = session[w]
        /\ ledger' = ledger /\ final' = final /\ temp' = temp
    BY <1>1 DEF StartCreate, CommitInvariant, TypeOK
  <2>2. hand'[h].pc = "idle" /\ \A g \in Handler : g # h => hand'[g] = hand[g]
    BY <1>1, Returned DEF StartCreate
  <2>3. Moves(h) /\ WorkingOK(h)'
    BY <2>2, AtRestWorking DEF Moves, LockedPc, Ungated
  <2>4. WorksOn(u)
    BY <2>1 DEF WorksOn
  <2> QED BY <2>1, <2>3, <2>4, UnstoredKeeps
<1>2. CASE AbortSession(h, u)
  <2>1. /\ session[u].status = "active" /\ LockFree(u)
        /\ GateOpen(Owner[session[u].asset])
        /\ session'[u].status = "aborted" /\ session'[u].asset = session[u].asset
        /\ \A w \in UploadId : w # u => session'[w] = session[w]
        /\ ledger' = ledger /\ final' = final /\ temp' = temp
    BY <1>2 DEF AbortSession, Usable, Enter, TakeLock, CommitInvariant, TypeOK,
                 Session
  <2>2. /\ hand'[h].pc = "rtemp" /\ hand'[h].uid = u
        /\ hand'[h].dev = Owner[session[u].asset]
        /\ \A g \in Handler : g # h => hand'[g] = hand[g]
    BY <1>2 DEF AbortSession, Enter, TakeLock, CommitInvariant, TypeOK, Local
  <2>3. Moves(h)
    BY <2>1, <2>2 DEF Moves, ExclusivePc, Ungated
  <2>4. WorkingOK(h)'
    BY <2>1, <2>2 DEF WorkingOK, LockedPc
  <2>5. WorksOn(u)
    BY <2>1 DEF WorksOn
  <2> QED BY <2>1, <2>3, <2>4, <2>5, UnstoredKeeps
<1> QED BY <1>1, <1>2

\* Maintenance deletes a session only without a pending reservation.
LEMMA CleanupStep ==
    ASSUME CommitInvariant, TypeOK', NEW u \in UploadId, CleanupSession(u)
    PROVE  CommitInvariant' /\ final' = final
<1>0. Maintainer \in Handler
  BY DEF Handler
<1>1. /\ session[u].status \in {"active", "completed", "aborted"}
      /\ LockFree(u) /\ GateOpen(Owner[session[u].asset])
      /\ session'[u].status = "gone" /\ session'[u].asset = session[u].asset
      /\ \A w \in UploadId : w # u => session'[w] = session[w]
      /\ ledger' = ledger /\ final' = final /\ temp' = temp
  BY DEF CleanupSession, Eligible, Deleted, Enter, TakeLock, CommitInvariant,
         TypeOK, Session
<1>2. /\ hand'[Maintainer].pc = "rtemp" /\ hand'[Maintainer].uid = u
      /\ hand'[Maintainer].dev = Owner[session[u].asset]
      /\ \A g \in Handler : g # Maintainer => hand'[g] = hand[g]
  BY <1>0, HandlerHas DEF CleanupSession, Enter, TakeLock, CommitInvariant, TypeOK, Local
<1>3. Moves(Maintainer)
  BY <1>1, <1>2 DEF Moves, ExclusivePc, Ungated
<1>4. WorkingOK(Maintainer)'
  BY <1>1, <1>2 DEF WorkingOK, LockedPc
<1>5. WorksOn(u)
  BY <1>1 DEF WorksOn
<1>6. ASSUME NEW a \in Asset, ledger[a].status = "none" \/ ledger[a].uid = u
      PROVE  RowOK(a)'
  <2>1. RowOK(a) /\ ledger'[a] = ledger[a]
    BY <1>1 DEF CommitInvariant
  <2> QED BY <2>1, <1>1, <1>6 DEF RowOK, Stored
<1>7. SessionOK(u)'
  BY <1>1 DEF SessionOK
<1>8. \A f \in final' : f.by = u => FileOK(f)'
  BY <1>1 DEF FileOK
<1>9. \A f, g \in final' : f.by = u /\ g.by = u => f = g
  BY <1>1, NoUploadAssumption DEF CommitInvariant, PlacedOnce
<1> QED
  BY <1>0, <1>1, <1>3, <1>4, <1>5, <1>6, <1>7, <1>8, <1>9, WorkedMove

\* A reset under the exclusive gate: rows and sessions of the range go together.
LEMMA ResetKeeps ==
    ASSUME CommitInvariant, TypeOK', NEW h \in Handler, NEW d \in Device,
           NEW range \in SUBSET Asset, ResetRows(d, range),
           \A g \in Handler : g # h =>
               /\ hand'[g] = hand[g]
               /\ hand[g].pc \in Ungated \/ hand[g].dev # d,
           hand'[h].pc = "rmfiles", hand'[h].dev = d,
           hand'[h].files = InRange(d, range),
           temp' = temp, final' = final
    PROVE  CommitInvariant'
<1>1. \A u \in UploadId :
          /\ session[u].asset \in Asset /\ session'[u].asset = session[u].asset
          /\ u \in InRange(d, range) => session'[u].status = "gone"
          /\ u \notin InRange(d, range) => session'[u] = session[u]
  BY ZenonT(60) DEF ResetRows, Deleted, CommitInvariant, TypeOK, Session
<1>2. \A a \in Asset :
          /\ Owner[a] = d /\ a \in range => ledger'[a].status = "none"
          /\ ~(Owner[a] = d /\ a \in range) => ledger'[a] = ledger[a]
  BY DEF ResetRows, NoRow
<1>3. SessionsLocked' /\ DevicesGated'
  <2>2. "rmfiles" \notin LockedPc /\ Ungated \cap ExclusivePc = {}
    BY DEF LockedPc, ExclusivePc, Ungated
  <2>3. SessionsLocked'
    BY <2>2 DEF CommitInvariant, SessionsLocked
  <2>4. DevicesGated'
    BY <2>2 DEF CommitInvariant, DevicesGated
  <2> QED BY <2>3, <2>4
<1>4. \A a \in Asset : RowOK(a)'
  <2> SUFFICES ASSUME NEW a \in Asset PROVE RowOK(a)'
    OBVIOUS
  <2>1. CASE Owner[a] = d /\ a \in range
    BY <2>1, <1>2 DEF RowOK
  <2>2. CASE ~(Owner[a] = d /\ a \in range)
    <3>1. RowOK(a) /\ ledger'[a] = ledger[a]
      BY <2>2, <1>2 DEF CommitInvariant
    <3>2. ledger[a].status # "none" => session'[ledger[a].uid] = session[ledger[a].uid]
      BY <2>2, <3>1, <1>1 DEF RowOK, InRange
    <3> QED BY <3>1, <3>2 DEF RowOK, Stored
  <2> QED BY <2>1, <2>2
<1>5. ASSUME NEW u \in UploadId, u \notin InRange(d, range),
             session[u].status \notin {"unborn", "gone"}
      PROVE  /\ session'[u] = session[u] /\ RowOf(u)' = RowOf(u)
             /\ HasRow(u)' = HasRow(u) /\ Pending(u)' = Pending(u)
  <2>1. session'[u] = session[u] /\ ledger'[session[u].asset] = ledger[session[u].asset]
    BY <1>1, <1>2, <1>5 DEF InRange
  <2> QED BY <2>1 DEF RowOf, HasRow, Pending
<1>6. \A u \in UploadId : SessionOK(u)'
  BY <1>1, <1>5 DEF CommitInvariant, SessionOK
<1>7. \A f \in final' : FileOK(f)'
  <2> SUFFICES ASSUME NEW f \in final, f.by # NoUpload PROVE FileOK(f)'
    BY DEF FileOK
  <2>1. f.by \in UploadId /\ FileOK(f)
    BY DEF CommitInvariant, TypeOK, File
  <2>2. CASE f.by \in InRange(d, range)
    BY <2>1, <2>2, <1>1 DEF FileOK
  <2>3. CASE f.by \notin InRange(d, range) /\ session[f.by].status # "gone"
    BY <2>1, <2>3, <1>5 DEF FileOK
  <2>4. CASE f.by \notin InRange(d, range) /\ session[f.by].status = "gone"
    BY <2>1, <2>4, <1>1 DEF FileOK
  <2> QED BY <2>2, <2>3, <2>4
<1>8. WorkingOK(h)'
  BY <1>1 DEF WorkingOK, LockedPc, InRange
<1>9. ASSUME NEW g \in Handler, g # h PROVE WorkingOK(g)'
  <2>1. /\ hand'[g] = hand[g] /\ WorkingOK(g) /\ TargetOf(g)' = TargetOf(g)
        /\ hand[g].files \subseteq UploadId
    BY <1>9 DEF CommitInvariant, TypeOK, Local, TargetOf
  <2>2. CASE hand[g].pc = "idle"
    BY <2>1, <2>2, AtRestWorking
  <2>3. CASE hand[g].dev # d
    <3> DEFINE u == hand[g].uid
    <3>1. hand[g].pc \in LockedPc \cup {"recoverWait"} =>
              u \in UploadId /\ u \notin InRange(d, range)
              /\ session'[u] = session[u]
              /\ ledger'[session[u].asset] = ledger[session[u].asset]
      BY <2>1, <2>3, <1>1, <1>2 DEF WorkingOK, InRange
    <3>2. hand[g].pc \in LockedPc =>
              /\ Pending(u) => Pending(u)'
              /\ RowOf(u)' = RowOf(u)
              /\ FinalOK(u) => FinalOK(u)'
      BY <2>1, <3>1 DEF Pending, HasRow, RowOf, FinalOK, Stored
    <3>3. \A v \in UploadId : session[v].status = "gone" => session'[v].status = "gone"
      BY <1>1
    <3> QED
      BY <2>1, <3>1, <3>2, <3>3 DEF WorkingOK, LockedPc
  <2>4. CASE hand[g].pc = "orphan"
    <3>1. /\ hand[g].uid \in UploadId /\ session[hand[g].uid].status = "gone"
          /\ hand[g].dev = Owner[session[hand[g].uid].asset]
      BY <2>1, <2>4 DEF WorkingOK, LockedPc
    <3>2. session'[hand[g].uid] = session[hand[g].uid]
      BY <3>1, <1>1 DEF InRange
    <3> QED BY <2>1, <2>4, <3>1, <3>2 DEF WorkingOK, LockedPc
  <2> QED BY <1>9, <2>2, <2>3, <2>4 DEF Ungated
<1>10. PlacedOnce'
  BY DEF CommitInvariant, PlacedOnce
<1> QED
  BY <1>3, <1>4, <1>6, <1>7, <1>8, <1>9, <1>10 DEF CommitInvariant

\* Under the exclusive gate no handler relies on the rows that a reset deletes.
LEMMA ResetSteps ==
    ASSUME CommitInvariant, TypeOK', NEW h \in Handler,
           \/ \E d \in Device, range \in SUBSET Asset : ResetDevice(h, d, range)
           \/ RevokeReset(h)
    PROVE  CommitInvariant' /\ final' = final
<1> USE HandlerHas
<1>1. ASSUME NEW d \in Device, NEW range \in SUBSET Asset, ResetDevice(h, d, range)
      PROVE  CommitInvariant' /\ final' = final
  <2>1. /\ hand'[h].pc = "rmfiles" /\ hand'[h].dev = d
        /\ hand'[h].files = InRange(d, range)
        /\ \A g \in Handler : g # h => hand'[g] = hand[g]
    BY <1>1 DEF ResetDevice, CommitInvariant, TypeOK, Local
  <2>2. \A g \in Handler : g # h => hand[g].pc \in Ungated \/ hand[g].dev # d
    BY <1>1 DEF ResetDevice, GateFree
  <2>3. ResetRows(d, range) /\ temp' = temp /\ final' = final
    BY <1>1 DEF ResetDevice
  <2>4. CommitInvariant'
    BY <2>1, <2>2, <2>3, ResetKeeps
  <2> QED BY <2>3, <2>4
<1>2. CASE RevokeReset(h)
  <2>1. /\ hand'[h].pc = "rmfiles" /\ hand'[h].dev = hand[h].dev
        /\ hand'[h].files = InRange(hand[h].dev, Asset)
        /\ \A g \in Handler : g # h => hand'[g] = hand[g]
    BY <1>2 DEF RevokeReset, CommitInvariant, TypeOK, Local
  <2>2. \A g \in Handler : g # h =>
            hand[g].pc \in Ungated \/ hand[g].dev # hand[h].dev
    BY <1>2 DEF RevokeReset, CommitInvariant, DevicesGated, ExclusivePc
  <2>3. hand[h].dev \in Device
    BY DEF Local
  <2> QED BY <1>2, <2>1, <2>2, <2>3, ResetKeeps DEF RevokeReset
<1> QED BY <1>1, <1>2

-----------------------------------------------------------------------------
(* The theorems. *)

\* Base case.
LEMMA InitInvariant == Init => CommitInvariant
<1> SUFFICES ASSUME Init PROVE CommitInvariant
  OBVIOUS
<1>1. TypeOK
  BY InitType
<1>2. /\ final = {}
      /\ \A h \in Handler : hand[h].pc = "idle"
      /\ \A a \in Asset : ledger[a].status = "none"
      /\ \A u \in UploadId : session[u].status = "unborn" /\ temp[u] = NoFile
  BY DEF Init, AtRest, NoRow
<1>3. SessionsLocked /\ DevicesGated
  BY <1>2 DEF SessionsLocked, DevicesGated, LockedPc, ExclusivePc
<1>4. \A h \in Handler : WorkingOK(h)
  BY <1>2 DEF WorkingOK, LockedPc
<1>5. (\A a \in Asset : RowOK(a)) /\ \A u \in UploadId : SessionOK(u)
  BY <1>2 DEF RowOK, SessionOK
<1> QED
  BY <1>1, <1>2, <1>3, <1>4, <1>5 DEF CommitInvariant, PlacedOnce

\* Typing of a step; where an action applies EXCEPT or Len to what it reads,
\* the invariant provides the type.
LEMMA StepType == ASSUME CommitInvariant, Next PROVE TypeOK'
<1>1. \A h \in Handler :
          /\ hand[h].pc \in LockedPc => hand[h].uid \in UploadId
          /\ hand[h].pc = "append" =>
                 Len(temp[hand[h].uid].data) = session[hand[h].uid].next + 1
  BY DEF CommitInvariant, WorkingOK
<1>2. TypeOK
  BY DEF CommitInvariant
<1> QED
  BY <1>1, <1>2, ArriveType, HandlerStepType, OtherStepType DEF Next

\* Every step keeps the invariant and every file of the upload root.
LEMMA StepInvariant ==
    ASSUME CommitInvariant, [Next]_vars
    PROVE  CommitInvariant' /\ final \subseteq final'
<1>1. CASE Next
  <2>t. TypeOK'
    BY <1>1, StepType
  <2>1. ASSUME NEW h \in Handler, HandlerStep(h) \/ RecoverLock(h)
        PROVE  CommitInvariant' /\ final \subseteq final'
    <3>1. CASE \/ StartLookup(h) \/ RecoverLock(h) \/ ReserveRefused(h)
               \/ LinkConflict(h) \/ RecoverDecide(h) \/ RemoveTemp(h)
               \/ \E u \in UploadId, removed \in BOOLEAN : RemoveFile(h, u, removed)
               \/ FilesRemoved(h) \/ DeleteProfile(h) \/ Fail(h)
               \/ RemoveOrphan(h)
      <4>1. CommitInvariant'
        BY <2>t, <3>1, QuietHandlerSteps
      <4>2. final' = final
        BY <3>1 DEF StartLookup, RecoverLock, ReserveRefused, LinkConflict,
                    RecoverDecide, RemoveTemp, RemoveFile, FilesRemoved,
                    DeleteProfile, Fail, RemoveOrphan
      <4> QED BY <4>1, <4>2
    <3>2. CASE \E u \in UploadId : StartCreate(h, u)
      BY <2>t, <3>2, CreateAndAbortSteps
    <3>3. CASE AppendCommit(h) \/ AppendUndo(h)
      BY <2>t, <3>3, AppendSteps
    <3>4. CASE Reserve(h)
      BY <2>t, <3>4, ReserveStep
    <3>5. CASE LinkFinal(h)
      BY <2>t, <3>5, LinkStep
    <3>6. CASE UnlinkTemp(h)
      BY <2>t, <3>6, UnlinkStep
    <3>7. CASE Mark(h) \/ RecoverMark(h)
      BY <2>t, <3>7, MarkStep
    <3>8. CASE RevokeReset(h)
      BY <2>t, <3>8, ResetSteps
    <3> QED
      BY <2>1, <3>1, <3>2, <3>3, <3>4, <3>5, <3>6, <3>7, <3>8 DEF HandlerStep
  <2>2. ASSUME NEW h \in Handler, Arrive(h)
        PROVE  CommitInvariant' /\ final \subseteq final'
    <3>1. CASE \/ \E a \in Asset : StartRead(h, a)
               \/ \E u \in UploadId : CompleteBegin(h, u)
               \/ \E d \in Device : RevokeDevice(h, d)
      <4>1. CommitInvariant'
        BY <2>t, <3>1, QuietArrivals
      <4>2. final' = final
        BY <3>1 DEF StartRead, CompleteBegin, RevokeDevice
      <4> QED BY <4>1, <4>2
    <3>2. CASE \E u \in UploadId, c \in Chunk : AppendWrite(h, u, c)
      BY <2>t, <3>2, AppendSteps
    <3>3. CASE \E u \in UploadId : AbortSession(h, u)
      BY <2>t, <3>3, CreateAndAbortSteps
    <3>4. CASE \E d \in Device, range \in SUBSET Asset : ResetDevice(h, d, range)
      BY <2>t, <3>4, ResetSteps
    <3> QED
      BY <2>2, <3>1, <3>2, <3>3, <3>4 DEF Arrive
  <2>3. ASSUME NEW u \in UploadId, Maintenance(u)
        PROVE  CommitInvariant' /\ final \subseteq final'
    <3>1. CASE CleanupSession(u)
      BY <2>t, <3>1, CleanupStep
    <3>2. CASE LookupOrphan(u)
      <4>1. CommitInvariant'
        BY <2>t, <3>2, QuietOtherSteps
      <4> QED BY <4>1, <3>2 DEF LookupOrphan
    <3> QED BY <2>3, <3>1, <3>2 DEF Maintenance
  <2>4. CASE Environment
    <3>1. CommitInvariant'
      BY <2>t, <2>4, QuietOtherSteps
    <3>2. final \subseteq final'
      BY <2>4 DEF Environment, SessionAges, TempAges, UpdatePolicy, ForeignFile,
                  Crash
    <3> QED BY <3>1, <3>2
  <2> QED
    BY <1>1, <2>1, <2>2, <2>3, <2>4 DEF Next
<1>2. CASE UNCHANGED vars
  <2>1. Quiet /\ hand' = hand /\ final' = final
    BY <1>2 DEF vars, Quiet
  <2>2. TypeOK'
    BY <1>2 DEF vars, CommitInvariant, TypeOK
  <2> QED BY <2>1, <2>2, QuietStill
<1> QED BY <1>1, <1>2

\* The inductive invariant, for every number of devices, assets, sessions,
\* chunks, handlers and path attempts (upload_runtime.go, upload_store.go).
THEOREM CommitInvariantHolds == Spec => []CommitInvariant
<1>1. Init => CommitInvariant
  BY InitInvariant
<1>2. CommitInvariant /\ [Next]_vars => CommitInvariant'
  BY StepInvariant
<1> QED BY <1>1, <1>2, PTL DEF Spec

\* Type correctness.
THEOREM TypeCorrect == Spec => []TypeOK
<1>1. CommitInvariant => TypeOK
  BY DEF CommitInvariant
<1> QED BY <1>1, CommitInvariantHolds, PTL

\* A row that answers "uploaded" names a file that holds the recorded bytes.
THEOREM UploadedStored == Spec => []UploadedIsStored
<1>1. CommitInvariant => UploadedIsStored
  BY DEF CommitInvariant, RowOK, UploadedIsStored
<1> QED BY <1>1, CommitInvariantHolds, PTL

\* The last copy of reserved bytes is never lost.
THEOREM ReservationRecoverable == Spec => []CommitRecoverable
<1>1. CommitInvariant => CommitRecoverable
  BY DEF CommitInvariant, RowOK, CommitRecoverable
<1> QED BY <1>1, CommitInvariantHolds, PTL

\* One upload places one file, and one session per identity places any.
THEOREM StoredOnce == Spec => [](PlacedOnce /\ OneUploadPerIdentity)
<1>1. CommitInvariant => PlacedOnce
  BY DEF CommitInvariant
<1>2. CommitInvariant => OneUploadPerIdentity
  BY NoUploadAssumption DEF CommitInvariant, FileOK, OneUploadPerIdentity
<1> QED BY <1>1, <1>2, CommitInvariantHolds, PTL

\* Two sessions for one source identity never store two files for it
\* (commitUpload, committedItemForIdentity).
THEOREM IdentityStoredOnce == Spec => []OneUploadPerIdentity
<1>1. PlacedOnce /\ OneUploadPerIdentity => OneUploadPerIdentity
  OBVIOUS
<1> QED BY <1>1, StoredOnce, PTL

\* No step removes or rewrites a file of the upload root.
THEOREM FinalKept == Spec => FinalNeverChanges
<1>1. CommitInvariant /\ [Next]_vars => [final \subseteq final']_vars
  BY StepInvariant
<1> QED BY <1>1, CommitInvariantHolds, PTL DEF Spec, FinalNeverChanges

-----------------------------------------------------------------------------
(* The ledger and its epochs; the promise of UploadPromise. *)

\* No row becomes uploaded or stops being so.
KeepsRows ==
    /\ \A a \in Asset :
           \/ ledger'[a] = ledger[a]
           \/ ledger[a].status # "uploaded" /\ ledger'[a].status # "uploaded"
    /\ epoch' = epoch
\* One pending row whose bytes are stored becomes uploaded.
AcknowledgesRow ==
    \E a \in Asset :
        /\ ledger[a].status # "uploaded" /\ ledger'[a].status = "uploaded"
        /\ Stored(ledger[a].path, ledger[a].sum)
        /\ ledger'[a].sum = ledger[a].sum
        /\ \A b \in Asset : b # a => ledger'[b] = ledger[b]
        /\ epoch' = epoch /\ final' = final
\* Rows of one device go, with its epoch.
ForgetsRows ==
    \E d \in Device :
        /\ epoch' = [epoch EXCEPT ![d] = @ + 1]
        /\ \A a \in Asset :
               ledger'[a] = ledger[a] \/ (Owner[a] = d /\ ledger'[a].status = "none")
        /\ final' = final

\* Every step leaves the acknowledgements alone, adds one of stored bytes, or
\* withdraws some together with a new epoch.
LEMMA LedgerSteps ==
    ASSUME CommitInvariant, [Next]_vars
    PROVE  KeepsRows \/ AcknowledgesRow \/ ForgetsRows
<1>1. ASSUME NEW h \in Handler, Reserve(h) PROVE KeepsRows
  <2>1. session[hand[h].uid].asset \in Asset
    BY <1>1, HandlerHas
    DEF Reserve, WorkingOK, LockedPc, CommitInvariant, TypeOK, Session
  <2>2. ledger[session[hand[h].uid].asset].status # "uploaded"
    BY <1>1 DEF Reserve, IdentityFree, RowOf
  <2>3. ledger'[session[hand[h].uid].asset].status = "committing"
    BY <1>1, <2>1 DEF Reserve, Reservation, CommitInvariant, TypeOK
  <2>4. \A a \in Asset : a # session[hand[h].uid].asset => ledger'[a] = ledger[a]
    BY <1>1 DEF Reserve, CommitInvariant, TypeOK
  <2>5. epoch' = epoch
    BY <1>1 DEF Reserve
  <2> QED BY <2>2, <2>3, <2>4, <2>5 DEF KeepsRows
<1>2. ASSUME NEW h \in Handler, Mark(h) \/ RecoverMark(h) PROVE AcknowledgesRow
  <2> SUFFICES ASSUME NEW u, u = hand[h].uid, NEW a, a = session[u].asset
               PROVE  AcknowledgesRow
    OBVIOUS
  <2>1. /\ hand[h].pc \in {"mark", "rmark"} /\ a \in Asset
        /\ ledger[a].status = "committing"
    BY <1>2, CommitterHas DEF Mark, RecoverMark
  <2>2. Stored(ledger[a].path, ledger[a].sum)
    BY <2>1, HandlerHas DEF WorkingOK, FinalOK, RowOf
  <2>3. ledger' = [ledger EXCEPT ![a].status = "uploaded"]
        /\ epoch' = epoch /\ final' = final
    BY <1>2 DEF Mark, RecoverMark, MarkUploaded
  <2>4. /\ ledger'[a].status = "uploaded" /\ ledger'[a].sum = ledger[a].sum
        /\ \A b \in Asset : b # a => ledger'[b] = ledger[b]
    BY <2>1, <2>3 DEF CommitInvariant, TypeOK, Row
  <2> QED BY <2>1, <2>2, <2>3, <2>4 DEF AcknowledgesRow
<1>3. ASSUME NEW d \in Device, NEW range \in SUBSET Asset, ResetRows(d, range),
             final' = final
      PROVE  ForgetsRows
  <2>1. \A a \in Asset :
            ledger'[a] = IF Owner[a] = d /\ a \in range THEN NoRow ELSE ledger[a]
    BY <1>3 DEF ResetRows
  <2>2. NoRow.status = "none"
    BY DEF NoRow
  <2>3. \A a \in Asset :
            ledger'[a] = ledger[a] \/ (Owner[a] = d /\ ledger'[a].status = "none")
    BY <2>1, <2>2
  <2> QED BY <1>3, <2>3 DEF ForgetsRows, ResetRows, NewEpoch
<1>4. ASSUME ledger' = ledger, epoch' = epoch PROVE KeepsRows
  BY <1>4 DEF KeepsRows
<1>5. ASSUME NEW h \in Handler, HandlerStep(h) \/ RecoverLock(h)
      PROVE  KeepsRows \/ AcknowledgesRow \/ ForgetsRows
  <2>1. CASE RevokeReset(h)
    <3>1. hand[h].dev \in Device
      BY HandlerHas DEF Local
    <3> QED BY <2>1, <3>1, <1>3 DEF RevokeReset
  <2>2. CASE Reserve(h) \/ Mark(h) \/ RecoverMark(h)
    BY <2>2, <1>1, <1>2
  <2>3. CASE ~(RevokeReset(h) \/ Reserve(h) \/ Mark(h) \/ RecoverMark(h))
    <3>1. ledger' = ledger /\ epoch' = epoch
      BY <1>5, <2>3 DEF HandlerStep, StartLookup, RecoverLock, StartCreate,
         AppendCommit, AppendUndo, ReserveRefused, LinkFinal, LinkConflict,
         UnlinkTemp, RecoverDecide, RemoveTemp, RemoveFile, FilesRemoved,
         DeleteProfile, Fail, RemoveOrphan
    <3> QED BY <3>1, <1>4
  <2> QED BY <2>1, <2>2, <2>3
<1>6. ASSUME NEW h \in Handler, Arrive(h)
      PROVE  KeepsRows \/ ForgetsRows
  <2>1. ASSUME NEW d \in Device, NEW range \in SUBSET Asset,
               ResetDevice(h, d, range)
        PROVE  ForgetsRows
    BY <2>1, <1>3 DEF ResetDevice
  <2>2. CASE ~\E d \in Device, range \in SUBSET Asset : ResetDevice(h, d, range)
    <3>1. ledger' = ledger /\ epoch' = epoch
      BY <1>6, <2>2 DEF Arrive, StartRead, AppendWrite, CompleteBegin,
         AbortSession, RevokeDevice
    <3> QED BY <3>1, <1>4
  <2> QED BY <2>1, <2>2
<1>7. ASSUME NEW u \in UploadId, Maintenance(u) PROVE KeepsRows
  BY <1>7, <1>4 DEF Maintenance, CleanupSession, LookupOrphan
<1>8. CASE Environment
  <2>1. ledger' = ledger /\ epoch' = epoch
    BY <1>8 DEF Environment, SessionAges, TempAges, UpdatePolicy, ForeignFile,
                Crash
  <2> QED BY <2>1, <1>4
<1>9. CASE UNCHANGED vars
  BY <1>9, <1>4 DEF vars
<1> QED
  BY <1>5, <1>6, <1>7, <1>8, <1>9 DEF Next

\* Evidence of an upload goes only with a new epoch (CheckUploaded,
\* ResetDeviceUploadState).
THEOREM EvidenceKept == Spec => EvidenceNeedsNewEpoch
<1> DEFINE Kept == \A a \in Asset :
               ledger[a].status = "uploaded" /\ epoch'[Owner[a]] = epoch[Owner[a]]
                   => ledger'[a] = ledger[a]
<1>1. CommitInvariant /\ [Next]_vars => [Kept]_vars
  <2> SUFFICES ASSUME CommitInvariant, [Next]_vars, NEW a \in Asset,
                      ledger[a].status = "uploaded",
                      epoch'[Owner[a]] = epoch[Owner[a]]
               PROVE  ledger'[a] = ledger[a]
    OBVIOUS
  <2>1. CASE KeepsRows \/ AcknowledgesRow
    BY <2>1 DEF KeepsRows, AcknowledgesRow
  <2>2. CASE ForgetsRows
    <3>1. PICK d \in Device :
              /\ epoch' = [epoch EXCEPT ![d] = @ + 1]
              /\ ledger'[a] = ledger[a] \/ Owner[a] = d
      BY <2>2 DEF ForgetsRows
    <3>2. epoch'[d] # epoch[d]
      BY <3>1 DEF CommitInvariant, TypeOK
    <3> QED BY <3>1, <3>2
  <2> QED BY <2>1, <2>2, LedgerSteps
<1> QED
  BY <1>1, CommitInvariantHolds, PTL DEF Spec, EvidenceNeedsNewEpoch

\* The protocol of sessions, reservations, links and recoveries implements the
\* promise of UploadPromise.
THEOREM PromiseKept == Spec => KeepsPromise
<1>1. Init => Promise!Init
  BY DEF Init, NoRow, Promise!Init, Library, Acked
<1>2. CommitInvariant /\ [Next]_vars => [Promise!Next]_Promise!vars
  <2> SUFFICES ASSUME CommitInvariant, [Next]_vars
               PROVE  Promise!Next
    OBVIOUS
  <2>1. Library \subseteq Library'
    BY StepInvariant DEF Library
  <2>2. CASE KeepsRows
    <3>1. Acked' = Acked /\ epoch' = epoch
      BY <2>2 DEF KeepsRows, Acked
    <3> QED BY <2>1, <3>1 DEF Promise!Next, Promise!Store
  <2>3. CASE AcknowledgesRow
    <3>1. PICK a \in Asset :
        /\ ledger[a].status # "uploaded" /\ ledger'[a].status = "uploaded"
        /\ Stored(ledger[a].path, ledger[a].sum)
        /\ ledger'[a].sum = ledger[a].sum
        /\ \A b \in Asset : b # a => ledger'[b] = ledger[b]
        /\ epoch' = epoch /\ final' = final
      BY <2>3 DEF AcknowledgesRow
    <3>2. Acked[a] = NoFile /\ Acked' = [Acked EXCEPT ![a] = ledger[a].sum]
      BY <3>1 DEF Acked
    <3>3. ledger[a].sum \in Library /\ Library' = Library
      BY <3>1 DEF Library, Stored
    <3> QED BY <3>1, <3>2, <3>3 DEF Promise!Next, Promise!Acknowledge
  <2>4. CASE ForgetsRows
    <3>1. PICK d \in Device :
        /\ epoch' = [epoch EXCEPT ![d] = @ + 1]
        /\ \A a \in Asset :
               ledger'[a] = ledger[a] \/ (Owner[a] = d /\ ledger'[a].status = "none")
        /\ final' = final
      BY <2>4 DEF ForgetsRows
    <3>2. Library' = Library /\ DOMAIN Acked' = Asset
      BY <3>1 DEF Library, Acked
    <3>3. \A a \in Asset : Acked'[a] # Acked[a] =>
              Owner[a] = d /\ Acked'[a] = NoFile
      BY <3>1 DEF Acked
    <3> QED BY <3>1, <3>2, <3>3 DEF Promise!Next, Promise!Forget
  <2> QED BY <2>2, <2>3, <2>4, LedgerSteps
<1> QED
  BY <1>1, <1>2, CommitInvariantHolds, PTL DEF Spec, KeepsPromise, Promise!Spec

-----------------------------------------------------------------------------
(* What single steps may do to sessions, rows and temporary files, and the *)
(* theorems that need it: only confirmed bytes are committed, a live       *)
(* temporary file is kept, and nothing of a revoked device comes back.     *)

\* The temporary file of a reservation still holds the reserved bytes.
TempMatches(u) ==
    session[u].status = "committing" /\ temp[u] # NoFile
        => temp[u].data = RowOf(u).sum

\* A handler about to reserve read bytes of the confirmed, complete length.
ConfirmedAt(h) ==
    LET u == hand[h].uid IN
    hand[h].pc = "reserve" =>
        /\ Len(hand[h].sum) = session[u].next
        /\ session[u].next = Size[session[u].asset]

\* A handler about to unlink placed the file.
PlacedAt(h) ==
    hand[h].pc = "unlink" => \E f \in final : f.by = hand[h].uid

\* A handler about to create a session works for a device of the registry.
PairedAt(h) ==
    hand[h].pc \in {"startLookup", "startCreate"} =>
        /\ Owner[hand[h].asset] = hand[h].dev
        /\ hand[h].dev \in paired

\* CommitInvariant does not say where the bytes of a reservation came from, nor
\* that a device stays in the registry while a session is being created.
ProvenanceInvariant ==
    /\ CommitInvariant
    /\ OnlyConfirmedCommitted
    /\ \A u \in UploadId : TempMatches(u)
    /\ \A h \in Handler : ConfirmedAt(h) /\ PlacedAt(h) /\ PairedAt(h)

-----------------------------------------------------------------------------
(* What a step may change. *)

\* A session keeps its asset; its offset moves only with a confirmed chunk or
\* with its deletion; it is born in StartCreate and dies for ever.
SessionMoves(u) ==
    /\ session[u].status = "unborn" =>
           session'[u] = session[u] \/ \E h \in Handler : StartCreate(h, u)
    /\ session[u].status = "gone" => session'[u].status = "gone"
    /\ session[u].status # "unborn" =>
           /\ session'[u].asset = session[u].asset
           /\ \/ session'[u].status = "gone"
              \/ session'[u].next = session[u].next
              \/ \E h \in Handler : AppendCommit(h) /\ hand[h].uid = u

\* One session is updated in place.
LEMMA UpdatedMoves ==
    ASSUME CommitInvariant, NEW v \in UploadId, NEW r,
           session' = [session EXCEPT ![v] = r],
           r.asset = session[v].asset,
           r.status = "gone" \/ r.next = session[v].next,
           session[v].status \notin {"unborn", "gone"}
    PROVE  \A u \in UploadId : SessionMoves(u)
BY DEF SessionMoves, CommitInvariant, TypeOK

\* Every step moves the sessions in that way only.
LEMMA SessionSteps ==
    ASSUME CommitInvariant, [Next]_vars
    PROVE  \A u \in UploadId : SessionMoves(u)
<1>0. ASSUME session' = session PROVE \A u \in UploadId : SessionMoves(u)
  BY <1>0 DEF SessionMoves
<1>1. ASSUME NEW h \in Handler, NEW v \in UploadId, StartCreate(h, v)
      PROVE  \A u \in UploadId : SessionMoves(u)
  BY <1>1 DEF StartCreate, SessionMoves, CommitInvariant, TypeOK
<1>2. ASSUME NEW h \in Handler, AppendCommit(h)
      PROVE  \A u \in UploadId : SessionMoves(u)
  <2>1. /\ hand[h].uid \in UploadId /\ session[hand[h].uid] \in Session
        /\ session[hand[h].uid].status = "active"
    BY <1>2, HandlerHas DEF AppendCommit, WorkingOK, LockedPc, CommitInvariant, TypeOK
  <2>2. session'[hand[h].uid].asset = session[hand[h].uid].asset
        /\ \A u \in UploadId : u # hand[h].uid => session'[u] = session[u]
    BY <1>2, <2>1 DEF AppendCommit, CommitInvariant, TypeOK, Session
  <2> QED BY <1>2, <2>1, <2>2 DEF SessionMoves
<1>3. ASSUME NEW h \in Handler, Reserve(h)
      PROVE  \A u \in UploadId : SessionMoves(u)
  <2>1. hand[h].uid \in UploadId
    BY <1>3, HandlerHas DEF Reserve, WorkingOK, LockedPc
  <2>2. session' = [session EXCEPT ![hand[h].uid] =
                        [session[hand[h].uid] EXCEPT !.status = "committing"]]
    BY <1>3 DEF Reserve
  <2>3. session[hand[h].uid].status \notin {"unborn", "gone"}
    BY <1>3 DEF Reserve
  <2>4. session[hand[h].uid] \in Session
    BY <2>1 DEF CommitInvariant, TypeOK
  <2>5. \A r \in Session : [r EXCEPT !.status = "committing"].asset = r.asset
                           /\ [r EXCEPT !.status = "committing"].next = r.next
    BY DEF Session
  <2> QED BY <2>1, <2>2, <2>3, <2>4, <2>5, UpdatedMoves
<1>4. ASSUME NEW h \in Handler, Mark(h) \/ RecoverMark(h)
      PROVE  \A u \in UploadId : SessionMoves(u)
  <2>1. hand[h].uid \in UploadId /\ session[hand[h].uid].status = "committing"
    BY <1>4, CommitterHas DEF Mark, RecoverMark
  <2>2. session' = [session EXCEPT ![hand[h].uid] =
            [session[hand[h].uid] EXCEPT !.status = "completed", !.aged = FALSE]]
    BY <1>4 DEF Mark, RecoverMark, MarkUploaded
  <2>3. session[hand[h].uid] \in Session
    BY <2>1 DEF CommitInvariant, TypeOK
  <2>4. \A r \in Session :
            LET new == [r EXCEPT !.status = "completed", !.aged = FALSE]
            IN  new.asset = r.asset /\ new.next = r.next
    BY DEF Session
  <2> QED BY <2>1, <2>2, <2>3, <2>4, UpdatedMoves
<1>5. ASSUME NEW h, NEW v \in UploadId, AbortSession(h, v)
      PROVE  \A u \in UploadId : SessionMoves(u)
  <2>1. session' = [session EXCEPT ![v] =
            [session[v] EXCEPT !.status = "aborted", !.aged = FALSE]]
        /\ session[v].status = "active"
    BY <1>5 DEF AbortSession, Usable
  <2> QED BY <2>1, UpdatedMoves DEF CommitInvariant, TypeOK, Session
<1>6. ASSUME NEW v \in UploadId, CleanupSession(v)
      PROVE  \A u \in UploadId : SessionMoves(u)
  <2>1. session' = [session EXCEPT ![v] =
            [session[v] EXCEPT !.status = "gone", !.next = 0, !.aged = FALSE]]
        /\ session[v].status \in {"active", "completed", "aborted"}
    BY <1>6 DEF CleanupSession, Eligible, Deleted
  <2> QED BY <2>1, UpdatedMoves DEF CommitInvariant, TypeOK, Session
<1>7. ASSUME NEW v \in UploadId, SessionAges(v)
      PROVE  \A u \in UploadId : SessionMoves(u)
  <2>1. session' = [session EXCEPT ![v] = [session[v] EXCEPT !.aged = TRUE]]
        /\ session[v].status \in {"active", "completed", "aborted"}
    BY <1>7 DEF SessionAges
  <2> QED BY <2>1, UpdatedMoves DEF CommitInvariant, TypeOK, Session
<1>8. ASSUME NEW d, NEW range, ResetRows(d, range)
      PROVE  \A u \in UploadId : SessionMoves(u)
  <2>1. \A u \in UploadId :
            /\ u \notin InRange(d, range) => session'[u] = session[u]
            /\ u \in InRange(d, range) =>
                   /\ session'[u].status = "gone"
                   /\ session'[u].asset = session[u].asset
                   /\ session[u].status # "unborn"
    BY ZenonT(60), <1>8 DEF ResetRows, Deleted, InRange, CommitInvariant, TypeOK, Session
  <2> QED BY <2>1 DEF SessionMoves
<1>9. ASSUME NEW h \in Handler, HandlerStep(h) \/ RecoverLock(h)
      PROVE  \A u \in UploadId : SessionMoves(u)
  <2>1. CASE \/ \E u \in UploadId : StartCreate(h, u)
             \/ AppendCommit(h) \/ Reserve(h) \/ Mark(h) \/ RecoverMark(h)
    BY <2>1, <1>1, <1>2, <1>3, <1>4
  <2>2. CASE RevokeReset(h)
    BY <2>2, <1>8 DEF RevokeReset
  <2>3. CASE ~(\/ \E u \in UploadId : StartCreate(h, u)
               \/ AppendCommit(h) \/ Reserve(h) \/ Mark(h) \/ RecoverMark(h)
               \/ RevokeReset(h))
    <3>1. session' = session
      BY <1>9, <2>3 DEF HandlerStep, StartLookup, RecoverLock, AppendUndo,
         ReserveRefused, LinkFinal, LinkConflict, UnlinkTemp, RecoverDecide,
         RemoveTemp, RemoveFile, FilesRemoved, DeleteProfile, Fail, RemoveOrphan
    <3> QED BY <3>1, <1>0
  <2> QED BY <2>1, <2>2, <2>3
<1>10. ASSUME NEW h \in Handler, Arrive(h)
       PROVE  \A u \in UploadId : SessionMoves(u)
  <2>1. CASE \E u \in UploadId : AbortSession(h, u)
    BY <2>1, <1>5
  <2>2. CASE \E d \in Device, range \in SUBSET Asset : ResetDevice(h, d, range)
    BY <2>2, <1>8 DEF ResetDevice
  <2>3. CASE ~(\/ \E u \in UploadId : AbortSession(h, u)
               \/ \E d \in Device, range \in SUBSET Asset : ResetDevice(h, d, range))
    <3>1. session' = session
      BY <1>10, <2>3 DEF Arrive, StartRead, AppendWrite, CompleteBegin, RevokeDevice
    <3> QED BY <3>1, <1>0
  <2> QED BY <2>1, <2>2, <2>3
<1>11. ASSUME NEW v \in UploadId, Maintenance(v)
       PROVE  \A u \in UploadId : SessionMoves(u)
  BY <1>11, <1>0, <1>6 DEF Maintenance, LookupOrphan
<1>12. CASE Environment
  <2>1. CASE \E u \in UploadId : SessionAges(u)
    BY <2>1, <1>7
  <2>2. CASE ~\E u \in UploadId : SessionAges(u)
    <3>1. session' = session
      BY <1>12, <2>2 DEF Environment, TempAges, UpdatePolicy, ForeignFile, Crash
    <3> QED BY <3>1, <1>0
  <2> QED BY <2>1, <2>2
<1>13. CASE UNCHANGED vars
  BY <1>13, <1>0 DEF vars
<1> QED
  BY <1>9, <1>10, <1>11, <1>12, <1>13 DEF Next

\* A row appears, or gets other bytes, only in Reserve; MarkUploaded keeps them.
RowMoves(a) ==
    \/ ledger'[a] = ledger[a]
    \/ ledger'[a].status = "none"
    \/ /\ ledger[a].status = "committing" /\ ledger'[a].status = "uploaded"
       /\ ledger'[a].uid = ledger[a].uid /\ ledger'[a].sum = ledger[a].sum
    \/ \E h \in Handler :
           /\ Reserve(h)
           /\ session[hand[h].uid].asset = a
           /\ ledger'[a].uid = hand[h].uid /\ ledger'[a].sum = hand[h].sum

\* Every step moves the rows of the ledger in that way only.
LEMMA RowSteps ==
    ASSUME CommitInvariant, [Next]_vars
    PROVE  \A a \in Asset : RowMoves(a)
<1>0. ASSUME ledger' = ledger PROVE \A a \in Asset : RowMoves(a)
  BY <1>0 DEF RowMoves
<1>1. ASSUME NEW h \in Handler, Reserve(h) PROVE \A a \in Asset : RowMoves(a)
  BY <1>1 DEF Reserve, Reservation, RowMoves, CommitInvariant, TypeOK
<1>2. ASSUME NEW h \in Handler, Mark(h) \/ RecoverMark(h)
      PROVE  \A a \in Asset : RowMoves(a)
  <2> SUFFICES ASSUME NEW b, b = session[hand[h].uid].asset
               PROVE  \A a \in Asset : RowMoves(a)
    OBVIOUS
  <2>1. b \in Asset /\ ledger[b].status = "committing"
    BY <1>2, CommitterHas DEF Mark, RecoverMark
  <2>2. ledger \in [Asset -> Row] /\ ledger' = [ledger EXCEPT ![b].status = "uploaded"]
    BY <1>2 DEF Mark, RecoverMark, MarkUploaded, CommitInvariant, TypeOK
  <2>3. /\ ledger'[b].status = "uploaded" /\ ledger'[b].uid = ledger[b].uid
        /\ ledger'[b].sum = ledger[b].sum
        /\ \A a \in Asset : a # b => ledger'[a] = ledger[a]
    BY <2>1, <2>2 DEF Row
  <2> QED BY <2>1, <2>3 DEF RowMoves
<1>3. ASSUME NEW d, NEW range, ResetRows(d, range)
      PROVE  \A a \in Asset : RowMoves(a)
  BY <1>3 DEF ResetRows, NoRow, RowMoves
<1>4. ASSUME NEW h \in Handler, HandlerStep(h) \/ RecoverLock(h)
      PROVE  \A a \in Asset : RowMoves(a)
  <2>1. CASE RevokeReset(h)
    BY <2>1, <1>3 DEF RevokeReset
  <2>2. CASE Reserve(h) \/ Mark(h) \/ RecoverMark(h)
    BY <2>2, <1>1, <1>2
  <2>3. CASE ~(RevokeReset(h) \/ Reserve(h) \/ Mark(h) \/ RecoverMark(h))
    <3>1. ledger' = ledger
      BY <1>4, <2>3 DEF HandlerStep, StartLookup, RecoverLock, StartCreate,
         AppendCommit, AppendUndo, ReserveRefused, LinkFinal, LinkConflict,
         UnlinkTemp, RecoverDecide, RemoveTemp, RemoveFile, FilesRemoved,
         DeleteProfile, Fail, RemoveOrphan
    <3> QED BY <3>1, <1>0
  <2> QED BY <2>1, <2>2, <2>3
<1>5. ASSUME NEW h \in Handler, Arrive(h) PROVE \A a \in Asset : RowMoves(a)
  <2>1. CASE \E d \in Device, range \in SUBSET Asset : ResetDevice(h, d, range)
    BY <2>1, <1>3 DEF ResetDevice
  <2>2. CASE ~\E d \in Device, range \in SUBSET Asset : ResetDevice(h, d, range)
    <3>1. ledger' = ledger
      BY <1>5, <2>2 DEF Arrive, StartRead, AppendWrite, CompleteBegin,
         AbortSession, RevokeDevice
    <3> QED BY <3>1, <1>0
  <2> QED BY <2>1, <2>2
<1>6. ASSUME NEW u \in UploadId, Maintenance(u) PROVE \A a \in Asset : RowMoves(a)
  BY <1>6, <1>0 DEF Maintenance, CleanupSession, LookupOrphan
<1>7. CASE Environment
  <2>1. ledger' = ledger
    BY <1>7 DEF Environment, SessionAges, TempAges, UpdatePolicy, ForeignFile, Crash
  <2> QED BY <2>1, <1>0
<1>8. CASE UNCHANGED vars
  BY <1>8, <1>0 DEF vars
<1> QED
  BY <1>4, <1>5, <1>6, <1>7, <1>8 DEF Next

\* The temporary file of a reservation keeps its bytes; that of a live session
\* goes only in UnlinkTemp.
TempMoves(u) ==
    /\ session[u].status = "committing" /\ temp'[u] # NoFile =>
           temp[u] # NoFile /\ temp'[u].data = temp[u].data
    /\ temp[u] # NoFile /\ temp'[u] = NoFile =>
           \/ session'[u].status \notin {"active", "committing"}
           \/ \E h \in Handler : UnlinkTemp(h) /\ hand[h].uid = u

\* A chunk is appended or cut off.
LEMMA WrittenMoves ==
    ASSUME CommitInvariant, NEW v \in UploadId, session[v].status = "active",
           NEW data \in Seq(Chunk),
           temp' = [temp EXCEPT ![v] = [data |-> data, old |-> FALSE]]
    PROVE  \A u \in UploadId : TempMoves(u)
<1>1. [data |-> data, old |-> FALSE] # NoFile
  <2>1. [data |-> data, old |-> FALSE] \in [data : Seq(Chunk), old : BOOLEAN]
    OBVIOUS
  <2> QED BY <2>1, NoFileAssumption
<1>2. temp'[v] # NoFile /\ \A u \in UploadId : u # v => temp'[u] = temp[u]
  BY <1>1 DEF CommitInvariant, TypeOK
<1> QED BY <1>2 DEF TempMoves

\* A file goes.
LEMMA RemovedMoves ==
    ASSUME CommitInvariant, NEW v \in UploadId,
           temp' = [temp EXCEPT ![v] = NoFile],
           \/ session'[v].status \notin {"active", "committing"}
           \/ \E h \in Handler : UnlinkTemp(h) /\ hand[h].uid = v
    PROVE  \A u \in UploadId : TempMoves(u)
<1>1. temp'[v] = NoFile /\ \A u \in UploadId : u # v => temp'[u] = temp[u]
  BY DEF CommitInvariant, TypeOK
<1> QED BY <1>1 DEF TempMoves

\* Every step moves the temporary files in that way only.
LEMMA TempSteps ==
    ASSUME CommitInvariant, [Next]_vars
    PROVE  \A u \in UploadId : TempMoves(u)
<1>0. ASSUME temp' = temp PROVE \A u \in UploadId : TempMoves(u)
  BY <1>0 DEF TempMoves
<1>1. ASSUME NEW h \in Handler, NEW v \in UploadId, NEW c \in Chunk,
             AppendWrite(h, v, c)
      PROVE  \A u \in UploadId : TempMoves(u)
  <2>1. session[v].status = "active"
        /\ temp' = [temp EXCEPT ![v] =
                        [data |-> Append(TempData(v), c), old |-> FALSE]]
    BY <1>1 DEF AppendWrite, Usable
  <2>2. TempData(v) \in Seq(Chunk)
    BY DEF TempData, CommitInvariant, TypeOK, Temp
  <2>3. Append(TempData(v), c) \in Seq(Chunk)
    BY <2>2
  <2> QED BY <2>1, <2>3, WrittenMoves
<1>2. ASSUME NEW h \in Handler, AppendUndo(h)
      PROVE  \A u \in UploadId : TempMoves(u)
  <2> DEFINE v == hand[h].uid
  <2>a. hand[h].pc = "append" /\ WorkingOK(h)
    BY <1>2, HandlerHas DEF AppendUndo
  <2>b. /\ v \in UploadId /\ session[v].status = "active"
        /\ temp[v] # NoFile /\ Len(temp[v].data) = session[v].next + 1
    BY <2>a DEF WorkingOK, LockedPc
  <2>1. /\ v \in UploadId /\ session[v].status = "active"
        /\ temp[v] # NoFile /\ Len(temp[v].data) = session[v].next + 1
        /\ session[v] \in Session /\ temp[v] \in Temp
    BY <2>b DEF CommitInvariant, TypeOK
  <2>2. temp[v].data \in Seq(Chunk) /\ session[v].next \in Nat
        /\ session[v].next <= Len(temp[v].data)
    BY <2>1 DEF Temp, Session
  <2>3. SubSeq(temp[v].data, 1, session[v].next) \in Seq(Chunk)
    BY <2>2
  <2>4. temp' = [temp EXCEPT ![v] =
            [data |-> SubSeq(temp[v].data, 1, session[v].next), old |-> FALSE]]
    BY <1>2, <2>1 DEF AppendUndo, TempData
  <2> HIDE DEF v
  <2> QED BY <2>1, <2>3, <2>4, WrittenMoves
<1>3. ASSUME NEW h \in Handler, UnlinkTemp(h) \/ RemoveTemp(h)
      PROVE  \A u \in UploadId : TempMoves(u)
  <2>1. hand[h].uid \in UploadId
        /\ temp' = [temp EXCEPT ![hand[h].uid] = NoFile]
    BY <1>3, HandlerHas DEF UnlinkTemp, RemoveTemp, WorkingOK, LockedPc
  <2>2. RemoveTemp(h) =>
            session'[hand[h].uid].status \notin {"active", "committing"}
    BY HandlerHas DEF RemoveTemp, WorkingOK
  <2> QED BY <1>3, <2>1, <2>2, RemovedMoves
<1>4. ASSUME NEW h \in Handler, NEW v \in UploadId, NEW removed \in BOOLEAN,
             RemoveFile(h, v, removed)
      PROVE  \A u \in UploadId : TempMoves(u)
  <2>1. session'[v].status \notin {"active", "committing"}
    BY <1>4, HandlerHas DEF RemoveFile, WorkingOK
  <2>2. temp' = temp \/ temp' = [temp EXCEPT ![v] = NoFile]
    BY <1>4 DEF RemoveFile
  <2> QED BY <1>0, <2>1, <2>2, RemovedMoves
<1>5. ASSUME NEW h \in Handler, RemoveOrphan(h)
      PROVE  \A u \in UploadId : TempMoves(u)
  <2>1. /\ hand[h].uid \in UploadId
        /\ session'[hand[h].uid].status \notin {"active", "committing"}
    BY <1>5, HandlerHas DEF RemoveOrphan, WorkingOK, LockedPc
  <2>2. temp' = temp \/ temp' = [temp EXCEPT ![hand[h].uid] = NoFile]
    BY <1>5 DEF RemoveOrphan
  <2> QED BY <1>0, <2>1, <2>2, RemovedMoves
<1>6. ASSUME NEW v \in UploadId, TempAges(v)
      PROVE  \A u \in UploadId : TempMoves(u)
  <2>1. temp[v] \in Temp
    BY <1>6 DEF TempAges, CommitInvariant, TypeOK
  <2>2. [temp[v] EXCEPT !.old = TRUE] # NoFile
        /\ [temp[v] EXCEPT !.old = TRUE].data = temp[v].data
    BY <2>1, NoFileAssumption DEF Temp
  <2> QED BY <1>6, <2>2 DEF TempAges, TempMoves, CommitInvariant, TypeOK
<1>7. ASSUME NEW h \in Handler, HandlerStep(h) \/ RecoverLock(h)
      PROVE  \A u \in UploadId : TempMoves(u)
  <2>1. CASE \/ AppendUndo(h) \/ UnlinkTemp(h) \/ RemoveTemp(h)
             \/ RemoveOrphan(h)
             \/ \E u \in UploadId, removed \in BOOLEAN : RemoveFile(h, u, removed)
    BY <2>1, <1>2, <1>3, <1>4, <1>5
  <2>2. CASE ~(\/ AppendUndo(h) \/ UnlinkTemp(h) \/ RemoveTemp(h)
               \/ RemoveOrphan(h)
               \/ \E u \in UploadId, removed \in BOOLEAN : RemoveFile(h, u, removed))
    <3>1. temp' = temp
      BY <1>7, <2>2 DEF HandlerStep, StartLookup, RecoverLock, StartCreate,
         AppendCommit, Reserve, ReserveRefused, LinkFinal, LinkConflict, Mark,
         RecoverDecide, RecoverMark, RevokeReset, FilesRemoved, DeleteProfile, Fail
    <3> QED BY <3>1, <1>0
  <2> QED BY <2>1, <2>2
<1>8. ASSUME NEW h \in Handler, Arrive(h) PROVE \A u \in UploadId : TempMoves(u)
  <2>1. CASE \E u \in UploadId, c \in Chunk : AppendWrite(h, u, c)
    BY <2>1, <1>1
  <2>2. CASE ~\E u \in UploadId, c \in Chunk : AppendWrite(h, u, c)
    <3>1. temp' = temp
      BY <1>8, <2>2 DEF Arrive, StartRead, CompleteBegin, AbortSession,
         ResetDevice, RevokeDevice
    <3> QED BY <3>1, <1>0
  <2> QED BY <2>1, <2>2
<1>9. ASSUME NEW v \in UploadId, Maintenance(v)
      PROVE  \A u \in UploadId : TempMoves(u)
  BY <1>9, <1>0 DEF Maintenance, CleanupSession, LookupOrphan
<1>10. CASE Environment
  <2>1. CASE \E u \in UploadId : TempAges(u)
    BY <2>1, <1>6
  <2>2. CASE ~\E u \in UploadId : TempAges(u)
    <3>1. temp' = temp
      BY <1>10, <2>2 DEF Environment, SessionAges, UpdatePolicy, ForeignFile, Crash
    <3> QED BY <3>1, <1>0
  <2> QED BY <2>1, <2>2
<1>11. CASE UNCHANGED vars
  BY <1>11, <1>0 DEF vars
<1> QED
  BY <1>7, <1>8, <1>9, <1>10, <1>11 DEF Next

-----------------------------------------------------------------------------
(* How a handler gets to the counters the invariant speaks of. *)

Watched == {"reserve", "unlink", "startLookup", "startCreate"}

\* To a reservation: with the bytes it verified, or with those of its own
\* pending row.
GetsToReserve(g) ==
    LET u == hand'[g].uid IN
    /\ hand'[g].pc = "reserve" /\ u \in UploadId
    /\ session' = session /\ ledger' = ledger
    /\ \/ Verified(u) /\ hand'[g].sum = temp[u].data
       \/ /\ HasRow(u) /\ hand'[g].sum = RowOf(u).sum
          /\ session[u].status # "gone"
GetsToUnlink(g) ==
    hand'[g].pc = "unlink" /\ \E f \in final' : f.by = hand'[g].uid
GetsToStart(g) ==
    /\ hand'[g].pc \in {"startLookup", "startCreate"} /\ paired' = paired
    /\ \/ Owner[hand'[g].asset] = hand'[g].dev /\ hand'[g].dev \in paired
       \/ /\ hand[g].pc = "startLookup"
          /\ hand'[g].asset = hand[g].asset /\ hand'[g].dev = hand[g].dev

HandMoves(g) ==
    \/ hand'[g] = hand[g]
    \/ hand'[g].pc \notin Watched
    \/ GetsToReserve(g)
    \/ GetsToUnlink(g)
    \/ GetsToStart(g)

\* One handler moves, to a counter the invariant is silent about.
Aside(h) ==
    /\ hand'[h].pc \notin Watched
    /\ \A g \in Handler : g # h => hand'[g] = hand[g]

\* A handler that answers.
LEMMA ReturnAside ==
    ASSUME CommitInvariant, NEW h \in Handler, Return(h)
    PROVE  Aside(h)
BY Returned DEF Aside, Watched

\* A handler that goes to a counter the invariant is silent about.
LEMMA GotoAside ==
    ASSUME CommitInvariant, NEW h \in Handler, NEW pc, pc \notin Watched, Goto(h, pc)
    PROVE  Aside(h)
<1>1. [hand[h] EXCEPT !.pc = pc].pc = pc
  BY HandlerHas DEF Local
<1>2. hand' = [hand EXCEPT ![h] = [hand[h] EXCEPT !.pc = pc]]
  BY DEF Goto
<1>3. hand'[h].pc = pc /\ \A g \in Handler : g # h => hand'[g] = hand[g]
  BY <1>1, <1>2, HandlerHas
<1> QED BY <1>3 DEF Aside

\* A handler that takes the lock of a session there, with or without a gate.
LEMMA TakeLockAside ==
    ASSUME CommitInvariant, NEW h \in Handler, NEW pc, pc \notin Watched, NEW u,
           TakeLock(h, pc, u)
    PROVE  Aside(h)
<1> DEFINE at == [hand[h] EXCEPT !.pc = pc, !.uid = u,
                                 !.asset = session[u].asset,
                                 !.dev = Owner[session[u].asset]]
<1>1. at.pc = pc
  BY HandlerHas DEF Local
<1>2. hand' = [hand EXCEPT ![h] = at]
  BY DEF TakeLock
<1> HIDE DEF at
<1>3. hand'[h].pc = pc /\ \A g \in Handler : g # h => hand'[g] = hand[g]
  BY <1>1, <1>2, HandlerHas
<1> QED BY <1>3 DEF Aside

\* A handler that takes the gate and the lock of a session there.
LEMMA EnterAside ==
    ASSUME CommitInvariant, NEW h \in Handler, NEW pc, pc \notin Watched, NEW u,
           Enter(h, pc, u)
    PROVE  Aside(h)
BY TakeLockAside DEF Enter

\* Such a move is one of HandMoves.
LEMMA AsideMoves ==
    ASSUME NEW h \in Handler, Aside(h)
    PROVE  \A g \in Handler : HandMoves(g)
BY DEF Aside, HandMoves

\* The steps of a handler that was started.
LEMMA HandlerHandSteps ==
    ASSUME CommitInvariant, NEW h \in Handler, HandlerStep(h) \/ RecoverLock(h)
    PROVE  \A g \in Handler : HandMoves(g)
<1>1. CASE StartLookup(h)
  <2>1. CASE Return(h)
    BY <2>1, ReturnAside, AsideMoves
  <2>2. CASE Goto(h, "startCreate")
    <3>1. /\ hand'[h].pc = "startCreate" /\ hand'[h].dev = hand[h].dev
          /\ hand'[h].asset = hand[h].asset
          /\ \A g \in Handler : g # h => hand'[g] = hand[g]
      BY <2>2, HandlerHas DEF Goto, CommitInvariant, TypeOK, Local
    <3>2. GetsToStart(h)
      BY <1>1, <3>1 DEF GetsToStart, StartLookup
    <3> QED BY <3>1, <3>2 DEF HandMoves
  <2> QED BY <1>1, <2>1, <2>2 DEF StartLookup
<1>2. CASE RecoverLock(h)
  BY <1>2, GotoAside, AsideMoves DEF RecoverLock, Watched
<1>3. CASE \/ \E u \in UploadId : StartCreate(h, u)
           \/ AppendCommit(h) \/ AppendUndo(h) \/ ReserveRefused(h) \/ Mark(h)
           \/ RemoveTemp(h) \/ RemoveOrphan(h) \/ DeleteProfile(h) \/ Fail(h)
  <2>1. Return(h)
    BY <1>3 DEF StartCreate, AppendCommit, AppendUndo, ReserveRefused, Mark,
                RemoveTemp, RemoveOrphan, DeleteProfile, Fail
  <2> QED BY <2>1, ReturnAside, AsideMoves
<1>4. CASE Reserve(h) \/ UnlinkTemp(h) \/ RecoverMark(h) \/ FilesRemoved(h)
  <2>1. \E pc \in {"link", "mark", "rtemp", "profile", "idle"} : Goto(h, pc)
    BY <1>4 DEF Reserve, UnlinkTemp, RecoverMark, FilesRemoved
  <2> QED BY <2>1, GotoAside, AsideMoves DEF Watched
<1>5. CASE LinkFinal(h)
  <2> DEFINE new == [path |-> TargetOf(h), data |-> temp[hand[h].uid].data,
                     by |-> hand[h].uid]
  <2>1. /\ hand'[h].pc = "unlink" /\ hand'[h].uid = hand[h].uid
        /\ \A g \in Handler : g # h => hand'[g] = hand[g]
    BY <1>5, HandlerHas DEF LinkFinal, Goto, CommitInvariant, TypeOK, Local
  <2>2. new \in final' /\ new.by = hand[h].uid
    BY <1>5 DEF LinkFinal
  <2>3. GetsToUnlink(h)
    BY <2>1, <2>2 DEF GetsToUnlink
  <2> QED BY <2>1, <2>3 DEF HandMoves
<1>6. CASE LinkConflict(h)
  <2>1. CASE Return(h)
    BY <2>1, ReturnAside, AsideMoves
  <2>2. CASE ~Return(h)
    <3>1. /\ hand'[h].pc = "reserve" /\ hand'[h].uid = hand[h].uid
          /\ hand'[h].sum = hand[h].sum
          /\ \A g \in Handler : g # h => hand'[g] = hand[g]
      <4> DEFINE at(n) == [hand[h] EXCEPT !.pc = "reserve", !.try = n]
      <4>1. \A n : /\ at(n).pc = "reserve" /\ at(n).uid = hand[h].uid
                   /\ at(n).sum = hand[h].sum
        BY HandlerHas DEF Local
      <4>2. \E n : hand' = [hand EXCEPT ![h] = at(n)]
        BY <1>6, <2>2 DEF LinkConflict
      <4> HIDE DEF at
      <4> QED BY <4>1, <4>2, HandlerHas
    <3>2. /\ hand[h].uid \in UploadId /\ HasRow(hand[h].uid)
          /\ session[hand[h].uid].status = "committing"
          /\ RowOf(hand[h].uid).sum = hand[h].sum
      BY <1>6, CommitterHas, HandlerHas DEF LinkConflict, WorkingOK, Pending
    <3>3. session' = session /\ ledger' = ledger
      BY <1>6 DEF LinkConflict
    <3>4. GetsToReserve(h)
      BY <3>1, <3>2, <3>3 DEF GetsToReserve
    <3> QED BY <3>1, <3>4 DEF HandMoves
  <2> QED BY <2>1, <2>2
<1>7. CASE RecoverDecide(h)
  <2> SUFFICES ASSUME NEW u, u = hand[h].uid
               PROVE  \A g \in Handler : HandMoves(g)
    OBVIOUS
  <2>0. u \in UploadId
    BY <1>7, HandlerHas DEF RecoverDecide, WorkingOK, LockedPc
  <2>1. CASE Return(h)
    BY <2>1, ReturnAside, AsideMoves
  <2>2. CASE Goto(h, "rmark")
    BY <2>2, GotoAside, AsideMoves DEF Watched
  <2>3. CASE /\ Pending(u) /\ TempOK(u)
             /\ hand' = [hand EXCEPT ![h] =
                   [hand[h] EXCEPT !.pc = "reserve", !.base = RowOf(u).path,
                                   !.try = 0, !.sum = RowOf(u).sum]]
    <3>1. /\ hand'[h].pc = "reserve" /\ hand'[h].uid = u
          /\ hand'[h].sum = RowOf(u).sum
          /\ \A g \in Handler : g # h => hand'[g] = hand[g]
      BY <2>3, HandlerHas DEF CommitInvariant, TypeOK, Local
    <3>2. session' = session /\ ledger' = ledger
      BY <1>7 DEF RecoverDecide
    <3>3. HasRow(u) /\ session[u].status # "gone"
      BY <2>3 DEF Pending, TempOK
    <3>4. GetsToReserve(h)
      BY <2>0, <3>1, <3>2, <3>3 DEF GetsToReserve
    <3> QED BY <3>1, <3>4 DEF HandMoves
  <2> QED BY <1>7, <2>1, <2>2, <2>3 DEF RecoverDecide, Pending
<1>8. CASE RevokeReset(h)
  <2>1. hand'[h].pc = "rmfiles" /\ \A g \in Handler : g # h => hand'[g] = hand[g]
    BY <1>8, HandlerHas DEF RevokeReset, CommitInvariant, TypeOK, Local
  <2> QED BY <2>1, AsideMoves DEF Aside, Watched
<1>9. ASSUME NEW u \in UploadId, NEW removed \in BOOLEAN, RemoveFile(h, u, removed)
      PROVE  \A g \in Handler : HandMoves(g)
  <2>1. hand'[h].pc = "rmfiles" /\ \A g \in Handler : g # h => hand'[g] = hand[g]
    BY <1>9, HandlerHas DEF RemoveFile, CommitInvariant, TypeOK, Local
  <2> QED BY <2>1, AsideMoves DEF Aside, Watched
<1> QED
  BY <1>1, <1>2, <1>3, <1>4, <1>5, <1>6, <1>7, <1>8, <1>9 DEF HandlerStep

\* The requests that arrive.
LEMMA ArriveHandSteps ==
    ASSUME CommitInvariant, NEW h \in Handler, Arrive(h)
    PROVE  \A g \in Handler : HandMoves(g)
<1>1. ASSUME NEW a \in Asset, StartRead(h, a)
      PROVE  \A g \in Handler : HandMoves(g)
  <2> DEFINE at(pc, u) == [hand[h] EXCEPT !.pc = pc, !.dev = Owner[a],
                                          !.asset = a, !.uid = u]
  <2>1. \A pc, u : /\ at(pc, u).pc = pc /\ at(pc, u).dev = Owner[a]
                   /\ at(pc, u).asset = a
    BY HandlerHas DEF Local
  <2>2. \/ hand' = [hand EXCEPT ![h] = at("recoverWait", ledger[a].uid)]
        \/ hand' = [hand EXCEPT ![h] = at("startLookup", NoUpload)]
    BY <1>1 DEF StartRead
  <2> HIDE DEF at
  <2>3. /\ \A g \in Handler : g # h => hand'[g] = hand[g]
        /\ hand'[h].dev = Owner[a] /\ hand'[h].asset = a
        /\ hand'[h].pc \in {"startLookup", "recoverWait"}
    BY <2>1, <2>2, HandlerHas
  <2>4. Owner[a] \in paired /\ paired' = paired
    BY <1>1 DEF StartRead
  <2>5. HandMoves(h)
    BY <2>3, <2>4 DEF HandMoves, GetsToStart, Watched
  <2> QED BY <2>3, <2>5 DEF HandMoves
<1>2. ASSUME NEW u \in UploadId, NEW c \in Chunk, AppendWrite(h, u, c)
      PROVE  \A g \in Handler : HandMoves(g)
  BY <1>2, EnterAside, AsideMoves DEF AppendWrite, Watched
<1>3. ASSUME NEW u \in UploadId, CompleteBegin(h, u)
      PROVE  \A g \in Handler : HandMoves(g)
  <2>1. CASE Enter(h, "recover", u)
    BY <2>1, EnterAside, AsideMoves DEF Watched
  <2>2. CASE ~Enter(h, "recover", u)
    <3> DEFINE at == [hand[h] EXCEPT !.pc = "reserve", !.uid = u,
                          !.asset = session[u].asset,
                          !.dev = Owner[session[u].asset],
                          !.base = BasePath[session[u].asset], !.try = 0,
                          !.sum = temp[u].data]
    <3>1. at.pc = "reserve" /\ at.uid = u /\ at.sum = temp[u].data
      BY HandlerHas DEF Local
    <3>2. /\ hand' = [hand EXCEPT ![h] = at] /\ Verified(u)
          /\ session' = session /\ ledger' = ledger
      BY <1>3, <2>2 DEF CompleteBegin
    <3> HIDE DEF at
    <3>3. hand'[h] = at /\ \A g \in Handler : g # h => hand'[g] = hand[g]
      BY <3>2, HandlerHas
    <3>4. GetsToReserve(h)
      BY <3>1, <3>2, <3>3 DEF GetsToReserve
    <3> QED BY <3>3, <3>4 DEF HandMoves
  <2> QED BY <2>1, <2>2
<1>4. ASSUME NEW u \in UploadId, AbortSession(h, u)
      PROVE  \A g \in Handler : HandMoves(g)
  BY <1>4, EnterAside, AsideMoves DEF AbortSession, Watched
<1>5. ASSUME NEW d \in Device, NEW range \in SUBSET Asset, ResetDevice(h, d, range)
      PROVE  \A g \in Handler : HandMoves(g)
  <2>1. hand'[h].pc = "rmfiles" /\ \A g \in Handler : g # h => hand'[g] = hand[g]
    BY <1>5, HandlerHas DEF ResetDevice, CommitInvariant, TypeOK, Local
  <2> QED BY <2>1, AsideMoves DEF Aside, Watched
<1>6. ASSUME NEW d \in Device, RevokeDevice(h, d)
      PROVE  \A g \in Handler : HandMoves(g)
  <2>1. hand'[h].pc = "revoke" /\ \A g \in Handler : g # h => hand'[g] = hand[g]
    BY ZenonT(60), <1>6, HandlerHas DEF RevokeDevice, CommitInvariant, TypeOK, Local
  <2> QED BY <2>1, AsideMoves DEF Aside, Watched
<1> QED
  BY <1>1, <1>2, <1>3, <1>4, <1>5, <1>6 DEF Arrive

\* Every step moves the handlers in that way only.
LEMMA HandSteps ==
    ASSUME CommitInvariant, [Next]_vars
    PROVE  \A g \in Handler : HandMoves(g)
<1>0. ASSUME hand' = hand PROVE \A g \in Handler : HandMoves(g)
  BY <1>0 DEF HandMoves
<1>1. ASSUME NEW u \in UploadId, Maintenance(u)
      PROVE  \A g \in Handler : HandMoves(g)
  <2>0. Maintainer \in Handler
    BY DEF Handler
  <2>1. CASE CleanupSession(u)
    BY <2>0, <2>1, EnterAside, AsideMoves DEF CleanupSession, Watched
  <2>2. CASE LookupOrphan(u)
    BY <2>0, <2>2, TakeLockAside, AsideMoves DEF LookupOrphan, Watched
  <2> QED BY <1>1, <2>1, <2>2 DEF Maintenance
<1>2. CASE Environment
  <2>1. CASE Crash
    BY <2>1 DEF Crash, AtRest, HandMoves, Watched
  <2>2. CASE ~Crash
    <3>1. hand' = hand
      BY <1>2, <2>2 DEF Environment, SessionAges, TempAges, UpdatePolicy, ForeignFile
    <3> QED BY <3>1, <1>0
  <2> QED BY <2>1, <2>2
<1>3. CASE UNCHANGED vars
  BY <1>3, <1>0 DEF vars
<1> QED
  BY <1>1, <1>2, <1>3, HandlerHandSteps, ArriveHandSteps DEF Next

\* A device leaves the registry only when nobody works on it.
LEMMA PairedSteps ==
    ASSUME [Next]_vars
    PROVE  \/ paired' = paired
           \/ \E d \in Device : paired' = paired \ {d} /\ GateFree(d)
<1>1. ASSUME NEW h \in Handler, Arrive(h)
      PROVE  \/ paired' = paired
             \/ \E d \in Device : paired' = paired \ {d} /\ GateFree(d)
  BY <1>1 DEF Arrive, StartRead, AppendWrite, CompleteBegin, AbortSession,
              ResetDevice, RevokeDevice
<1>2. ASSUME NEW h \in Handler, HandlerStep(h) \/ RecoverLock(h)
      PROVE  paired' = paired
  BY <1>2 DEF HandlerStep, StartLookup, RecoverLock, StartCreate, AppendCommit,
     AppendUndo, Reserve, ReserveRefused, LinkFinal, LinkConflict, UnlinkTemp,
     Mark, RecoverDecide, RecoverMark, RemoveTemp, RevokeReset, RemoveFile,
     FilesRemoved, DeleteProfile, Fail, RemoveOrphan
<1>3. ASSUME NEW u \in UploadId, Maintenance(u) PROVE paired' = paired
  BY <1>3 DEF Maintenance, CleanupSession, LookupOrphan
<1>4. CASE Environment
  BY <1>4 DEF Environment, SessionAges, TempAges, UpdatePolicy, ForeignFile, Crash
<1>5. CASE UNCHANGED vars
  BY <1>5 DEF vars
<1> QED BY <1>1, <1>2, <1>3, <1>4, <1>5 DEF Next

-----------------------------------------------------------------------------
(* The strengthened invariant. *)

\* The session of a row that is not deleted is committing or completed.
LEMMA RowSession ==
    ASSUME CommitInvariant, NEW u \in UploadId, HasRow(u), session[u].status # "gone"
    PROVE  session[u].status \in {"committing", "completed"}
<1>1. session[u].asset \in Asset /\ RowOK(session[u].asset)
      /\ ledger[session[u].asset].status \in {"committing", "uploaded"}
  BY DEF CommitInvariant, TypeOK, Session, HasRow, RowOf, Row
<1> QED BY <1>1 DEF RowOK, HasRow, RowOf

\* The offset of a session that may be reserved, is being committed or is
\* completed stands still.
LEMMA OffsetStands ==
    ASSUME CommitInvariant, [Next]_vars, NEW u \in UploadId,
           session[u].status # "unborn", session'[u].status # "gone",
           \/ session[u].status # "active"
           \/ \E g \in Handler : hand[g].pc = "reserve" /\ hand[g].uid = u
    PROVE  session'[u].asset = session[u].asset /\ session'[u].next = session[u].next
<1>1. ASSUME NEW h \in Handler, AppendCommit(h), hand[h].uid = u PROVE FALSE
  BY <1>1 DEF AppendCommit, CommitInvariant, SessionsLocked, LockedPc
<1> QED BY <1>1, SessionSteps DEF SessionMoves

\* A row gets bytes only from a handler that is ConfirmedAt its reservation, and
\* the offset stands still from there on.
LEMMA ConfirmedStep ==
    ASSUME ProvenanceInvariant, [Next]_vars, CommitInvariant'
    PROVE  OnlyConfirmedCommitted'
<1> USE DEF ProvenanceInvariant
<1> SUFFICES ASSUME NEW u \in UploadId, HasRow(u)', session'[u].status # "gone"
             PROVE  /\ Len(RowOf(u)'.sum) = session'[u].next
                    /\ session'[u].next = Size[session'[u].asset]
  BY DEF OnlyConfirmedCommitted
<1>1. session'[u].status \in {"committing", "completed"}
  <2>1. session'[u].asset \in Asset
    BY DEF CommitInvariant, TypeOK, Session
  <2>2. ledger'[session'[u].asset].status \in {"committing", "uploaded"}
    BY <2>1 DEF HasRow, RowOf, CommitInvariant, TypeOK, Row
  <2> QED BY <2>1, <2>2 DEF CommitInvariant, RowOK, HasRow, RowOf
<1>2. session[u].status # "unborn"
  <2>1. ASSUME NEW h \in Handler, StartCreate(h, u) PROVE session'[u].status = "active"
    BY <2>1 DEF StartCreate, CommitInvariant, TypeOK
  <2> QED BY <1>1, <2>1, SessionSteps DEF SessionMoves
<1> SUFFICES ASSUME NEW a, a = session[u].asset
             PROVE  /\ Len(RowOf(u)'.sum) = session'[u].next
                    /\ session'[u].next = Size[session'[u].asset]
  OBVIOUS
<1>3. session'[u].asset = a /\ a \in Asset
  BY <1>2, SessionSteps DEF SessionMoves, CommitInvariant, TypeOK, Session
<1>4. RowOf(u)' = ledger'[a] /\ ledger'[a].status # "none" /\ ledger'[a].uid = u
  BY <1>3 DEF HasRow, RowOf
<1>5. CASE \/ ledger'[a] = ledger[a]
           \/ /\ ledger[a].status = "committing"
              /\ ledger'[a].uid = ledger[a].uid /\ ledger'[a].sum = ledger[a].sum
  <2>1. HasRow(u) /\ RowOf(u).sum = ledger'[a].sum
    BY <1>4, <1>5 DEF HasRow, RowOf
  <2>2. session[u].status # "gone"
    BY SessionSteps DEF SessionMoves
  <2>3. session[u].status # "active"
    BY <2>1, <2>2, RowSession
  <2>4. session'[u].next = session[u].next
    BY <1>2, <2>3, OffsetStands
  <2>5. Len(RowOf(u).sum) = session[u].next /\ session[u].next = Size[a]
    BY <2>1, <2>2 DEF OnlyConfirmedCommitted
  <2> QED BY <1>3, <1>4, <2>1, <2>4, <2>5
<1>6. ASSUME NEW h \in Handler, Reserve(h), session[hand[h].uid].asset = a,
             ledger'[a].uid = hand[h].uid, ledger'[a].sum = hand[h].sum
      PROVE  /\ Len(RowOf(u)'.sum) = session'[u].next
             /\ session'[u].next = Size[session'[u].asset]
  <2>1. hand[h].pc = "reserve" /\ hand[h].uid = u
    BY <1>4, <1>6 DEF Reserve
  <2>2. session'[u].next = session[u].next
    BY <1>2, <2>1, OffsetStands
  <2>3. Len(hand[h].sum) = session[u].next /\ session[u].next = Size[a]
    BY <2>1 DEF ConfirmedAt
  <2> QED BY <1>3, <1>4, <1>6, <2>2, <2>3
<1> QED BY <1>3, <1>4, <1>5, <1>6, RowSteps DEF RowMoves

\* The reserved bytes and the temporary file are written under one lock.
LEMMA MatchesStep ==
    ASSUME ProvenanceInvariant, [Next]_vars, CommitInvariant', NEW u \in UploadId
    PROVE  TempMatches(u)'
<1> USE DEF ProvenanceInvariant
<1> SUFFICES ASSUME session'[u].status = "committing", temp'[u] # NoFile
             PROVE  temp'[u].data = RowOf(u)'.sum
  BY DEF TempMatches
<1> SUFFICES ASSUME NEW a, a = session'[u].asset
             PROVE  temp'[u].data = RowOf(u)'.sum
  OBVIOUS
<1>1. Pending(u)'
  BY DEF CommitInvariant, SessionOK
<1>2. /\ a \in Asset /\ RowOf(u)' = ledger'[a]
      /\ ledger'[a].status = "committing" /\ ledger'[a].uid = u
  BY <1>1 DEF Pending, HasRow, RowOf, CommitInvariant, TypeOK, Session
<1>3. CASE ledger'[a] = ledger[a]
  <2>1. session[u].status = "committing" /\ session[u].asset = a
    BY <1>2, <1>3 DEF CommitInvariant, RowOK
  <2>2. temp[u] # NoFile /\ temp'[u].data = temp[u].data
    BY <2>1, TempSteps DEF TempMoves
  <2>3. temp[u].data = ledger[a].sum
    BY <2>1, <2>2 DEF TempMatches, RowOf
  <2> QED BY <1>2, <1>3, <2>2, <2>3
<1>4. ASSUME NEW h \in Handler, Reserve(h),
             ledger'[a].uid = hand[h].uid, ledger'[a].sum = hand[h].sum
      PROVE  temp'[u].data = RowOf(u)'.sum
  <2>1. temp' = temp /\ hand[h].pc = "reserve" /\ hand[h].uid = u
    BY <1>2, <1>4 DEF Reserve
  <2>2. temp[u].data = hand[h].sum
    BY <2>1, HandlerHas DEF WorkingOK
  <2> QED BY <1>2, <1>4, <2>1, <2>2
<1> QED BY <1>2, <1>3, <1>4, RowSteps DEF RowMoves

\* What a watched handler knows stays true until it moves.
LEMMA HandlersStep ==
    ASSUME ProvenanceInvariant, [Next]_vars, CommitInvariant', NEW h \in Handler
    PROVE  ConfirmedAt(h)' /\ PlacedAt(h)' /\ PairedAt(h)'
<1> USE DEF ProvenanceInvariant
<1>1. CASE hand'[h] = hand[h]
  <2>1. ConfirmedAt(h)'
    <3> SUFFICES ASSUME hand[h].pc = "reserve"
                 PROVE  ConfirmedAt(h)'
      BY <1>1 DEF ConfirmedAt
    <3> SUFFICES ASSUME NEW u, u = hand[h].uid
                 PROVE  ConfirmedAt(h)'
      OBVIOUS
    <3>1. u \in UploadId /\ session[u].status # "unborn"
      BY HandlerHas DEF WorkingOK, LockedPc
    <3>2. session'[u].status # "gone"
      BY <1>1 DEF CommitInvariant, WorkingOK
    <3>3. session'[u].asset = session[u].asset /\ session'[u].next = session[u].next
      BY <3>1, <3>2, OffsetStands
    <3>4. Len(hand[h].sum) = session[u].next
          /\ session[u].next = Size[session[u].asset]
      BY DEF ConfirmedAt
    <3> QED BY <1>1, <3>3, <3>4 DEF ConfirmedAt
  <2>2. PlacedAt(h)'
    BY <1>1, StepInvariant DEF PlacedAt
  <2>3. PairedAt(h)'
    BY <1>1, PairedSteps DEF PairedAt, GateFree, Ungated
  <2> QED BY <2>1, <2>2, <2>3
<1>2. CASE hand'[h].pc \notin Watched
  BY <1>2 DEF Watched, ConfirmedAt, PlacedAt, PairedAt
<1>3. CASE GetsToReserve(h)
  <2> SUFFICES ASSUME NEW u, u = hand'[h].uid
               PROVE  ConfirmedAt(h)' /\ PlacedAt(h)' /\ PairedAt(h)'
    OBVIOUS
  <2>1. CASE Verified(u) /\ hand'[h].sum = temp[u].data
    BY <1>3, <2>1 DEF GetsToReserve, Verified, ConfirmedAt, PlacedAt, PairedAt
  <2>2. CASE HasRow(u) /\ hand'[h].sum = RowOf(u).sum /\ session[u].status # "gone"
    BY <1>3, <2>2
    DEF GetsToReserve, OnlyConfirmedCommitted, ConfirmedAt, PlacedAt, PairedAt
  <2> QED BY <1>3, <2>1, <2>2 DEF GetsToReserve
<1>4. CASE GetsToUnlink(h)
  BY <1>4 DEF GetsToUnlink, ConfirmedAt, PlacedAt, PairedAt
<1>5. CASE GetsToStart(h)
  BY <1>5 DEF GetsToStart, ConfirmedAt, PlacedAt, PairedAt
<1> QED BY <1>1, <1>2, <1>3, <1>4, <1>5, HandSteps DEF HandMoves

\* The strengthened invariant, for every value of the constants.
THEOREM ProvenanceHolds == Spec => []ProvenanceInvariant
<1>1. Init => ProvenanceInvariant
  <2> SUFFICES ASSUME Init PROVE ProvenanceInvariant
    OBVIOUS
  <2>1. CommitInvariant
    BY InitInvariant
  <2>2. /\ \A h \in Handler : hand[h].pc = "idle"
        /\ \A a \in Asset : ledger[a].status = "none"
        /\ \A u \in UploadId : session[u].status = "unborn"
                               /\ session[u].asset \in Asset
    BY <2>1 DEF Init, AtRest, NoRow, CommitInvariant, TypeOK, Session
  <2> QED
    BY <2>1, <2>2 DEF ProvenanceInvariant, OnlyConfirmedCommitted, HasRow, RowOf,
       TempMatches, ConfirmedAt, PlacedAt, PairedAt
<1>2. ProvenanceInvariant /\ [Next]_vars => ProvenanceInvariant'
  <2> SUFFICES ASSUME ProvenanceInvariant, [Next]_vars
               PROVE  ProvenanceInvariant'
    OBVIOUS
  <2>1. CommitInvariant'
    BY StepInvariant DEF ProvenanceInvariant
  <2> QED
    BY <2>1, ConfirmedStep, MatchesStep, HandlersStep DEF ProvenanceInvariant
<1> QED BY <1>1, <1>2, PTL DEF Spec

\* A torn tail is never committed: what a reservation records has the confirmed,
\* complete length, through retries of the path and recoveries as well
\* (CompleteUploadSession, recoverPendingUploadAssetLocked).
THEOREM ConfirmedCommitted == Spec => []OnlyConfirmedCommitted
<1>1. ProvenanceInvariant => OnlyConfirmedCommitted
  BY DEF ProvenanceInvariant
<1> QED BY <1>1, ProvenanceHolds, PTL

\* Nothing takes the temporary file from under an upload in progress before
\* its bytes are in the upload root (removeUploadTempFile, the maintenance).
THEOREM LiveTempStays == Spec => LiveTempKept
<1> DEFINE Kept == \A u \in UploadId :
               temp[u] # NoFile /\ temp'[u] = NoFile
                     /\ session'[u].status \in {"active", "committing"}
                   => \E f \in final : f.by = u /\ f.data = temp[u].data
<1>1. ProvenanceInvariant /\ [Next]_vars => [Kept]_vars
  <2> SUFFICES ASSUME ProvenanceInvariant, [Next]_vars, NEW u \in UploadId,
                      temp[u] # NoFile, temp'[u] = NoFile,
                      session'[u].status \in {"active", "committing"}
               PROVE  \E f \in final : f.by = u /\ f.data = temp[u].data
    OBVIOUS
  <2> USE DEF ProvenanceInvariant
  <2>1. PICK h \in Handler : UnlinkTemp(h) /\ hand[h].uid = u
    BY TempSteps DEF TempMoves
  <2>2. PICK f \in final : f.by = u
    BY <2>1 DEF UnlinkTemp, PlacedAt
  <2>3. session[u].status = "committing"
    BY <2>1, CommitterHas DEF UnlinkTemp
  <2>4. f.data = RowOf(u).sum
    BY <2>2, <2>3, NoUploadAssumption DEF CommitInvariant, FileOK
  <2>5. temp[u].data = RowOf(u).sum
    BY <2>3 DEF TempMatches
  <2> QED BY <2>2, <2>4, <2>5
<1> QED
  BY <1>1, ProvenanceHolds, PTL DEF Spec, LiveTempKept

\* Nothing of a revoked device comes back: a reservation needs a session that is
\* still there, and a session is only created while the device is in the
\* registry (RevokeDevice takes the exclusive gate).
THEOREM RevokedEmpty == Spec => RevokedStaysEmpty
<1> DEFINE Empty == \A d \in Device : d \notin paired /\ Traces(d) = {}
                        => d \notin paired' /\ Traces(d)' = {}
<1>1. ProvenanceInvariant /\ [Next]_vars => [Empty]_vars
  <2> SUFFICES ASSUME ProvenanceInvariant, [Next]_vars, NEW d \in Device,
                      d \notin paired, Traces(d) = {}
               PROVE  d \notin paired' /\ Traces(d)' = {}
    OBVIOUS
  <2> USE DEF ProvenanceInvariant
  <2>1. d \notin paired'
    BY PairedSteps
  <2>2. /\ \A a \in Asset : Owner[a] = d => ledger[a].status = "none"
        /\ \A u \in UploadId : session[u].status \notin {"unborn", "gone"}
               => Owner[session[u].asset] # d
    BY DEF Traces, InRange, CommitInvariant, TypeOK, Session
  <2>3. ASSUME NEW a \in Asset, Owner[a] = d PROVE ledger'[a].status = "none"
    <3>1. ASSUME NEW h \in Handler, Reserve(h), session[hand[h].uid].asset = a
          PROVE  FALSE
      <4>1. hand[h].uid \in UploadId
        BY <3>1, HandlerHas DEF Reserve, WorkingOK, LockedPc
      <4> QED BY <2>2, <2>3, <3>1, <4>1 DEF Reserve
    <3> QED BY <2>2, <2>3, <3>1, RowSteps DEF RowMoves
  <2>4. ASSUME NEW u \in UploadId, session'[u].status \notin {"unborn", "gone"}
        PROVE  Owner[session'[u].asset] # d
    <3>1. CASE session[u].status = "unborn"
      <4>1. PICK h \in Handler : StartCreate(h, u)
        BY <2>4, <3>1, SessionSteps DEF SessionMoves
      <4>2. session'[u].asset = hand[h].asset
        BY <4>1 DEF StartCreate, CommitInvariant, TypeOK
      <4>3. Owner[hand[h].asset] \in paired
        BY <4>1 DEF StartCreate, PairedAt
      <4> QED BY <4>2, <4>3
    <3>2. CASE session[u].status # "unborn"
      BY <2>2, <2>4, <3>2, SessionSteps DEF SessionMoves
    <3> QED BY <3>1, <3>2
  <2> QED BY <2>1, <2>3, <2>4 DEF Traces, InRange
<1> QED
  BY <1>1, ProvenanceHolds, PTL DEF Spec, RevokedStaysEmpty
=============================================================================
