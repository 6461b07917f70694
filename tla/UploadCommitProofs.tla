------------------------- MODULE UploadCommitProofs -------------------------
(* Theorems about UploadCommit, for every value of its constants. *)
EXTENDS UploadCommit, SequenceTheorems, TLAPS

\* A handler without a request is typed.
LEMMA AtRestType == AtRest \in Local
<1>1. /\ (CHOOSE d \in Device : TRUE) \in Device
      /\ (CHOOSE a \in Asset : TRUE) \in Asset
  BY NonEmptyAssumption
<1>2. <<>> \in Path /\ <<>> \in Seq(Chunk)
  BY DEF Path
<1> QED
  BY <1>1, <1>2 DEF AtRest, Local, Pc

\* A path with a suffix is a path (suffixedUploadRelativePath).
LEMMA SuffixedType == \A p \in Path, n \in Nat : Suffixed(p, n) \in Path
BY DEF Path, Suffixed

\* A handler that answers, or moves to another program counter, is still typed.
LEMMA GotoType ==
    ASSUME TypeOK, NEW h \in Handler, NEW pc \in Pc, Goto(h, pc)
    PROVE  hand' \in [Handler -> Local]
BY ZenonT(60) DEF TypeOK, Goto, Local

\* A handler that answers is typed again.
LEMMA ReturnType ==
    ASSUME TypeOK, NEW h \in Handler, Return(h)
    PROVE  hand' \in [Handler -> Local]
BY AtRestType DEF TypeOK, Return

\* A handler that takes the lock of a session is typed, with or without a gate.
LEMMA TakeLockType ==
    ASSUME TypeOK, NEW h \in Handler, NEW pc \in Pc, NEW u \in UploadId,
           TakeLock(h, pc, u)
    PROVE  hand' \in [Handler -> Local]
<1>1. session[u].asset \in Asset /\ Owner[session[u].asset] \in Device
  BY OwnerAssumption DEF TypeOK, Session
<1> QED
  BY ZenonT(60), <1>1 DEF TypeOK, TakeLock, Local

\* A handler that takes the gate and the lock of a session is typed.
LEMMA EnterType ==
    ASSUME TypeOK, NEW h \in Handler, NEW pc \in Pc, NEW u \in UploadId,
           Enter(h, pc, u)
    PROVE  hand' \in [Handler -> Local]
BY TakeLockType DEF Enter

\* The initial state is typed.
LEMMA InitType == Init => TypeOK
<1> SUFFICES ASSUME Init PROVE TypeOK
  OBVIOUS
<1>1. hand \in [Handler -> Local]
  BY AtRestType DEF Init
<1>2. session \in [UploadId -> Session]
  <2>1. (CHOOSE a \in Asset : TRUE) \in Asset
    BY NonEmptyAssumption
  <2> QED BY <2>1 DEF Init, Session, SessionStatus
<1>3. ledger \in [Asset -> Row]
  BY DEF Init, NoRow, Row, Path
<1> QED
  BY <1>1, <1>2, <1>3, OwnerAssumption DEF Init, TypeOK

\* A reset of rows keeps their types (ResetDeviceUploadState).
LEMMA ResetRowsType ==
    ASSUME TypeOK, NEW d \in Device, NEW range \in SUBSET Asset,
           ResetRows(d, range)
    PROVE  /\ epoch' \in [Device -> Nat]
           /\ ledger' \in [Asset -> Row]
           /\ session' \in [UploadId -> Session]
<1>1. epoch' \in [Device -> Nat]
  BY DEF TypeOK, ResetRows, NewEpoch
<1>2. NoRow \in Row
  BY DEF NoRow, Row, Path
<1>3. ledger' \in [Asset -> Row]
  BY <1>2 DEF TypeOK, ResetRows
<1>4. \A u \in UploadId : Deleted(u) \in Session
  BY DEF TypeOK, Deleted, Session, SessionStatus
<1>5. session' \in [UploadId -> Session]
  BY <1>4 DEF TypeOK, ResetRows
<1> QED BY <1>1, <1>3, <1>5

\* Every request that arrives leaves typed variables.
LEMMA ArriveType ==
    ASSUME TypeOK, NEW h \in Handler, Arrive(h)
    PROVE  TypeOK'
<1> USE DEF TypeOK
<1>1. ASSUME NEW a \in Asset, StartRead(h, a) PROVE TypeOK'
  <2> DEFINE at(pc, u) == [hand[h] EXCEPT !.pc = pc, !.dev = Owner[a],
                                          !.asset = a, !.uid = u]
  <2>1. Owner[a] \in Device /\ ledger[a].uid \in UploadId \cup {NoUpload}
        /\ hand[h] \in Local /\ "recoverWait" \in Pc /\ "startLookup" \in Pc
    BY OwnerAssumption DEF Row, Pc, SharedPc
  <2>2. \A pc \in Pc, u \in UploadId \cup {NoUpload} : at(pc, u) \in Local
    BY <2>1 DEF Local
  <2>3. \/ hand' = [hand EXCEPT ![h] = at("recoverWait", ledger[a].uid)]
        \/ hand' = [hand EXCEPT ![h] = at("startLookup", NoUpload)]
    BY <1>1 DEF StartRead
  <2> HIDE DEF at
  <2>4. hand' \in [Handler -> Local]
    BY <2>1, <2>2, <2>3
  <2> QED BY <1>1, <2>4 DEF StartRead
<1>2. ASSUME NEW u \in UploadId, NEW c \in Chunk, AppendWrite(h, u, c)
      PROVE TypeOK'
  <2>1. hand' \in [Handler -> Local]
    BY <1>2, EnterType DEF AppendWrite, Pc, SharedPc, LockedPc
  <2> DEFINE data == Append(TempData(u), c)
  <2>2. data \in Seq(Chunk)
    BY DEF TempData, Temp
  <2> HIDE DEF data
  <2>3. temp' = [temp EXCEPT ![u] = [data |-> data, old |-> FALSE]]
        /\ final' = WriteThrough(u, data)
    BY <1>2 DEF AppendWrite, data
  <2>4. temp' \in [UploadId -> Temp \cup {NoFile}]
    BY <2>2, <2>3 DEF Temp
  <2>5. final' \subseteq File
    BY ZenonT(60), <2>2, <2>3 DEF WriteThrough, File
  <2> QED BY <1>2, <2>1, <2>4, <2>5 DEF AppendWrite
<1>3. ASSUME NEW u \in UploadId, CompleteBegin(h, u) PROVE TypeOK'
  <2>1. CASE Enter(h, "recover", u)
    <3>1. hand' \in [Handler -> Local]
      BY <2>1, EnterType DEF Pc, SharedPc, LockedPc
    <3> QED BY <1>3, <3>1 DEF CompleteBegin
  <2>2. CASE ~Enter(h, "recover", u)
    <3>1. session[u].asset \in Asset /\ Owner[session[u].asset] \in Device
          /\ BasePath[session[u].asset] \in Path
      BY OwnerAssumption, BasePathAssumption DEF Session
    <3>2. temp[u] # NoFile
      BY <1>3, <2>2 DEF CompleteBegin, Verified
    <3>3. temp[u].data \in Seq(Chunk)
      BY <3>2 DEF Temp
    <3> DEFINE at == [hand[h] EXCEPT !.pc = "reserve", !.uid = u,
                          !.asset = session[u].asset,
                          !.dev = Owner[session[u].asset],
                          !.base = BasePath[session[u].asset], !.try = 0,
                          !.sum = temp[u].data]
    <3>4. at \in Local
      BY ZenonT(60), <3>1, <3>3 DEF Local, Pc, SharedPc, LockedPc
    <3>5. hand' = [hand EXCEPT ![h] = at]
      BY <1>3, <2>2 DEF CompleteBegin
    <3> HIDE DEF at
    <3>6. hand' \in [Handler -> Local]
      BY <3>4, <3>5
    <3> QED BY <1>3, <3>6 DEF CompleteBegin
  <2> QED BY <2>1, <2>2
<1>4. ASSUME NEW u \in UploadId, AbortSession(h, u) PROVE TypeOK'
  <2>1. hand' \in [Handler -> Local]
    BY <1>4, EnterType DEF AbortSession, Pc, SharedPc, LockedPc
  <2>2. session' \in [UploadId -> Session]
    BY <1>4 DEF AbortSession, Session, SessionStatus
  <2> QED BY <1>4, <2>1, <2>2 DEF AbortSession
<1>5. ASSUME NEW d \in Device, NEW range \in SUBSET Asset, ResetDevice(h, d, range)
      PROVE TypeOK'
  <2>1. epoch' \in [Device -> Nat] /\ ledger' \in [Asset -> Row]
        /\ session' \in [UploadId -> Session]
    BY <1>5, ResetRowsType DEF ResetDevice
  <2>2. hand' \in [Handler -> Local]
    BY ZenonT(60), <1>5 DEF ResetDevice, Local, InRange, Pc, ExclusivePc
  <2> QED BY <1>5, <2>1, <2>2 DEF ResetDevice
<1>6. ASSUME NEW d \in Device, RevokeDevice(h, d) PROVE TypeOK'
  <2>1. hand' \in [Handler -> Local]
    BY ZenonT(60), <1>6 DEF RevokeDevice, Local, Pc, ExclusivePc
  <2> QED BY <1>6, <2>1 DEF RevokeDevice
<1> QED
  BY <1>1, <1>2, <1>3, <1>4, <1>5, <1>6 DEF Arrive

\* Every step of a handler at work leaves typed variables.
LEMMA HandlerStepType ==
    ASSUME TypeOK, NEW h \in Handler, HandlerStep(h) \/ RecoverLock(h),
           hand[h].pc \in LockedPc => hand[h].uid \in UploadId,
           hand[h].pc = "append" =>
               Len(temp[hand[h].uid].data) = session[hand[h].uid].next + 1
    PROVE  TypeOK'
<1> USE DEF TypeOK
<1>a. /\ {"link", "unlink", "mark", "rmark", "rtemp", "recover", "reserve",
          "startCreate", "rmfiles", "profile", "idle"} \subseteq Pc
      /\ {"append", "link", "unlink", "mark", "rmark", "rtemp", "recover",
          "reserve", "orphan"} = LockedPc
  BY DEF Pc, SharedPc, LockedPc, ExclusivePc
<1>b. /\ hand[h] \in Local
      /\ hand[h].base \in Path /\ hand[h].try \in Nat /\ hand[h].sum \in Seq(Chunk)
      /\ hand[h].files \in SUBSET UploadId /\ hand[h].dev \in Device
      /\ hand[h].asset \in Asset /\ hand[h].uid \in UploadId \cup {NoUpload}
  BY DEF Local
<1>c. TargetOf(h) \in Path
  BY <1>b, SuffixedType DEF TargetOf
<1>1. CASE StartLookup(h) \/ RecoverLock(h) \/ ReserveRefused(h) \/ Fail(h)
           \/ FilesRemoved(h)
  <2>1. \/ Return(h)
        \/ Goto(h, "startCreate")
        \/ Goto(h, "recover")
        \/ Goto(h, "profile")
        \/ Goto(h, "idle")
    BY <1>1 DEF StartLookup, RecoverLock, ReserveRefused, Fail, FilesRemoved
  <2>2. hand' \in [Handler -> Local]
    BY <2>1, <1>a, ReturnType, GotoType
  <2> QED
    BY <1>1, <2>2 DEF StartLookup, RecoverLock, ReserveRefused, Fail, FilesRemoved
<1>2. ASSUME NEW u \in UploadId, StartCreate(h, u) PROVE TypeOK'
  <2>1. hand' \in [Handler -> Local]
    BY <1>2, ReturnType DEF StartCreate
  <2>2. session' \in [UploadId -> Session]
    BY <1>2, <1>b DEF StartCreate, Session, SessionStatus
  <2> QED BY <1>2, <2>1, <2>2 DEF StartCreate
<1>3. CASE AppendCommit(h)
  <2>1. hand' \in [Handler -> Local]
    BY <1>3, ReturnType DEF AppendCommit
  <2> DEFINE u == hand[h].uid
             new == [session[u] EXCEPT !.next = session[u].next + 1]
  <2>2. u \in UploadId /\ session[u] \in Session
    BY <1>3, <1>a DEF AppendCommit
  <2>3. new \in Session
    <3>1. session[u].next + 1 \in Nat
      BY <2>2 DEF Session
    <3>2. \A n \in Nat : [session[u] EXCEPT !.next = n] \in Session
      BY <2>2 DEF Session
    <3> QED BY <3>1, <3>2
  <2>4. session' = [session EXCEPT ![u] = new]
    BY <1>3 DEF AppendCommit
  <2> HIDE DEF new
  <2>5. session' \in [UploadId -> Session]
    BY <2>2, <2>3, <2>4
  <2> QED BY <1>3, <2>1, <2>5 DEF AppendCommit
<1>4. CASE AppendUndo(h)
  <2>1. hand' \in [Handler -> Local]
    BY <1>4, ReturnType DEF AppendUndo
  <2> DEFINE u == hand[h].uid
             data == SubSeq(TempData(u), 1, session[u].next)
  <2>2. u \in UploadId /\ temp[u] # NoFile
    BY <1>4, <1>a DEF AppendUndo
  <2>3. TempData(u) = temp[u].data /\ temp[u].data \in Seq(Chunk)
    BY <2>2 DEF TempData, Temp
  <2>4. session[u].next \in Nat /\ Len(temp[u].data) = session[u].next + 1
    BY <1>4, <2>2 DEF Session, AppendUndo
  <2>5. data \in Seq(Chunk)
    BY <2>3, <2>4, SubSeqProperties
  <2>6. temp' = [temp EXCEPT ![u] = [data |-> data, old |-> FALSE]]
        /\ final' = WriteThrough(u, data)
    BY <1>4 DEF AppendUndo
  <2> HIDE DEF data, u
  <2>7. temp' \in [UploadId -> Temp \cup {NoFile}]
    BY <2>2, <2>5, <2>6 DEF Temp
  <2>8. final' \subseteq File
    BY <2>5, <2>6 DEF WriteThrough, File
  <2> QED BY <1>4, <2>1, <2>7, <2>8 DEF AppendUndo
<1>5. CASE Reserve(h)
  <2> DEFINE u == hand[h].uid
             row == Reservation(u, TargetOf(h), hand[h].sum)
  <2>1. hand' \in [Handler -> Local]
    BY <1>5, <1>a, GotoType DEF Reserve
  <2>2. u \in UploadId /\ session[u] \in Session
    BY <1>5, <1>a DEF Reserve
  <2>3. session' \in [UploadId -> Session]
    BY <1>5, <2>2 DEF Reserve, Session, SessionStatus
  <2>4. row \in Row
    BY <2>2, <1>b, <1>c DEF Reservation, Row
  <2>5. ledger' = [ledger EXCEPT ![session[u].asset] = row]
    BY <1>5 DEF Reserve
  <2> HIDE DEF row
  <2>6. ledger' \in [Asset -> Row]
    BY <2>4, <2>5
  <2> QED BY <1>5, <2>1, <2>3, <2>6 DEF Reserve
<1>6. CASE LinkFinal(h)
  <2>1. hand' \in [Handler -> Local]
    BY <1>6, <1>a, GotoType DEF LinkFinal
  <2>2. hand[h].uid \in UploadId /\ temp[hand[h].uid] \in Temp
    BY <1>6, <1>a DEF LinkFinal
  <2>3. final' \subseteq File
    BY <1>6, <2>2, <1>c DEF LinkFinal, File, Temp
  <2> QED BY <1>6, <2>1, <2>3 DEF LinkFinal
<1>7. CASE LinkConflict(h)
  <2> DEFINE at == [hand[h] EXCEPT !.pc = "reserve", !.try = hand[h].try + 1]
  <2>1. at \in Local
    <3>1. hand[h].try + 1 \in Nat
      BY <1>b
    <3>2. \A n \in Nat :
              [hand[h] EXCEPT !.pc = "reserve", !.try = n] \in Local
      BY <1>a, <1>b DEF Local
    <3> QED BY <3>1, <3>2
  <2>2. Return(h) \/ hand' = [hand EXCEPT ![h] = at]
    BY <1>7 DEF LinkConflict
  <2> HIDE DEF at
  <2>3. hand' \in [Handler -> Local]
    BY <2>1, <2>2, ReturnType
  <2> QED BY <1>7, <2>3 DEF LinkConflict
<1>8. CASE UnlinkTemp(h) \/ RemoveTemp(h)
  <2>1. hand' \in [Handler -> Local]
    BY <1>8, <1>a, GotoType, ReturnType DEF UnlinkTemp, RemoveTemp
  <2>2. temp' \in [UploadId -> Temp \cup {NoFile}]
    BY <1>8 DEF UnlinkTemp, RemoveTemp
  <2> QED BY <1>8, <2>1, <2>2 DEF UnlinkTemp, RemoveTemp
<1>9. CASE Mark(h) \/ RecoverMark(h)
  <2>1. hand' \in [Handler -> Local]
    BY <1>9, <1>a, GotoType, ReturnType DEF Mark, RecoverMark
  <2> DEFINE u == hand[h].uid
             row == [ledger[session[u].asset] EXCEPT !.status = "uploaded"]
             new == [session[u] EXCEPT !.status = "completed", !.aged = FALSE]
  <2>2. u \in UploadId /\ session[u] \in Session /\ session[u].asset \in Asset
    BY <1>9, <1>a DEF Mark, RecoverMark, Session
  <2>3. row \in Row
    BY ZenonT(60), <2>2 DEF Row
  <2>4. new \in Session
    BY <2>2 DEF Session, SessionStatus
  <2>5. ledger' = [ledger EXCEPT ![session[u].asset] = row]
        /\ session' = [session EXCEPT ![u] = new]
    BY <1>9 DEF Mark, RecoverMark, MarkUploaded
  <2> HIDE DEF row, new
  <2>6. ledger' \in [Asset -> Row] /\ session' \in [UploadId -> Session]
    BY <2>2, <2>3, <2>4, <2>5
  <2> QED BY <1>9, <2>1, <2>6 DEF Mark, RecoverMark
<1>10. CASE RecoverDecide(h)
  <2> DEFINE row == RowOf(hand[h].uid)
             at == [hand[h] EXCEPT !.pc = "reserve", !.base = row.path,
                                   !.try = 0, !.sum = row.sum]
  <2>1. hand[h].uid \in UploadId
    BY <1>10, <1>a DEF RecoverDecide
  <2>2. row \in Row
    BY <2>1 DEF RowOf, Session
  <2>3. at \in Local
    BY <2>2, <1>a, <1>b DEF Row, Local
  <2>4. Return(h) \/ Goto(h, "rmark") \/ hand' = [hand EXCEPT ![h] = at]
    BY <1>10 DEF RecoverDecide
  <2> HIDE DEF at
  <2>5. hand' \in [Handler -> Local]
    BY <2>3, <2>4, <1>a, GotoType, ReturnType
  <2> QED BY <1>10, <2>5 DEF RecoverDecide
<1>11. CASE RevokeReset(h)
  <2> DEFINE at == [hand[h] EXCEPT !.pc = "rmfiles", !.revoking = TRUE,
                                   !.files = InRange(hand[h].dev, Asset)]
  <2>1. epoch' \in [Device -> Nat] /\ ledger' \in [Asset -> Row]
        /\ session' \in [UploadId -> Session]
    BY <1>11, <1>b, ResetRowsType DEF RevokeReset
  <2>2. at \in Local
    BY <1>a, <1>b DEF Local, InRange
  <2>3. hand' = [hand EXCEPT ![h] = at]
    BY <1>11 DEF RevokeReset
  <2> HIDE DEF at
  <2>4. hand' \in [Handler -> Local]
    BY <2>2, <2>3
  <2> QED BY <1>11, <2>1, <2>4 DEF RevokeReset
<1>12. ASSUME NEW u \in UploadId, NEW removed \in BOOLEAN,
              RemoveFile(h, u, removed)
       PROVE  TypeOK'
  <2>1. hand' \in [Handler -> Local]
    BY ZenonT(60), <1>12 DEF RemoveFile, Local
  <2>2. temp' \in [UploadId -> Temp \cup {NoFile}]
    BY <1>12 DEF RemoveFile
  <2> QED BY <1>12, <2>1, <2>2 DEF RemoveFile
<1>13. CASE DeleteProfile(h)
  <2>1. hand' \in [Handler -> Local]
    BY <1>13, ReturnType DEF DeleteProfile
  <2> QED BY <1>13, <2>1 DEF DeleteProfile
<1>14. CASE RemoveOrphan(h)
  <2>1. hand' \in [Handler -> Local]
    BY <1>14, ReturnType DEF RemoveOrphan
  <2>2. temp' \in [UploadId -> Temp \cup {NoFile}]
    BY <1>14 DEF RemoveOrphan
  <2> QED BY <1>14, <2>1, <2>2 DEF RemoveOrphan
<1> QED
  BY <1>1, <1>2, <1>3, <1>4, <1>5, <1>6, <1>7, <1>8, <1>9, <1>10, <1>11,
     <1>12, <1>13, <1>14 DEF HandlerStep

\* The maintenance loop and the environment leave typed variables.
LEMMA OtherStepType ==
    ASSUME TypeOK, Environment \/ \E u \in UploadId : Maintenance(u)
    PROVE  TypeOK'
<1> USE DEF TypeOK
<1>1. ASSUME NEW u \in UploadId, CleanupSession(u) PROVE TypeOK'
  <2>1. Maintainer \in Handler /\ "rtemp" \in Pc
    BY DEF Handler, Pc, SharedPc, LockedPc
  <2>2. hand' \in [Handler -> Local]
    BY <1>1, <2>1, EnterType DEF CleanupSession
  <2>3. session' \in [UploadId -> Session]
    BY <1>1 DEF CleanupSession, Deleted, Session, SessionStatus
  <2> QED BY <1>1, <2>2, <2>3 DEF CleanupSession
<1>2. ASSUME NEW u \in UploadId, LookupOrphan(u) PROVE TypeOK'
  <2>1. Maintainer \in Handler /\ "orphan" \in Pc
    BY DEF Handler, Pc, LockedPc
  <2>2. hand' \in [Handler -> Local]
    BY <1>2, <2>1, TakeLockType DEF LookupOrphan
  <2> QED BY <1>2, <2>2 DEF LookupOrphan
<1>3. ASSUME NEW u \in UploadId, SessionAges(u) PROVE TypeOK'
  <2>1. session' \in [UploadId -> Session]
    BY <1>3 DEF SessionAges, Session
  <2> QED BY <1>3, <2>1 DEF SessionAges
<1>4. ASSUME NEW u \in UploadId, TempAges(u) PROVE TypeOK'
  <2>1. temp' \in [UploadId -> Temp \cup {NoFile}]
    BY <1>4 DEF TempAges, Temp
  <2> QED BY <1>4, <2>1 DEF TempAges
<1>5. ASSUME NEW d \in Device, NEW allowed \in SUBSET Asset,
             UpdatePolicy(d, allowed)
      PROVE  TypeOK'
  BY <1>5 DEF UpdatePolicy
<1>6. ASSUME NEW f \in Foreign, ForeignFile(f) PROVE TypeOK'
  <2>1. final' \subseteq File
    BY <1>6, ForeignAssumption DEF ForeignFile, File
  <2> QED BY <1>6, <2>1 DEF ForeignFile
<1>7. CASE Crash
  BY <1>7, AtRestType DEF Crash
<1>8. \A d \in Device : {a \in Asset : Owner[a] = d} \in SUBSET Asset
  OBVIOUS
<1> QED
  BY <1>1, <1>2, <1>3, <1>4, <1>5, <1>6, <1>7, <1>8 DEF Environment, Maintenance

-----------------------------------------------------------------------------
(***************************************************************************)
(* CommitInvariant is inductive, for every value of the constants.  A step *)
(* is quiet (it changes no status, no row and no byte of a live upload),   *)
(* works on one upload under its lock, or resets a device under its gate.  *)
(***************************************************************************)

\* Only h moves, and it keeps what it held or takes what is free.
Moves(h) ==
    /\ \A g \in Handler : g # h => hand'[g] = hand[g]
    /\ hand'[h].pc \in LockedPc =>
           \/ hand[h].pc \in LockedPc /\ hand'[h].uid = hand[h].uid
           \/ LockFree(hand'[h].uid)
    /\ hand'[h].pc \notin Ungated =>
           \/ /\ hand[h].pc \notin Ungated /\ hand'[h].dev = hand[h].dev
              /\ hand'[h].pc \in ExclusivePc => hand[h].pc \in ExclusivePc
           \/ GateOpen(hand'[h].dev) /\ hand'[h].pc \notin ExclusivePc
           \/ GateFree(hand'[h].dev)

\* Nothing of any upload changes but ages and bytes nobody needs; other
\* programs may add files.
Quiet ==
    /\ ledger' = ledger
    /\ \A u \in UploadId : /\ session'[u].status = session[u].status
                            /\ session'[u].asset = session[u].asset
                            /\ session'[u].next = session[u].next
    /\ \A u \in UploadId :
           session[u].status \in {"active", "committing"} /\ temp[u] # NoFile
               => temp'[u] # NoFile /\ temp'[u].data = temp[u].data
    /\ \A u \in UploadId : temp[u] = NoFile => temp'[u] = NoFile
    /\ final \subseteq final'
    /\ \A f \in final' : f \in final \/ f.by = NoUpload

\* Only upload v changes, its own row and its own file.
WorksOn(v) ==
    /\ \A u \in UploadId : u # v => session'[u] = session[u] /\ temp'[u] = temp[u]
    /\ \A a \in Asset : ledger[a].status # "none" /\ ledger[a].uid # v
           => ledger'[a] = ledger[a]
    /\ session[v].status # "unborn" =>
           /\ session'[v].asset = session[v].asset
           /\ session'[v].status # "unborn"
    /\ session[v].status = "gone" => session'[v].status = "gone"
    /\ final \subseteq final'
    /\ \A f \in final' : f \in final \/ f.by = v

\* Locks and gates: a handler that moves keeps what it held, or took what was
\* free.
LEMMA LocksKeep ==
    ASSUME SessionsLocked, DevicesGated, NEW h \in Handler,
           Moves(h)
    PROVE  SessionsLocked' /\ DevicesGated'
<1>1. SessionsLocked'
  BY DEF SessionsLocked, LockFree, Moves
<1>2. DevicesGated'
  <2>1. Ungated \cap ExclusivePc = {}
    BY DEF Ungated, ExclusivePc
  <2> QED BY <2>1 DEF DevicesGated, GateOpen, GateFree, Moves
<1> QED BY <1>1, <1>2

\* What a row, a handler or a file says of an upload is still true when nothing
\* of that upload changed but ages, and other programs added files.
LEMMA QuietKeeps ==
    ASSUME CommitInvariant, Quiet
    PROVE  /\ \A h \in Handler : hand'[h] = hand[h] => WorkingOK(h)'
           /\ \A a \in Asset : RowOK(a)'
           /\ \A u \in UploadId : SessionOK(u)'
           /\ \A f \in final' : FileOK(f)'
           /\ PlacedOnce'
<1> USE DEF Quiet
<1>1. \A u \in UploadId : /\ RowOf(u)' = RowOf(u) /\ HasRow(u)' = HasRow(u)
                          /\ Pending(u)' = Pending(u)
                          /\ FinalOK(u) => FinalOK(u)'
                          /\ session[u].asset \in Asset
  BY DEF RowOf, HasRow, Pending, FinalOK, Stored, CommitInvariant, TypeOK, Session
<1>2. \A a \in Asset : RowOK(a)'
  <2> SUFFICES ASSUME NEW a \in Asset PROVE RowOK(a)'
    OBVIOUS
  <2>1. RowOK(a)
    BY DEF CommitInvariant
  <2> QED BY <2>1 DEF RowOK, Stored
<1>3. \A u \in UploadId : SessionOK(u)'
  BY <1>1 DEF CommitInvariant, SessionOK
<1>4. NoUpload \notin UploadId /\ \A f \in final : f.by \in UploadId \cup {NoUpload}
  BY NoUploadAssumption DEF CommitInvariant, TypeOK, File
<1>5. \A f \in final' : FileOK(f)'
  <2> SUFFICES ASSUME NEW f \in final' PROVE FileOK(f)'
    OBVIOUS
  <2>1. CASE f.by = NoUpload
    BY <2>1 DEF FileOK
  <2>2. CASE f.by # NoUpload
    <3>1. f \in final /\ FileOK(f) /\ f.by \in UploadId
      BY <2>2, <1>4 DEF CommitInvariant
    <3> QED BY <3>1, <1>1 DEF FileOK
  <2> QED BY <2>1, <2>2
<1>6. PlacedOnce'
  BY DEF CommitInvariant, PlacedOnce
<1>7. ASSUME NEW h \in Handler, hand'[h] = hand[h] PROVE WorkingOK(h)'
  <2> DEFINE u == hand[h].uid
  <2>1. WorkingOK(h) /\ hand'[h].pc = hand[h].pc /\ hand'[h].uid = hand[h].uid
        /\ TargetOf(h)' = TargetOf(h)
    BY <1>7 DEF CommitInvariant, TargetOf
  <2>2. hand[h].pc \in LockedPc => u \in UploadId
    BY <2>1 DEF WorkingOK
  <2>3. hand[h].pc = "link" => session[u].status = "committing"
    <3>1. u \in UploadId /\ Pending(u) => RowOK(session[u].asset)
      BY <1>1 DEF CommitInvariant
    <3> QED BY <2>1, <2>2, <3>1 DEF WorkingOK, Pending, HasRow, RowOf, RowOK, LockedPc
  <2>4. hand[h].pc \in {"reserve", "link"} => \A f \in final' : f.by # u
    BY <2>1, <2>2, <1>4 DEF WorkingOK, LockedPc
  <2>5. \A v \in hand[h].files : v \in UploadId
    BY DEF CommitInvariant, TypeOK, Local
  <2> QED
    <3> HIDE DEF u
    <3>1. u = hand[h].uid
      BY DEF u
    <3>2. CASE hand[h].pc \in {"append", "reserve", "link"}
      <4>1. CASE hand[h].pc = "append"
        <5>1. /\ u \in UploadId /\ session[u].status = "active"
              /\ temp[u] # NoFile /\ Len(temp[u].data) = session[u].next + 1
          BY <2>1, <3>1, <4>1 DEF WorkingOK, LockedPc
        <5>2. /\ session'[u].status = "active" /\ session'[u].next = session[u].next
              /\ temp'[u] # NoFile /\ temp'[u].data = temp[u].data
          BY <5>1
        <5>3. session'[u].asset = session[u].asset
          BY <5>1
        <5> QED BY <1>7, <2>1, <3>1, <4>1, <5>1, <5>2, <5>3 DEF WorkingOK, LockedPc
      <4>2. CASE hand[h].pc = "reserve"
        BY <1>7, <1>1, <2>1, <2>2, <2>3, <2>4, <3>1, <4>2 DEF WorkingOK, LockedPc
      <4>3. CASE hand[h].pc = "link"
        BY <1>7, <1>1, <2>1, <2>2, <2>3, <2>4, <3>1, <4>3 DEF WorkingOK, LockedPc
      <4> QED BY <3>2, <4>1, <4>2, <4>3
    <3>3. CASE hand[h].pc \in {"recover", "recoverWait", "unlink", "mark", "rmark", "rtemp",
                           "orphan"}
      BY <1>7, <1>1, <2>1, <2>2, <2>3, <2>4, <3>1, <3>3 DEF WorkingOK, LockedPc
    <3>4. CASE hand[h].pc \notin LockedPc \cup {"recoverWait"}
      BY <1>7, <1>1, <2>1, <2>5, <3>4 DEF WorkingOK, LockedPc
    <3> QED BY <3>2, <3>3, <3>4 DEF LockedPc
<1> QED
  BY <1>2, <1>3, <1>5, <1>6, <1>7

\* A step under the lock of upload v leaves alone what rows, handlers, sessions
\* and files say of the other uploads.
LEMMA OthersKeep ==
    ASSUME CommitInvariant, NEW v \in UploadId, WorksOn(v)
    PROVE  /\ \A h \in Handler :
                  hand'[h] = hand[h] /\ ~(hand[h].pc \in LockedPc /\ hand[h].uid = v)
                      => WorkingOK(h)'
           /\ \A a \in Asset : ledger[a].status # "none" /\ ledger[a].uid # v
                      => RowOK(a)'
           /\ \A u \in UploadId : u # v => SessionOK(u)'
           /\ \A f \in final : f.by # v => FileOK(f)'
<1> USE DEF WorksOn
<1>1. \A u \in UploadId : u # v =>
          /\ session[u].asset \in Asset
          /\ HasRow(u) => RowOf(u)' = RowOf(u) /\ HasRow(u)'
          /\ Pending(u) => Pending(u)'
          /\ FinalOK(u) /\ HasRow(u) => FinalOK(u)'
  BY DEF RowOf, HasRow, Pending, FinalOK, Stored, CommitInvariant, TypeOK, Session
<1>2. ASSUME NEW a \in Asset, ledger[a].status # "none", ledger[a].uid # v
      PROVE  RowOK(a)'
  <2>1. RowOK(a) /\ ledger'[a] = ledger[a]
    BY <1>2 DEF CommitInvariant
  <2> QED BY <2>1, <1>2 DEF RowOK, Stored
<1>3. \A u \in UploadId : u # v => SessionOK(u)'
  BY <1>1 DEF CommitInvariant, SessionOK
<1>4. ASSUME NEW f \in final, f.by # v PROVE FileOK(f)'
  <2>1. FileOK(f) /\ f.by \in UploadId \cup {NoUpload}
    BY DEF CommitInvariant, TypeOK, File
  <2> QED BY <2>1, <1>1, <1>4 DEF FileOK
<1>5. ASSUME NEW h \in Handler, hand'[h] = hand[h],
             ~(hand[h].pc \in LockedPc /\ hand[h].uid = v)
      PROVE WorkingOK(h)'
  <2> DEFINE u == hand[h].uid
  <2>1. WorkingOK(h) /\ TargetOf(h)' = TargetOf(h)
    BY <1>5 DEF CommitInvariant, TargetOf
  <2>2. hand[h].pc \in LockedPc => u \in UploadId /\ u # v
    BY <1>5, <2>1 DEF WorkingOK
  <2>3. hand[h].pc \in {"reserve", "link"} => \A f \in final' : f.by # u
    BY <2>1, <2>2 DEF WorkingOK, LockedPc
  <2>4. hand[h].pc \in {"link", "unlink", "mark", "rmark"} => HasRow(u)
    BY <2>1 DEF WorkingOK, Pending
  <2>5. \A w \in hand[h].files : w \in UploadId
    BY DEF CommitInvariant, TypeOK, Local
  <2>6. hand[h].pc = "recoverWait" =>
            /\ u \in UploadId /\ session'[u].status # "unborn"
            /\ hand[h].dev = Owner[session'[u].asset]
    BY <2>1 DEF WorkingOK
  <2> QED
    BY <1>5, <1>1, <2>1, <2>2, <2>3, <2>4, <2>5, <2>6 DEF WorkingOK, LockedPc
<1> QED
  BY <1>2, <1>3, <1>4, <1>5

\* An idle handler relies on nothing.
LEMMA AtRestWorking == \A h \in Handler : hand'[h].pc = "idle" => WorkingOK(h)'
BY DEF WorkingOK, LockedPc

\* A quiet step of one handler, and a quiet step of none.
LEMMA QuietMove ==
    ASSUME CommitInvariant, TypeOK', Quiet, NEW h \in Handler, Moves(h),
           WorkingOK(h)'
    PROVE  CommitInvariant'
<1>1. SessionsLocked' /\ DevicesGated'
  BY LocksKeep DEF CommitInvariant
<1>2. \A g \in Handler : WorkingOK(g)'
  BY QuietKeeps DEF Moves
<1> QED
  BY <1>1, <1>2, QuietKeeps DEF CommitInvariant

\* A quiet step of none of the handlers.
LEMMA QuietStill ==
    ASSUME CommitInvariant, TypeOK', Quiet, hand' = hand
    PROVE  CommitInvariant'
<1>1. SessionsLocked' /\ DevicesGated'
  BY DEF CommitInvariant, SessionsLocked, DevicesGated
<1> QED
  BY <1>1, QuietKeeps DEF CommitInvariant

\* What the handler at work may use.
LEMMA HandlerHas ==
    ASSUME CommitInvariant, NEW h \in Handler
    PROVE  /\ WorkingOK(h)
           /\ hand[h] \in Local
           /\ \A r : [hand EXCEPT ![h] = r][h] = r
           /\ \A r : \A g \in Handler : g # h => [hand EXCEPT ![h] = r][g] = hand[g]
BY DEF CommitInvariant, TypeOK

\* The quiet steps of a handler.
LEMMA QuietHandlerSteps ==
    ASSUME CommitInvariant, TypeOK', NEW h \in Handler,
           \/ StartLookup(h) \/ RecoverLock(h) \/ ReserveRefused(h)
           \/ LinkConflict(h) \/ RecoverDecide(h) \/ RemoveTemp(h)
           \/ \E u \in UploadId, removed \in BOOLEAN : RemoveFile(h, u, removed)
           \/ FilesRemoved(h) \/ DeleteProfile(h) \/ Fail(h) \/ RemoveOrphan(h)
    PROVE  CommitInvariant'
<1> USE HandlerHas
<1>r. ASSUME Return(h) PROVE Moves(h) /\ WorkingOK(h)'
  <2>1. hand'[h].pc = "idle" /\ \A g \in Handler : g # h => hand'[g] = hand[g]
    <3>1. AtRest.pc = "idle" /\ hand' = [hand EXCEPT ![h] = AtRest]
      BY <1>r DEF Return, AtRest
    <3> QED BY <3>1, HandlerHas
  <2> QED BY <2>1, AtRestWorking DEF Moves, LockedPc, Ungated
<1>q. ASSUME UNCHANGED <<session, ledger, temp, final>> PROVE Quiet
  BY <1>q DEF Quiet
<1>1. CASE StartLookup(h)
  <2>1. CASE Return(h)
    BY <1>1, <2>1, <1>r, <1>q, QuietMove DEF StartLookup
  <2>2. CASE Goto(h, "startCreate")
    <3>1. /\ hand'[h].pc = "startCreate" /\ hand'[h].dev = hand[h].dev
          /\ \A g \in Handler : g # h => hand'[g] = hand[g]
      BY <2>2 DEF Goto, CommitInvariant, TypeOK, Local
    <3>2. Moves(h)
      BY <1>1, <3>1 DEF Moves, StartLookup, LockedPc, ExclusivePc, Ungated
    <3>3. WorkingOK(h)'
      BY <3>1 DEF WorkingOK, LockedPc
    <3> QED BY <1>1, <3>2, <3>3, <1>q, QuietMove DEF StartLookup
  <2> QED BY <1>1, <2>1, <2>2 DEF StartLookup
<1>2. CASE RecoverLock(h)
  <2>1. /\ hand'[h].pc = "recover" /\ hand'[h].dev = hand[h].dev
        /\ hand'[h].uid = hand[h].uid
        /\ \A g \in Handler : g # h => hand'[g] = hand[g]
    BY <1>2 DEF RecoverLock, Goto, CommitInvariant, TypeOK, Local
  <2>2. Moves(h)
    BY <1>2, <2>1 DEF Moves, RecoverLock, LockedPc, ExclusivePc, Ungated
  <2>3. WorkingOK(h)'
    BY <1>2, <2>1 DEF WorkingOK, LockedPc, RecoverLock
  <2> QED BY <1>2, <2>2, <2>3, <1>q, QuietMove DEF RecoverLock
<1>3. CASE ReserveRefused(h)
  BY <1>3, <1>r, <1>q, QuietMove DEF ReserveRefused
<1>4. CASE Fail(h)
  BY <1>4, <1>r, <1>q, QuietMove DEF Fail
<1>5. CASE DeleteProfile(h)
  BY <1>5, <1>r, <1>q, QuietMove DEF DeleteProfile
<1>6. CASE LinkConflict(h)
  <2>1. CASE Return(h)
    BY <1>6, <2>1, <1>r, <1>q, QuietMove DEF LinkConflict
  <2>2. CASE ~Return(h)
    <3>1. /\ hand'[h].pc = "reserve" /\ hand'[h].dev = hand[h].dev
          /\ hand'[h].uid = hand[h].uid /\ hand'[h].sum = hand[h].sum
          /\ \A g \in Handler : g # h => hand'[g] = hand[g]
      <4> DEFINE at(n) == [hand[h] EXCEPT !.pc = "reserve", !.try = n]
      <4>1. \A n : /\ at(n).pc = "reserve" /\ at(n).dev = hand[h].dev
                   /\ at(n).uid = hand[h].uid /\ at(n).sum = hand[h].sum
        BY DEF Local
      <4>2. \E n : hand' = [hand EXCEPT ![h] = at(n)]
        BY <1>6, <2>2 DEF LinkConflict
      <4> HIDE DEF at
      <4> QED BY <4>1, <4>2
    <3>2. Moves(h)
      BY <1>6, <3>1 DEF Moves, LinkConflict, LockedPc, ExclusivePc, Ungated
    <3>3. session[hand[h].uid].status = "committing"
      <4>1. hand[h].uid \in UploadId /\ Pending(hand[h].uid)
        BY <1>6 DEF WorkingOK, LinkConflict, LockedPc
      <4>2. RowOK(session[hand[h].uid].asset)
        BY <4>1 DEF CommitInvariant, TypeOK, Session
      <4> QED BY <4>1, <4>2 DEF RowOK, Pending, HasRow, RowOf
    <3>4. WorkingOK(h)'
      BY <1>6, <3>1, <3>3 DEF WorkingOK, LockedPc, LinkConflict
    <3> QED BY <1>6, <3>2, <3>4, <1>q, QuietMove DEF LinkConflict
  <2> QED BY <2>1, <2>2
<1>7. CASE RecoverDecide(h)
  <2> DEFINE u == hand[h].uid
  <2>0. /\ u \in UploadId /\ hand[h].dev = Owner[session[u].asset]
        /\ session[u].status # "unborn" /\ hand[h].pc = "recover"
    BY <1>7 DEF RecoverDecide, WorkingOK, LockedPc
  <2>1. CASE Return(h)
    BY <1>7, <2>1, <1>r, <1>q, QuietMove DEF RecoverDecide
  <2>2. CASE Pending(u) /\ FinalOK(u) /\ Goto(h, "rmark")
    <3>1. /\ hand'[h].pc = "rmark" /\ hand'[h].dev = hand[h].dev
          /\ hand'[h].uid = hand[h].uid
          /\ \A g \in Handler : g # h => hand'[g] = hand[g]
      BY <2>2 DEF Goto, CommitInvariant, TypeOK, Local
    <3>2. Moves(h)
      BY <2>0, <3>1 DEF Moves, LockedPc, ExclusivePc, Ungated
    <3>a. Pending(u)' /\ FinalOK(u)' /\ session' = session
      BY <1>7, <2>2, <3>1
      DEF RecoverDecide, Pending, HasRow, RowOf, FinalOK, Stored
    <3>3. WorkingOK(h)'
      BY <2>0, <3>1, <3>a DEF WorkingOK, LockedPc, Pending, HasRow, RowOf, FinalOK
    <3> QED BY <1>7, <3>2, <3>3, <1>q, QuietMove DEF RecoverDecide
  <2>3. CASE /\ Pending(u) /\ ~FinalOK(u) /\ TempOK(u)
             /\ hand' = [hand EXCEPT ![h] =
                   [hand[h] EXCEPT !.pc = "reserve", !.base = RowOf(u).path,
                                   !.try = 0, !.sum = RowOf(u).sum]]
    <3>1. /\ hand'[h].pc = "reserve" /\ hand'[h].dev = hand[h].dev
          /\ hand'[h].uid = hand[h].uid /\ hand'[h].sum = RowOf(u).sum
          /\ \A g \in Handler : g # h => hand'[g] = hand[g]
      BY <2>3 DEF CommitInvariant, TypeOK, Local
    <3>2. Moves(h)
      BY <2>0, <3>1 DEF Moves, LockedPc, ExclusivePc, Ungated
    <3>3. session[u].status = "committing"
      <4>1. RowOK(session[u].asset)
        BY <2>0 DEF CommitInvariant, TypeOK, Session
      <4> QED BY <2>3, <4>1 DEF RowOK, Pending, HasRow, RowOf
    <3>4. \A f \in final : f.by # u
      <4> SUFFICES ASSUME NEW f \in final, f.by = u PROVE FALSE
        OBVIOUS
      <4>1. FileOK(f) /\ f.by # NoUpload
        BY <2>0, NoUploadAssumption DEF CommitInvariant
      <4>2. f.path = RowOf(u).path /\ f.data = RowOf(u).sum
        BY <3>3, <4>1 DEF FileOK
      <4> QED BY <2>3, <4>2 DEF FinalOK, Stored
    <3>5. temp[u] # NoFile /\ temp[u].data = RowOf(u).sum
      BY <2>3 DEF TempOK
    <3>6. WorkingOK(h)'
      <4>1. /\ hand'[h].pc = "reserve" /\ hand'[h].uid = u /\ u \in UploadId
            /\ hand'[h].dev = Owner[session[u].asset] /\ hand'[h].sum = RowOf(u).sum
        BY <2>0, <3>1
      <4>2. session' = session /\ temp' = temp /\ final' = final
        BY <1>7 DEF RecoverDecide
      <4> HIDE DEF u
      <4> QED BY <3>3, <3>4, <3>5, <4>1, <4>2 DEF WorkingOK, LockedPc
    <3> QED BY <1>7, <3>2, <3>6, <1>q, QuietMove DEF RecoverDecide
  <2> QED BY <1>7, <2>1, <2>2, <2>3 DEF RecoverDecide, Pending
<1>8. CASE RemoveTemp(h)
  <2>1. /\ hand[h].uid \in UploadId
        /\ session[hand[h].uid].status \in {"aborted", "completed", "gone"}
    BY <1>8 DEF RemoveTemp, WorkingOK, LockedPc
  <2>2. Quiet
    BY <1>8, <2>1 DEF RemoveTemp, Quiet, CommitInvariant, TypeOK
  <2> QED BY <1>8, <2>2, <1>r, QuietMove DEF RemoveTemp
<1>9. ASSUME NEW u \in UploadId, NEW removed \in BOOLEAN,
             RemoveFile(h, u, removed)
      PROVE  CommitInvariant'
  <2>1. session[u].status = "gone" /\ hand[h].pc = "rmfiles"
    BY <1>9 DEF RemoveFile, WorkingOK
  <2>2. Quiet
    BY <1>9, <2>1 DEF RemoveFile, Quiet, CommitInvariant, TypeOK
  <2>3. /\ hand'[h].pc = "rmfiles" /\ hand'[h].dev = hand[h].dev
        /\ hand'[h].files \subseteq hand[h].files
        /\ \A g \in Handler : g # h => hand'[g] = hand[g]
    BY <1>9, <2>1 DEF RemoveFile, CommitInvariant, TypeOK, Local
  <2>4. Moves(h)
    BY <2>1, <2>3 DEF Moves, LockedPc, ExclusivePc, Ungated
  <2>5. WorkingOK(h)'
    BY <1>9, <2>1, <2>3 DEF WorkingOK, LockedPc, RemoveFile
  <2> QED BY <2>2, <2>4, <2>5, QuietMove
<1>10. CASE FilesRemoved(h)
  <2>1. /\ hand'[h].pc \in {"profile", "idle"} /\ hand'[h].dev = hand[h].dev
        /\ \A g \in Handler : g # h => hand'[g] = hand[g]
    BY <1>10 DEF FilesRemoved, Goto, CommitInvariant, TypeOK, Local
  <2>2. Moves(h)
    BY <1>10, <2>1 DEF Moves, FilesRemoved, LockedPc, ExclusivePc, Ungated
  <2>3. WorkingOK(h)'
    BY <2>1 DEF WorkingOK, LockedPc
  <2> QED BY <1>10, <2>2, <2>3, <1>q, QuietMove DEF FilesRemoved
<1>11. CASE RemoveOrphan(h)
  <2>1. hand[h].uid \in UploadId /\ session[hand[h].uid].status = "gone"
    BY <1>11 DEF RemoveOrphan, WorkingOK, LockedPc
  <2>2. Quiet
    BY <1>11, <2>1 DEF RemoveOrphan, Quiet, CommitInvariant, TypeOK
  <2> QED BY <1>11, <2>2, <1>r, QuietMove DEF RemoveOrphan
<1> QED
  BY <1>1, <1>2, <1>3, <1>4, <1>5, <1>6, <1>7, <1>8, <1>9, <1>10, <1>11

\* A request that arrives and only reads.
LEMMA QuietArrivals ==
    ASSUME CommitInvariant, TypeOK', NEW h \in Handler,
           \/ \E a \in Asset : StartRead(h, a)
           \/ \E u \in UploadId : CompleteBegin(h, u)
           \/ \E d \in Device : RevokeDevice(h, d)
    PROVE  CommitInvariant'
<1> USE HandlerHas
<1>q. ASSUME UNCHANGED <<session, ledger, temp, final>> PROVE Quiet
  BY <1>q DEF Quiet
<1>1. ASSUME NEW a \in Asset, StartRead(h, a) PROVE CommitInvariant'
  <2> DEFINE at(pc, u) == [hand[h] EXCEPT !.pc = pc, !.dev = Owner[a],
                                          !.asset = a, !.uid = u]
  <2>1. \A pc, u : /\ at(pc, u).pc = pc /\ at(pc, u).dev = Owner[a]
                   /\ at(pc, u).uid = u
    BY DEF Local
  <2>2. \/ /\ ledger[a].status = "committing"
           /\ hand' = [hand EXCEPT ![h] = at("recoverWait", ledger[a].uid)]
        \/ hand' = [hand EXCEPT ![h] = at("startLookup", NoUpload)]
    BY <1>1 DEF StartRead
  <2> HIDE DEF at
  <2>3. /\ \A g \in Handler : g # h => hand'[g] = hand[g]
        /\ hand'[h].dev = Owner[a]
        /\ \/ hand'[h].pc = "startLookup"
           \/ /\ ledger[a].status = "committing"
              /\ hand'[h].pc = "recoverWait" /\ hand'[h].uid = ledger[a].uid
    BY SMTT(30), <2>1, <2>2
  <2>4. Moves(h)
    BY <1>1, <2>3 DEF Moves, StartRead, LockedPc, ExclusivePc, Ungated
  <2>5. RowOK(a) /\ session' = session
    BY <1>1 DEF CommitInvariant, StartRead
  <2>6. WorkingOK(h)'
    BY <2>3, <2>5 DEF WorkingOK, LockedPc, RowOK
  <2> QED BY <1>1, <2>4, <2>6, <1>q, QuietMove DEF StartRead
<1>2. ASSUME NEW u \in UploadId, CompleteBegin(h, u) PROVE CommitInvariant'
  <2>2. LockFree(u) /\ GateOpen(Owner[session[u].asset])
        /\ session[u].status \in {"active", "committing", "completed"}
        /\ UNCHANGED <<session, ledger, temp, final>>
    BY <1>2 DEF CompleteBegin, Enter, TakeLock
  <2>3. CASE Enter(h, "recover", u)
    <3>1. /\ hand'[h].pc = "recover" /\ hand'[h].uid = u
          /\ hand'[h].dev = Owner[session[u].asset]
          /\ \A g \in Handler : g # h => hand'[g] = hand[g]
      BY <2>3 DEF Enter, TakeLock, CommitInvariant, TypeOK, Local
    <3>2. Moves(h)
      BY <2>2, <3>1 DEF Moves, ExclusivePc, Ungated
    <3>3. WorkingOK(h)'
      BY <2>2, <3>1 DEF WorkingOK, LockedPc
    <3> QED BY <2>2, <3>2, <3>3, <1>q, QuietMove
  <2>4. CASE ~Enter(h, "recover", u)
    <3> DEFINE at == [hand[h] EXCEPT !.pc = "reserve", !.uid = u,
                          !.asset = session[u].asset,
                          !.dev = Owner[session[u].asset],
                          !.base = BasePath[session[u].asset], !.try = 0,
                          !.sum = temp[u].data]
    <3>1. /\ at.pc = "reserve" /\ at.uid = u /\ at.sum = temp[u].data
          /\ at.dev = Owner[session[u].asset]
      BY DEF Local
    <3>2. /\ hand' = [hand EXCEPT ![h] = at]
          /\ ~HasRow(u) /\ session[u].status # "completed" /\ temp[u] # NoFile
      BY <1>2, <2>4 DEF CompleteBegin, Verified
    <3> HIDE DEF at
    <3>a. hand'[h] = at /\ \A g \in Handler : g # h => hand'[g] = hand[g]
      BY <3>2
    <3>3. Moves(h)
      BY <2>2, <3>1, <3>a DEF Moves, ExclusivePc, Ungated
    <3>4. session[u].status = "active"
      BY <2>2, <3>2 DEF CommitInvariant, SessionOK, Pending
    <3>5. \A f \in final : f.by # u
      BY <3>4, NoUploadAssumption DEF CommitInvariant, FileOK
    <3>6. WorkingOK(h)'
      BY <2>2, <3>1, <3>2, <3>4, <3>5, <3>a DEF WorkingOK, LockedPc
    <3> QED BY <2>2, <3>3, <3>6, <1>q, QuietMove
  <2> QED BY <2>3, <2>4
<1>3. ASSUME NEW d \in Device, RevokeDevice(h, d) PROVE CommitInvariant'
  <2>1. /\ hand'[h].pc = "revoke" /\ hand'[h].dev = d
        /\ \A g \in Handler : g # h => hand'[g] = hand[g]
    BY ZenonT(60), <1>3 DEF RevokeDevice, CommitInvariant, TypeOK, Local
  <2>2. Moves(h)
    BY <1>3, <2>1 DEF Moves, RevokeDevice, LockedPc, Ungated
  <2>3. WorkingOK(h)'
    BY <2>1 DEF WorkingOK, LockedPc
  <2> QED BY <1>3, <2>2, <2>3, <1>q, QuietMove DEF RevokeDevice
<1> QED BY <1>1, <1>2, <1>3

\* The orphans, the clock, the policy, other programs, the end of the process.
LEMMA QuietOtherSteps ==
    ASSUME CommitInvariant, TypeOK',
           Environment \/ \E u \in UploadId : LookupOrphan(u)
    PROVE  CommitInvariant'
<1>1. ASSUME NEW u \in UploadId, LookupOrphan(u) PROVE CommitInvariant'
  <2>1. Quiet
    BY <1>1 DEF LookupOrphan, Quiet
  <2>2. Maintainer \in Handler
    BY DEF Handler
  <2>3. /\ hand'[Maintainer].pc = "orphan" /\ hand'[Maintainer].uid = u
        /\ hand'[Maintainer].dev = Owner[session[u].asset]
        /\ \A g \in Handler : g # Maintainer => hand'[g] = hand[g]
    <3>1. hand \in [Handler -> Local] /\ hand[Maintainer] \in Local
      BY <2>2 DEF CommitInvariant, TypeOK
    <3> DEFINE k == hand[Maintainer]
               m == [k EXCEPT !.pc = "orphan", !.uid = u, !.asset = session[u].asset,
                              !.dev = Owner[session[u].asset]]
    <3>2. hand' = [hand EXCEPT ![Maintainer] = m]
      BY <1>1 DEF LookupOrphan, TakeLock
    <3>3. m.pc = "orphan" /\ m.uid = u /\ m.dev = Owner[session[u].asset]
      BY <3>1 DEF Local
    <3> HIDE DEF m
    <3>4. hand'[Maintainer] = m /\ \A g \in Handler : g # Maintainer => hand'[g] = hand[g]
      BY <2>2, <3>1, <3>2
    <3> QED BY <3>3, <3>4
  <2>4. LockFree(u) /\ session' = session
    BY <1>1 DEF LookupOrphan, TakeLock
  <2>5. Moves(Maintainer)
    BY <2>3, <2>4 DEF Moves, Ungated
  <2>6. session[u].status = "gone"
    BY <1>1 DEF LookupOrphan, Orphan, CommitInvariant, SessionOK
  <2>7. WorkingOK(Maintainer)'
    BY <2>3, <2>4, <2>6 DEF WorkingOK, LockedPc
  <2> QED BY <2>1, <2>2, <2>5, <2>7, QuietMove
<1>2. ASSUME NEW u \in UploadId, SessionAges(u) PROVE CommitInvariant'
  <2>1. Quiet
    BY <1>2 DEF SessionAges, Quiet, CommitInvariant, TypeOK, Session
  <2> QED BY <1>2, <2>1, QuietStill DEF SessionAges
<1>3. ASSUME NEW u \in UploadId, TempAges(u) PROVE CommitInvariant'
  <2>1. temp[u] \in Temp
    BY <1>3 DEF TempAges, CommitInvariant, TypeOK
  <2>2. [temp[u] EXCEPT !.old = TRUE] # NoFile
        /\ [temp[u] EXCEPT !.old = TRUE].data = temp[u].data
    BY <2>1, NoFileAssumption DEF Temp
  <2>3. Quiet
    BY <1>3, <2>2 DEF TempAges, Quiet, CommitInvariant, TypeOK
  <2> QED BY <1>3, <2>3, QuietStill DEF TempAges
<1>4. ASSUME NEW d \in Device, NEW allowed, UpdatePolicy(d, allowed)
      PROVE  CommitInvariant'
  <2>1. Quiet /\ hand' = hand
    BY <1>4 DEF UpdatePolicy, Quiet
  <2> QED BY <2>1, QuietStill
<1>5. ASSUME NEW f \in Foreign, ForeignFile(f) PROVE CommitInvariant'
  <2>1. Quiet /\ hand' = hand
    BY <1>5 DEF ForeignFile, Quiet
  <2> QED BY <2>1, QuietStill
<1>6. CASE Crash
  <2>1. Quiet
    BY <1>6 DEF Crash, Quiet
  <2>2. \A h \in Handler : hand'[h].pc = "idle"
    BY <1>6 DEF Crash, AtRest
  <2>3. SessionsLocked' /\ DevicesGated'
    BY <2>2 DEF SessionsLocked, DevicesGated, LockedPc, ExclusivePc
  <2> QED BY <2>1, <2>2, <2>3, AtRestWorking, QuietKeeps DEF CommitInvariant
<1> QED
  BY <1>1, <1>2, <1>3, <1>4, <1>5, <1>6 DEF Environment

\* A step of one handler under the lock of upload v.
LEMMA WorkedMove ==
    ASSUME CommitInvariant, TypeOK', NEW v \in UploadId, WorksOn(v),
           NEW h \in Handler, Moves(h),
           \/ hand[h].pc \in LockedPc /\ hand[h].uid = v
           \/ LockFree(v)
           \/ session[v].status = "unborn",
           WorkingOK(h)',
           \A a \in Asset : ledger[a].status = "none" \/ ledger[a].uid = v
               => RowOK(a)',
           SessionOK(v)',
           \A f \in final' : f.by = v => FileOK(f)',
           \A f, g \in final' : f.by = v /\ g.by = v => f = g
    PROVE  CommitInvariant'
<1>1. SessionsLocked' /\ DevicesGated'
  BY LocksKeep DEF CommitInvariant
<1>2. \A g \in Handler : g # h => ~(hand[g].pc \in LockedPc /\ hand[g].uid = v)
  BY DEF CommitInvariant, SessionsLocked, LockFree, WorkingOK
<1>3. \A g \in Handler : WorkingOK(g)'
  BY <1>2, OthersKeep DEF Moves
<1>4. \A a \in Asset : RowOK(a)'
  BY OthersKeep
<1>5. \A u \in UploadId : SessionOK(u)'
  BY OthersKeep
<1>6. \A f \in final' : FileOK(f)'
  BY OthersKeep DEF WorksOn
<1>7. PlacedOnce'
  BY DEF WorksOn, CommitInvariant, PlacedOnce
<1> QED BY <1>1, <1>3, <1>4, <1>5, <1>6, <1>7 DEF CommitInvariant
=============================================================================
