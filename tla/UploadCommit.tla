---------------------------- MODULE UploadCommit ----------------------------
(***************************************************************************)
(* The upload path of the agent: resumable sessions, the once-only ledger  *)
(* of uploaded assets, the temporary and the final files, and the request  *)
(* handlers and the maintenance loop that work on them at the same time.   *)
(*                                                                         *)
(* SQLite serves one connection, so a transaction is one action; so is a   *)
(* file-system call.  A handler is a program counter that stands between   *)
(* two such calls.  It holds, from the counter alone,                      *)
(*   - the shared gate of its device at every counter of SharedPc,         *)
(*   - the lock of its session at every counter of LockedPc (at "orphan"   *)
(*     that lock and no gate),                                             *)
(*   - the exclusive gate of its device at every counter of ExclusivePc.   *)
(* What the handlers hold dies with the process (Crash); the registry, the *)
(* profiles, the tables and the files do not.                              *)
(*                                                                         *)
(* A file's content is its sequence of chunks and stands for its own SHA-1 *)
(* (no collisions).  Path suffixes are kept, path wording is not: "x-2-3"  *)
(* is <<x, 2, 3>>.                                                         *)
(***************************************************************************)
EXTENDS Naturals, Sequences

CONSTANTS
    Device,        \* devices that were paired before the model starts
    Asset,         \* source identities: one (asset id, version) of one device
    UploadId,      \* identities drawn by randomUploadID, never drawn twice
    Chunk,         \* contents one chunk may have
    Request,       \* concurrent request handlers
    Maintainer,    \* the maintenance goroutine
    Owner,         \* Owner[a]: the device whose asset a is
    Size,          \* Size[a]: expectedSizeBytes of a, counted in chunks
    BasePath,      \* BasePath[a]: the rendered final path of a
    Foreign,       \* files another program may drop into the upload root
    MaxAttempts,   \* final paths tried by one commit (1000 in the code)
    MaxEpoch,      \* bound: resets of a device in one behaviour
    NoFile, NoUpload

Path == Seq(Nat)

ASSUME NonEmptyAssumption == Device # {} /\ Asset # {}
ASSUME OwnerAssumption == Owner \in [Asset -> Device]
ASSUME SizeAssumption == Size \in [Asset -> Nat]
ASSUME BasePathAssumption == BasePath \in [Asset -> Path]
ASSUME ForeignAssumption ==
    \A f \in Foreign : f.path \in Path /\ f.data \in Seq(Chunk)
ASSUME BoundAssumption == MaxAttempts \in Nat \ {0} /\ MaxEpoch \in Nat
ASSUME MaintainerAssumption == Maintainer \notin Request
ASSUME NoUploadAssumption == NoUpload \notin UploadId
ASSUME NoFileAssumption ==
    NoFile \notin [data : Seq(Chunk), old : BOOLEAN]

VARIABLES
    paired,    \* devices in the registry
    admits,    \* admits[d]: assets the upload policy of d lets in
    epoch,     \* epoch[d]: generation of d's ledger
    session,   \* upload_sessions, by upload id
    ledger,    \* uploaded_assets, by source identity (UNIQUE)
    temp,      \* temporary files, by the upload id in their name
    final,     \* the files of the upload root: path, content, who made it
    hand       \* handlers: program counter and locals

vars == <<paired, admits, epoch, session, ledger, temp, final, hand>>

-----------------------------------------------------------------------------
Handler == Request \cup {Maintainer}

LockedPc == {"append", "recover", "reserve", "link", "unlink", "mark",
             "rmark", "rtemp", "orphan"}
Ungated == {"idle", "orphan"}
SharedPc == (LockedPc \ Ungated) \cup {"startLookup", "startCreate", "recoverWait"}
ExclusivePc == {"revoke", "rmfiles", "profile"}
Pc == {"idle"} \cup LockedPc \cup SharedPc \cup ExclusivePc

SessionStatus == {"unborn", "active", "committing", "completed", "aborted",
                  "gone"}
Temp == [data : Seq(Chunk), old : BOOLEAN]
Session == [status : SessionStatus, asset : Asset, next : Nat, aged : BOOLEAN]
Row == [status : {"none", "committing", "uploaded"},
        uid : UploadId \cup {NoUpload}, path : Path, sum : Seq(Chunk)]
File == [path : Path, data : Seq(Chunk), by : UploadId \cup {NoUpload}]
Local == [pc : Pc, dev : Device, asset : Asset,
          uid : UploadId \cup {NoUpload}, base : Path, try : Nat,
          sum : Seq(Chunk), files : SUBSET UploadId, revoking : BOOLEAN]

\* uploadDevices.readLock: no reset or revocation works on the device.
GateOpen(d) ==
    \A h \in Handler : ~(hand[h].pc \in ExclusivePc /\ hand[h].dev = d)
\* Broken variant: the exclusive gate lets readers in.
GateFreeOfWriters(d) == GateOpen(d)
\* uploadDevices.lock: nobody works on the device.
GateFree(d) == \A h \in Handler : hand[h].pc \in Ungated \/ hand[h].dev # d
\* Broken variant: the session lock is not waited for.
LockNotTaken(u) == TRUE
\* uploadSessions.lock
LockFree(u) ==
    \A h \in Handler : ~(hand[h].pc \in LockedPc /\ hand[h].uid = u)

\* A handler without a request, and a source identity without a row.
AtRest == [pc |-> "idle", dev |-> CHOOSE d \in Device : TRUE,
           asset |-> CHOOSE a \in Asset : TRUE, uid |-> NoUpload,
           base |-> <<>>, try |-> 0, sum |-> <<>>, files |-> {},
           revoking |-> FALSE]
NoRow == [status |-> "none", uid |-> NoUpload, path |-> <<>>, sum |-> <<>>]

Idle(h) == hand[h].pc = "idle"
Goto(h, pc) == hand' = [hand EXCEPT ![h].pc = pc]
\* The handler answers: its locks are released, its locals are gone.
Return(h) == hand' = [hand EXCEPT ![h] = AtRest]
\* uploadSessions.tryLock: the session lock alone.
TakeLock(h, pc, u) ==
    /\ Idle(h)
    /\ LockFree(u)
    /\ hand' = [hand EXCEPT ![h] =
           [@ EXCEPT !.pc = pc, !.uid = u, !.asset = session[u].asset,
                     !.dev = Owner[session[u].asset]]]
\* lockUploadSession: the device gate, then the session lock.
Enter(h, pc, u) == GateOpen(Owner[session[u].asset]) /\ TakeLock(h, pc, u)

Suffixed(p, n) == IF n = 0 THEN p ELSE Append(p, n + 1)
Stored(p, data) == \E f \in final : f.path = p /\ f.data = data
Occupied(p) == \E f \in final : f.path = p

RowOf(u) == ledger[session[u].asset]
\* GetUploadedAssetByUploadID found a row.
HasRow(u) == RowOf(u).status # "none" /\ RowOf(u).uid = u

\* The profile, read once, lets the session's asset in.
Admitted(u) == session[u].asset \in admits[Owner[session[u].asset]]
IsPaired(u) == Owner[session[u].asset] \in paired

-----------------------------------------------------------------------------
(* StartUploadSession: three reads and an insert, under the shared gate only. *)

\* The device, its profile and the ledger are read.  An uploaded row answers
\* already_uploaded, a closed policy answers blocked: neither changes anything.
StartRead(h, a) ==
    /\ h \in Request /\ Idle(h)
    /\ GateOpen(Owner[a]) /\ Owner[a] \in paired
    /\ \/ /\ ledger[a].status = "committing"
          /\ hand' = [hand EXCEPT ![h] =
                 [@ EXCEPT !.pc = "recoverWait", !.dev = Owner[a],
                           !.asset = a, !.uid = ledger[a].uid]]
       \/ /\ ledger[a].status = "none" /\ a \in admits[Owner[a]]
          /\ hand' = [hand EXCEPT ![h] =
                 [@ EXCEPT !.pc = "startLookup", !.dev = Owner[a],
                           !.asset = a, !.uid = NoUpload]]
    /\ UNCHANGED <<paired, admits, epoch, session, ledger, temp, final>>

ActiveSessions(a) ==
    {u \in UploadId : session[u].status = "active" /\ session[u].asset = a}

\* The latest active session is resumed unless it expired; which of several is
\* the latest is left open.
StartLookup(h) ==
    /\ hand[h].pc = "startLookup"
    /\ LET active == ActiveSessions(hand[h].asset)
       IN  \/ (\E u \in active : ~session[u].aged) /\ Return(h)
           \/ /\ active = {} \/ \E u \in active : session[u].aged
              /\ Goto(h, "startCreate")
    /\ UNCHANGED <<paired, admits, epoch, session, ledger, temp, final>>

StartCreate(h, u) ==
    /\ hand[h].pc = "startCreate"
    /\ session[u].status = "unborn"
    /\ session' = [session EXCEPT ![u] = [status |-> "active", next |-> 0,
                       asset |-> hand[h].asset, aged |-> FALSE]]
    /\ Return(h)
    /\ UNCHANGED <<paired, admits, epoch, ledger, temp, final>>

\* recoverPendingUploadAsset waits for the session lock, inside the gate.
RecoverLock(h) ==
    /\ hand[h].pc = "recoverWait"
    /\ LockFree(hand[h].uid)
    /\ Goto(h, "recover")
    /\ UNCHANGED <<paired, admits, epoch, session, ledger, temp, final>>

-----------------------------------------------------------------------------
(* AppendUploadChunk: the chunk reaches the disk before the offset advances. *)

\* Broken variant: the status is not looked at.
UsableWhileCommitting(u) ==
    /\ session[u].status \in {"active", "committing"} /\ ~session[u].aged
    /\ IsPaired(u) /\ Admitted(u)
\* activeUploadSessionContext
Usable(u) ==
    /\ session[u].status = "active" /\ ~session[u].aged
    /\ IsPaired(u) /\ Admitted(u)

\* The temporary file has the size the session confirms.
TempAt(u, n) ==
    IF temp[u] = NoFile THEN n = 0 ELSE Len(temp[u].data) = n
TempData(u) == IF temp[u] = NoFile THEN <<>> ELSE temp[u].data

\* Writing to the temporary file writes to every final file that still shares
\* its inode, as a final file made by os.Link does until os.Remove.
WriteThrough(u, data) ==
    {IF temp[u] # NoFile /\ f.by = u THEN [f EXCEPT !.data = data] ELSE f
        : f \in final}

AppendWrite(h, u, c) ==
    /\ h \in Request
    /\ Usable(u)
    /\ session[u].next < Size[session[u].asset]
    /\ TempAt(u, session[u].next)
    /\ Enter(h, "append", u)
    /\ LET data == Append(TempData(u), c)
       IN  /\ temp' = [temp EXCEPT ![u] = [data |-> data, old |-> FALSE]]
           /\ final' = WriteThrough(u, data)
    /\ UNCHANGED <<paired, admits, epoch, session, ledger>>

\* UpdateSessionProgress, a compare-and-swap on status and offset.
AppendCommit(h) ==
    LET u == hand[h].uid IN
    /\ hand[h].pc = "append"
    /\ session[u].status = "active"
    /\ session[u].next + 1 = Len(TempData(u))
    /\ session' = [session EXCEPT ![u].next = session[u].next + 1]
    /\ Return(h)
    /\ UNCHANGED <<paired, admits, epoch, ledger, temp, final>>

\* The body is short, its SHA-1 differs or the update fails: the file is cut
\* back to the confirmed offset (Fail is the case where the cut fails too).
AppendUndo(h) ==
    LET u == hand[h].uid
        data == SubSeq(TempData(u), 1, session[u].next)
    IN
    /\ hand[h].pc = "append"
    /\ temp[u] # NoFile
    /\ temp' = [temp EXCEPT ![u] = [data |-> data, old |-> FALSE]]
    /\ final' = WriteThrough(u, data)
    /\ Return(h)
    /\ UNCHANGED <<paired, admits, epoch, session, ledger>>

-----------------------------------------------------------------------------
(* CompleteUploadSession and the commit: reserve, link, unlink, mark. *)

\* Broken variant: the confirmed offset is not compared.
VerifiedBySize(u) ==
    /\ temp[u] # NoFile
    /\ Len(temp[u].data) = Size[session[u].asset]
\* The temporary file has the expected size and the confirmed size.
Verified(u) ==
    /\ temp[u] # NoFile
    /\ Len(temp[u].data) = Size[session[u].asset]
    /\ Len(temp[u].data) = session[u].next

\* A completion that finds the reservation of an earlier one recovers it; a
\* first completion checks the bytes.  One that finds its row uploaded answers
\* completed and changes nothing.  Expiry is not checked here.
CompleteBegin(h, u) ==
    /\ h \in Request
    /\ session[u].status \in {"active", "committing", "completed"}
    /\ IsPaired(u)
    /\ \/ /\ HasRow(u) /\ RowOf(u).status = "committing"
          /\ Enter(h, "recover", u)
       \/ /\ ~HasRow(u)
          /\ session[u].status # "completed"
          /\ Admitted(u)
          /\ Verified(u)
          /\ Idle(h) /\ LockFree(u) /\ GateOpen(Owner[session[u].asset])
          /\ hand' = [hand EXCEPT ![h] =
                 [@ EXCEPT !.pc = "reserve", !.uid = u,
                           !.asset = session[u].asset,
                           !.dev = Owner[session[u].asset],
                           !.base = BasePath[session[u].asset], !.try = 0,
                           !.sum = temp[u].data]]
    /\ UNCHANGED <<paired, admits, epoch, session, ledger, temp, final>>

TargetOf(h) == Suffixed(hand[h].base, hand[h].try)

\* Broken variant: a pending row of another session is replaced.
IdentityFreeUnlessUploaded(u) == RowOf(u).status # "uploaded"
\* The identity has no row, or the session's own pending one.
IdentityFree(u) ==
    RowOf(u).status = "none" \/ (HasRow(u) /\ RowOf(u).status = "committing")

\* Broken variant: the row is final before the file is.
ReservationAsUploaded(u, path, sum) ==
    [status |-> "uploaded", uid |-> u, path |-> path, sum |-> sum]
Reservation(u, path, sum) ==
    [status |-> "committing", uid |-> u, path |-> path, sum |-> sum]

\* ReserveUploadCommit takes the identity, or re-targets its own reservation.
Reserve(h) ==
    LET u == hand[h].uid IN
    /\ hand[h].pc = "reserve"
    /\ session[u].status \in {"active", "committing"}
    /\ IdentityFree(u)
    /\ session' = [session EXCEPT ![u].status = "committing"]
    /\ ledger' = [ledger EXCEPT ![session[u].asset] =
                      Reservation(u, TargetOf(h), hand[h].sum)]
    /\ Goto(h, "link")
    /\ UNCHANGED <<paired, admits, epoch, temp, final>>

\* The identity is taken, by an uploaded row (answered as success) or by a
\* pending one (answered as an error), or the session is closed: the
\* transaction rolls back.
ReserveRefused(h) ==
    LET u == hand[h].uid IN
    /\ hand[h].pc = "reserve"
    /\ session[u].status \notin {"active", "committing"} \/ ~IdentityFree(u)
    /\ Return(h)
    /\ UNCHANGED <<paired, admits, epoch, session, ledger, temp, final>>

\* Broken variant: os.Rename in the place of os.Link.
LinkFinalReplacing(h) ==
    LET u == hand[h].uid IN
    /\ hand[h].pc = "link"
    /\ temp[u] # NoFile
    /\ final' = {f \in final : f.path # TargetOf(h)} \cup
           {[path |-> TargetOf(h), data |-> temp[u].data, by |-> u]}
    /\ Goto(h, "unlink")
    /\ UNCHANGED <<paired, admits, epoch, session, ledger, temp>>

\* finalizeUploadFile, os.Link: never replaces a file.
LinkFinal(h) ==
    LET u == hand[h].uid IN
    /\ hand[h].pc = "link"
    /\ temp[u] # NoFile
    /\ ~Occupied(TargetOf(h))
    /\ final' = final \cup
           {[path |-> TargetOf(h), data |-> temp[u].data, by |-> u]}
    /\ Goto(h, "unlink")
    /\ UNCHANGED <<paired, admits, epoch, session, ledger, temp>>

\* ErrUploadFinalPathConflict: the next suffix is reserved, up to MaxAttempts.
LinkConflict(h) ==
    /\ hand[h].pc = "link"
    /\ temp[hand[h].uid] # NoFile
    /\ Occupied(TargetOf(h))
    /\ IF hand[h].try + 1 < MaxAttempts
       THEN hand' = [hand EXCEPT ![h] =
                         [@ EXCEPT !.pc = "reserve",
                                   !.try = hand[h].try + 1]]
       ELSE Return(h)
    /\ UNCHANGED <<paired, admits, epoch, session, ledger, temp, final>>

\* finalizeUploadFile, os.Remove
UnlinkTemp(h) ==
    /\ hand[h].pc = "unlink"
    /\ temp' = [temp EXCEPT ![hand[h].uid] = NoFile]
    /\ Goto(h, "mark")
    /\ UNCHANGED <<paired, admits, epoch, session, ledger, final>>

\* MarkUploaded: the row and its session in one transaction.
MarkUploaded(u) ==
    /\ HasRow(u)
    /\ session[u].status # "gone"
    /\ ledger' = [ledger EXCEPT ![session[u].asset].status = "uploaded"]
    /\ session' = [session EXCEPT ![u] = [@ EXCEPT !.status = "completed",
                                                   !.aged = FALSE]]

Mark(h) ==
    /\ hand[h].pc = "mark"
    /\ MarkUploaded(hand[h].uid)
    /\ Return(h)
    /\ UNCHANGED <<paired, admits, epoch, temp, final>>

-----------------------------------------------------------------------------
(* recoverPendingUploadAssetLocked: finish what an earlier commit left. *)

\* Broken variants: a file of the reserved name is enough; the final file is
\* not looked for; the temporary file is not looked for.
FinalOKByName(u) == Occupied(RowOf(u).path)
FinalOKNever(u) == FALSE
TempOKNever(u) == FALSE
\* uploadedFileMatches on the final and on the temporary file
FinalOK(u) == Stored(RowOf(u).path, RowOf(u).sum)
TempOK(u) ==
    /\ session[u].status # "gone"
    /\ temp[u] # NoFile
    /\ temp[u].data = RowOf(u).sum

\* The row is read again under the lock.  The final file may be there already;
\* else the temporary file is committed again from the reserved path on.
RecoverDecide(h) ==
    LET u == hand[h].uid
        pending == HasRow(u) /\ RowOf(u).status = "committing"
    IN
    /\ hand[h].pc = "recover"
    /\ \/ /\ pending /\ FinalOK(u)
          /\ Goto(h, "rmark")
       \/ /\ pending /\ ~FinalOK(u) /\ TempOK(u)
          /\ hand' = [hand EXCEPT ![h] =
                 [@ EXCEPT !.pc = "reserve", !.base = RowOf(u).path, !.try = 0,
                           !.sum = RowOf(u).sum]]
       \/ /\ ~(pending /\ (FinalOK(u) \/ TempOK(u)))
          /\ Return(h)
    /\ UNCHANGED <<paired, admits, epoch, session, ledger, temp, final>>

RecoverMark(h) ==
    /\ hand[h].pc = "rmark"
    /\ MarkUploaded(hand[h].uid)
    /\ Goto(h, "rtemp")
    /\ UNCHANGED <<paired, admits, epoch, temp, final>>

\* removeUploadTempFile ends a recovery, an abort and a session's cleanup.
RemoveTemp(h) ==
    /\ hand[h].pc = "rtemp"
    /\ temp' = [temp EXCEPT ![hand[h].uid] = NoFile]
    /\ Return(h)
    /\ UNCHANGED <<paired, admits, epoch, session, ledger, final>>

\* Broken variant: the status vocabulary of the ledger.
DeletedAsNone(u) ==
    [session[u] EXCEPT !.status = "none", !.next = 0, !.aged = FALSE]
\* The row of a session is deleted; its id is never drawn again.
Deleted(u) ==
    [session[u] EXCEPT !.status = "gone", !.next = 0, !.aged = FALSE]

-----------------------------------------------------------------------------
(* Abort, policy, reset and revocation. *)

AbortSession(h, u) ==
    /\ h \in Request
    /\ Usable(u)
    /\ Enter(h, "rtemp", u)
    /\ session' = [session EXCEPT ![u] = [@ EXCEPT !.status = "aborted",
                                                   !.aged = FALSE]]
    /\ UNCHANGED <<paired, admits, epoch, ledger, temp, final>>

\* UpdateDeviceUploadPolicy takes the shared gate: it may land between any two
\* steps of an upload.
UpdatePolicy(d, allowed) ==
    /\ GateOpen(d) /\ d \in paired
    /\ allowed # admits[d]
    /\ admits' = [admits EXCEPT ![d] = allowed]
    /\ UNCHANGED <<paired, epoch, session, ledger, temp, final, hand>>

\* The sessions of d in a reset range.
InRange(d, range) ==
    {u \in UploadId : /\ session[u].status \notin {"unborn", "gone"}
                      /\ Owner[session[u].asset] = d
                      /\ session[u].asset \in range}
\* Broken variant: the epoch is forgotten.
SameEpoch(d) == epoch
\* The ledger of d gets a new epoch.
NewEpoch(d) == [epoch EXCEPT ![d] = @ + 1]
\* UploadStore.ResetDeviceUploadState: the epoch, the rows and the sessions of
\* the range in one transaction; the temporary files go afterwards.
ResetRows(d, range) ==
    /\ epoch[d] < MaxEpoch
    /\ epoch' = NewEpoch(d)
    /\ ledger' = [a \in Asset |->
           IF Owner[a] = d /\ a \in range
           THEN NoRow ELSE ledger[a]]
    /\ session' = [u \in UploadId |->
           IF u \in InRange(d, range) THEN Deleted(u) ELSE session[u]]

ResetDevice(h, d, range) ==
    /\ h \in Request /\ Idle(h)
    /\ GateFree(d) /\ d \in paired
    /\ ResetRows(d, range)
    /\ hand' = [hand EXCEPT ![h] =
           [@ EXCEPT !.pc = "rmfiles", !.dev = d, !.revoking = FALSE,
                     !.files = InRange(d, range)]]
    /\ UNCHANGED <<paired, admits, temp, final>>

\* RevokeDevice: registry first.  A retry for a device that is already out of
\* the registry goes on with the rest.
RevokeDevice(h, d) ==
    /\ h \in Request /\ Idle(h)
    /\ GateFree(d)
    /\ paired' = paired \ {d}
    /\ hand' = [hand EXCEPT ![h] = [@ EXCEPT !.pc = "revoke", !.dev = d]]
    /\ UNCHANGED <<admits, epoch, session, ledger, temp, final>>

RevokeReset(h) ==
    /\ hand[h].pc = "revoke"
    /\ ResetRows(hand[h].dev, Asset)
    /\ hand' = [hand EXCEPT ![h] =
           [@ EXCEPT !.pc = "rmfiles", !.revoking = TRUE,
                     !.files = InRange(hand[h].dev, Asset)]]
    /\ UNCHANGED <<paired, admits, temp, final>>

\* removeUploadTempFiles: one file at a time; a file that cannot be removed is
\* reported and left.
RemoveFile(h, u, removed) ==
    /\ hand[h].pc = "rmfiles"
    /\ u \in hand[h].files
    /\ temp' = IF removed THEN [temp EXCEPT ![u] = NoFile] ELSE temp
    /\ hand' = [hand EXCEPT ![h].files = @ \ {u}]
    /\ UNCHANGED <<paired, admits, epoch, session, ledger, final>>

FilesRemoved(h) ==
    /\ hand[h].pc = "rmfiles"
    /\ hand[h].files = {}
    /\ Goto(h, IF hand[h].revoking THEN "profile" ELSE "idle")
    /\ UNCHANGED <<paired, admits, epoch, session, ledger, temp, final>>

DeleteProfile(h) ==
    /\ hand[h].pc = "profile"
    /\ admits' = [admits EXCEPT ![hand[h].dev] = {}]
    /\ Return(h)
    /\ UNCHANGED <<paired, epoch, session, ledger, temp, final>>

-----------------------------------------------------------------------------
(* RunUploadMaintenanceOnce.  Its snapshot of candidates authorises nothing: *)
(* eligibility is read again under the try-locks, so only that read counts.  *)

\* Broken variant: expired uploads are not candidates.
EligibleIfClosed(u) ==
    session[u].status \in {"completed", "aborted"} /\ session[u].aged
\* uploadCleanupPredicate: never a committing session.
Eligible(u) ==
    session[u].status \in {"active", "completed", "aborted"} /\ session[u].aged

\* CleanupUploadSession, then the session's file (RemoveTemp).
CleanupSession(u) ==
    /\ Eligible(u)
    /\ Enter(Maintainer, "rtemp", u)
    /\ session' = [session EXCEPT ![u] = Deleted(u)]
    /\ UNCHANGED <<paired, admits, epoch, ledger, temp, final>>

\* Broken variants: the session is not looked up; only files whose session is
\* there are taken for orphans.
OrphanUnchecked(u) == TRUE
OrphanIfAborted(u) == session[u].status = "aborted"
\* The session row is gone.
Orphan(u) == session[u].status \in {"unborn", "gone"}

\* removeOrphanUploadTempFile, up to the lookup under the session lock.  The
\* lookup before it decides nothing but whether the device gate is tried too;
\* here the gate stays free, as for a session that is unknown.  A file whose
\* session exists is that session's own file (os.SameFile) and stays.
LookupOrphan(u) ==
    /\ temp[u] # NoFile
    /\ Orphan(u)
    /\ TakeLock(Maintainer, "orphan", u)
    /\ UNCHANGED <<paired, admits, epoch, session, ledger, temp, final>>

\* os.Lstat and os.Remove: the file may be young, or gone meanwhile.
RemoveOrphan(h) ==
    LET u == hand[h].uid IN
    /\ hand[h].pc = "orphan"
    /\ temp' = IF temp[u] # NoFile /\ temp[u].old
               THEN [temp EXCEPT ![u] = NoFile] ELSE temp
    /\ Return(h)
    /\ UNCHANGED <<paired, admits, epoch, session, ledger, final>>

-----------------------------------------------------------------------------
(* The environment: time, errors, other programs, the end of the process. *)

\* expires_at, or the retention of a closed session, passes.
SessionAges(u) ==
    /\ session[u].status \in {"active", "completed", "aborted"}
    /\ ~session[u].aged
    /\ session' = [session EXCEPT ![u].aged = TRUE]
    /\ UNCHANGED <<paired, admits, epoch, ledger, temp, final, hand>>

\* The modification time passes the orphan cutoff.
TempAges(u) ==
    /\ temp[u] # NoFile /\ ~temp[u].old
    /\ temp' = [temp EXCEPT ![u].old = TRUE]
    /\ UNCHANGED <<paired, admits, epoch, session, ledger, final, hand>>

\* The call the handler is about to make returns an error, which it passes on.
\* Waiting for a lock cannot fail; removeUploadTempFiles collects its errors.
Fail(h) ==
    /\ hand[h].pc \notin {"idle", "recoverWait", "rmfiles"}
    /\ Return(h)
    /\ UNCHANGED <<paired, admits, epoch, session, ledger, temp, final>>

ForeignFile(f) ==
    /\ ~Occupied(f.path)
    /\ final' = final \cup {[path |-> f.path, data |-> f.data, by |-> NoUpload]}
    /\ UNCHANGED <<paired, admits, epoch, session, ledger, temp, hand>>

\* The process dies and is started again.
Crash ==
    /\ \E h \in Handler : ~Idle(h)
    /\ hand' = [h \in Handler |-> AtRest]
    /\ UNCHANGED <<paired, admits, epoch, session, ledger, temp, final>>

-----------------------------------------------------------------------------
Init ==
    /\ paired = Device
    /\ admits = [d \in Device |-> {a \in Asset : Owner[a] = d}]
    /\ epoch = [d \in Device |-> 0]
    /\ session = [u \in UploadId |-> [status |-> "unborn", next |-> 0,
                      asset |-> CHOOSE a \in Asset : TRUE, aged |-> FALSE]]
    /\ ledger = [a \in Asset |-> NoRow]
    /\ temp = [u \in UploadId |-> NoFile]
    /\ final = {}
    /\ hand = [h \in Handler |-> AtRest]

\* A step a handler takes on its own, once it started.
HandlerStep(h) ==
    \/ StartLookup(h)
    \/ \E u \in UploadId : StartCreate(h, u)
    \/ AppendCommit(h) \/ AppendUndo(h)
    \/ Reserve(h) \/ ReserveRefused(h)
    \/ LinkFinal(h) \/ LinkConflict(h) \/ UnlinkTemp(h) \/ Mark(h)
    \/ RecoverDecide(h) \/ RecoverMark(h) \/ RemoveTemp(h)
    \/ RevokeReset(h) \/ RemoveOrphan(h)
    \/ \E u \in UploadId, removed \in BOOLEAN : RemoveFile(h, u, removed)
    \/ FilesRemoved(h) \/ DeleteProfile(h)
    \/ Fail(h)

\* A request arrives.
Arrive(h) ==
    \/ \E a \in Asset : StartRead(h, a)
    \/ \E u \in UploadId, c \in Chunk : AppendWrite(h, u, c)
    \/ \E u \in UploadId : CompleteBegin(h, u)
    \/ \E u \in UploadId : AbortSession(h, u)
    \/ \E d \in Device, range \in SUBSET Asset : ResetDevice(h, d, range)
    \/ \E d \in Device : RevokeDevice(h, d)

Maintenance(u) == CleanupSession(u) \/ LookupOrphan(u)

Environment ==
    \/ \E u \in UploadId : SessionAges(u) \/ TempAges(u)
    \/ \E d \in Device : \E allowed \in SUBSET {a \in Asset : Owner[a] = d} :
           UpdatePolicy(d, allowed)
    \/ \E f \in Foreign : ForeignFile(f)
    \/ Crash

Next ==
    \/ \E h \in Handler : HandlerStep(h) \/ RecoverLock(h) \/ Arrive(h)
    \/ \E u \in UploadId : Maintenance(u)
    \/ Environment

Spec == Init /\ [][Next]_vars

-----------------------------------------------------------------------------
(* Properties. *)

\* Types of the variables.
TypeOK ==
    /\ paired \subseteq Device
    /\ admits \in [Device -> SUBSET Asset]
    /\ epoch \in [Device -> Nat]
    /\ session \in [UploadId -> Session]
    /\ ledger \in [Asset -> Row]
    /\ temp \in [UploadId -> Temp \cup {NoFile}]
    /\ final \subseteq File
    /\ hand \in [Handler -> Local]

\* A row that answers "uploaded" names a file of the upload root that holds
\* exactly the bytes whose checksum the row records, whatever conflicts,
\* retries, recoveries and crashes led to it (ReserveUploadCommit,
\* finalizeUploadFile, MarkUploaded).
UploadedIsStored ==
    \A a \in Asset : ledger[a].status = "uploaded" =>
        Stored(ledger[a].path, ledger[a].sum)

\* A reservation can always be finished: its session is still there, in status
\* committing, and the bytes are at the reserved path or in the temporary file
\* (what recoverPendingUploadAssetLocked looks for).  No crash, error, abort,
\* cleanup or competing upload may lose the last copy.
CommitRecoverable ==
    \A a \in Asset : ledger[a].status = "committing" =>
        LET u == ledger[a].uid IN
        /\ u \in UploadId /\ session[u].asset = a
        /\ session[u].status = "committing"
        /\ \/ Stored(ledger[a].path, ledger[a].sum)
           \/ temp[u] # NoFile /\ temp[u].data = ledger[a].sum

\* Bytes that were never confirmed by UpdateSessionProgress are never
\* committed: whatever tail a torn append left, a reservation covers exactly
\* the confirmed, complete length.
OnlyConfirmedCommitted ==
    \A u \in UploadId :
        HasRow(u) /\ session[u].status # "gone" =>
            Len(RowOf(u).sum) = session[u].next
                /\ session[u].next = Size[session[u].asset]

\* One upload places at most one file: neither a retry after a lost answer nor
\* a recovery after a crash stores the media a second time.
PlacedOnce ==
    \A f, g \in final : f.by = g.by /\ f.by # NoUpload => f = g

\* Between two resets of the ledger a source identity is stored at most once,
\* also when two sessions upload it at the same time: a session of the identity
\* that is not the one named by the row has placed nothing.
OneUploadPerIdentity ==
    \A f \in final, u \in UploadId :
        f.by = u /\ session[u].status \in {"active", "committing", "completed"}
            => HasRow(u)

\* os.Link refuses to replace, the temporary file is never written after it is
\* linked: a file of the upload root keeps its bytes for ever.
FinalNeverChanges == [][final \subseteq final']_vars

\* Evidence of an upload (a row in status uploaded) is withdrawn only together
\* with a new ledger epoch, so a client that compares epochs never trusts
\* evidence that is gone (CheckUploaded, ResetDeviceUploadState).
EvidenceNeedsNewEpoch ==
    [][\A a \in Asset :
          ledger[a].status = "uploaded" /\ epoch'[Owner[a]] = epoch[Owner[a]]
              => ledger'[a] = ledger[a]]_vars

\* The temporary file of a session in progress is removed only when its bytes
\* are in the upload root: neither maintenance, nor an abort of another
\* session, nor a recovery takes it from under an upload.
LiveTempKept ==
    [][\A u \in UploadId :
          temp[u] # NoFile /\ temp'[u] = NoFile
                /\ session'[u].status \in {"active", "committing"}
              => \E f \in final : f.by = u /\ f.data = temp[u].data]_vars

\* The upload state that a device still has.
Traces(d) == {a \in Asset : Owner[a] = d /\ ledger[a].status # "none"}
                 \cup InRange(d, Asset)
\* Once a revocation removed a device's upload state, no request that was
\* under way brings any of it back.
RevokedStaysEmpty ==
    [][\A d \in Device : d \notin paired /\ Traces(d) = {}
           => d \notin paired' /\ Traces(d)' = {}]_vars

-----------------------------------------------------------------------------
(* The inductive invariant: what every handler relies on at each of its      *)
(* counters, and what the rows, the sessions and the files say of each other. *)

\* uploadSessions and uploadDevices exclude as locks do.
SessionsLocked ==
    \A g, h \in Handler :
        hand[g].pc \in LockedPc /\ hand[h].pc \in LockedPc
            /\ hand[g].uid = hand[h].uid => g = h
DevicesGated ==
    \A g, h \in Handler :
        hand[g].pc \in ExclusivePc /\ hand[h].pc \notin Ungated
            /\ hand[g].dev = hand[h].dev => g = h

\* The reservation of u is not finished.
Pending(u) == HasRow(u) /\ RowOf(u).status = "committing"

WorkingOK(h) ==
    LET u == hand[h].uid IN
    /\ hand[h].pc \in LockedPc \cup {"recoverWait"} =>
           /\ u \in UploadId /\ session[u].status # "unborn"
           /\ hand[h].dev = Owner[session[u].asset]
    /\ hand[h].pc = "append" =>
           /\ session[u].status = "active"
           /\ temp[u] # NoFile /\ Len(temp[u].data) = session[u].next + 1
    /\ hand[h].pc \in {"reserve", "link"} =>
           /\ temp[u] # NoFile /\ temp[u].data = hand[h].sum
           /\ \A f \in final : f.by # u
    /\ hand[h].pc = "reserve" => session[u].status \in {"active", "committing"}
    /\ hand[h].pc \in {"link", "unlink", "mark", "rmark"} => Pending(u)
    /\ hand[h].pc = "link" =>
           RowOf(u).path = TargetOf(h) /\ RowOf(u).sum = hand[h].sum
    /\ hand[h].pc \in {"unlink", "mark", "rmark"} => FinalOK(u)
    /\ hand[h].pc = "rtemp" =>
           session[u].status \in {"aborted", "completed", "gone"}
    /\ hand[h].pc = "orphan" => session[u].status = "gone"
    /\ hand[h].pc = "rmfiles" =>
           \A v \in hand[h].files : session[v].status = "gone"

RowOK(a) ==
    LET u == ledger[a].uid IN
    /\ ledger[a].status # "none" => u \in UploadId /\ session[u].asset = a
    /\ ledger[a].status = "committing" =>
           /\ session[u].status = "committing"
           /\ \/ Stored(ledger[a].path, ledger[a].sum)
              \/ temp[u] # NoFile /\ temp[u].data = ledger[a].sum
    /\ ledger[a].status = "uploaded" =>
           /\ session[u].status \in {"completed", "gone"}
           /\ Stored(ledger[a].path, ledger[a].sum)

SessionOK(u) ==
    /\ session[u].status = "committing" => Pending(u)
    /\ session[u].status = "unborn" => temp[u] = NoFile

FileOK(f) ==
    f.by # NoUpload =>
        /\ session[f.by].status \in {"committing", "completed", "gone"}
        /\ session[f.by].status # "gone" => HasRow(f.by)
        /\ session[f.by].status = "committing" =>
               f.path = RowOf(f.by).path /\ f.data = RowOf(f.by).sum

\* Inductive, and stronger than UploadedIsStored, CommitRecoverable,
\* OneUploadPerIdentity and PlacedOnce: every handler finds what the step it
\* stands at needs, whatever the others did since it got there.
CommitInvariant ==
    /\ TypeOK
    /\ SessionsLocked
    /\ DevicesGated
    /\ \A h \in Handler : WorkingOK(h)
    /\ \A a \in Asset : RowOK(a)
    /\ \A u \in UploadId : SessionOK(u)
    /\ \A f \in final : FileOK(f)
    /\ PlacedOnce

-----------------------------------------------------------------------------
(* Refinement: the detailed protocol keeps the promise of UploadPromise. *)

Library == {f.data : f \in final}
Acked == [a \in Asset |-> IF ledger[a].status = "uploaded"
                          THEN ledger[a].sum ELSE NoFile]
Promise == INSTANCE UploadPromise
               WITH library <- Library, acked <- Acked, NoContent <- NoFile

\* Every step of the sessions, the commit, the recovery, the maintenance and
\* the environment is a step of the promise or changes nothing it speaks of.
KeepsPromise == Promise!Spec

-----------------------------------------------------------------------------
(* Liveness.  A handler runs as long as the process does, the maintenance     *)
(* ticker comes round, time passes.  Clients promise nothing.  An error of    *)
(* the database ends a whole pass, whichever upload it concerns: a pass must  *)
(* get to each upload again and again (it takes them one after the other, so  *)
(* that it is idle for u only from time to time), and its calls must not fail *)
(* every time.  Any number of errors and crashes in between is allowed.       *)

HandlersRun == \A h \in Handler : WF_vars(HandlerStep(h))
Removes(u) == hand[Maintainer].uid = u /\ RemoveOrphan(Maintainer)
Fairness ==
    /\ HandlersRun
    /\ \A u \in UploadId : /\ SF_vars(Maintenance(u)) /\ SF_vars(Removes(u))
                           /\ WF_vars(SessionAges(u))
                           /\ WF_vars(TempAges(u))
FairSpec == Spec /\ Fairness

\* Requests keep the session lock of u or the gate of its device from the
\* try-locks of the maintenance.
Contended(u) == ~LockFree(u) \/ ~GateOpen(Owner[session[u].asset])

\* A session that is left alone does not stay active for ever, torn tail or
\* not: it expires and is collected (the way out of an offset conflict).
SessionsEnd ==
    \A u \in UploadId : <>[]~Contended(u) =>
        (session[u].status = "active" ~> session[u].status # "active")

\* No temporary file is leaked: unless a reservation still needs it, it is
\* removed in the end, also when a crash or an error came between the deletion
\* of its session and the removal of the file.
TempsEnd ==
    \A u \in UploadId : <>[]~Contended(u) =>
        (temp[u] # NoFile ~> temp[u] = NoFile \/ session[u].status = "committing")

\* A client that keeps calling StartUploadSession for its asset, on an agent
\* where no call of the recovery fails every time it is tried (calls may fail
\* and the process may die any number of times in between). What follows the
\* link in a commit may fail for ever: the next recovery finds the file.
Retry ==
    /\ \A a \in Asset :
          SF_vars(ledger[a].status = "committing" /\ \E h \in Request : StartRead(h, a))
    /\ \A h \in Request :
          /\ SF_vars(RecoverLock(h)) /\ SF_vars(RecoverDecide(h))
          /\ SF_vars(Reserve(h)) /\ SF_vars(LinkFinal(h) \/ LinkConflict(h))
          /\ SF_vars(RecoverMark(h))
RetrySpec == Spec /\ HandlersRun /\ Retry

\* No reservation the agent itself made is stuck: "Upload commit cannot be
\* recovered automatically" (uploadCommitBlockedReason) is never the last word
\* to a paired client that retries, wherever the commit was interrupted.
ReservationsFinish ==
    \A a \in Asset : ledger[a].status = "committing"
        ~> ledger[a].status # "committing" \/ Owner[a] \notin paired

=============================================================================
