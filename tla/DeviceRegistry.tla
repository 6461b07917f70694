--------------------------- MODULE DeviceRegistry ---------------------------
(***************************************************************************)
(* The registry of paired devices: pairing codes, Nearby Links, refresh    *)
(* token families, and the requests of the agent that create a device,     *)
(* give it a profile, rename it and revoke it.                             *)
(*                                                                         *)
(* The registry lives twice, in memory (mem) and in device-registry.json   *)
(* (disk).  Every operation of the store is one critical section that      *)
(* holds one write of the file, so it is one action; the write may fail,   *)
(* before or after the rename that publishes the new file.  A process      *)
(* that dies comes back with what the file says.                           *)
(*                                                                         *)
(* Device ids, codes and links are random and never drawn twice (drawn).   *)
(* A refresh token is its generation: the successor of a token is computed *)
(* from it, so that every replacement of generation n is generation n + 1. *)
(* Expired entries are swept at the start of every operation and at load   *)
(* (cleanupExpiredLocked), so expiry removes an entry wherever it is kept. *)
(***************************************************************************)
EXTENDS Naturals, FiniteSets

CONSTANTS
    Device, Code, Link,  \* identities that may be drawn
    Request,             \* concurrent requests of the agent
    Ops,                 \* operations the instance performs
    DeviceLimit,         \* devices the registry may hold
    MaxMisses,           \* failed attempts that end a code or a link (5)
    MaxLinks,            \* Nearby Links that may be open at once (8)
    MaxToken,            \* bound: generations of one token family
    NoDevice, NoCode, NoLink

ASSUME LimitAssumption == DeviceLimit \in Nat \ {0}
ASSUME MissAssumption == MaxMisses \in Nat \ {0} /\ MaxToken \in Nat \ {0}
ASSUME FiniteAssumption == IsFiniteSet(Device)
ASSUME NoneAssumption ==
    NoDevice \notin Device /\ NoCode \notin Code \cup Link /\ NoLink \notin Link
ASSUME ApprovalAssumption ==
    Code \cap Link = {} /\ {"hosted", "review"} \cap (Code \cup Link) = {}

VARIABLES
    mem,       \* DeviceRegistryStore.registry
    disk,      \* device-registry.json
    profile,   \* devices that have a profile file
    hand,      \* requests: program counter and locals
    drawn,     \* identities drawn so far
    seen,      \* devices the registry in memory ever held: ids anyone knows
    grant,     \* grant[d]: the approval d was created for
    answered,  \* devices whose session was sent to the app
    held,      \* held[d]: newest refresh token the app received, 0 for none
    asked,     \* devices an administrator asked to revoke
    gone,      \* devices whose revocation ran to its end
    guesses    \* guesses[x]: wrong guesses at x that were answered as wrong

registry == <<mem, disk, drawn, seen>>
ghosts == <<grant, answered, held, asked, gone, guesses>>
vars == <<registry, profile, hand, ghosts>>

-----------------------------------------------------------------------------
LinkStatus == {"absent", "pending", "approved", "denied"}
Registry == [devices : SUBSET Device, review : SUBSET Device,
             token : [Device -> Nat], prev : SUBSET Device,
             code : Code \cup {NoCode}, misses : Nat,
             link : [Link -> LinkStatus], linkMisses : [Link -> Nat]]
Pc == {"idle", "approved", "evict", "ensure", "profile", "renamed",
       "revoked", "undo", "unprofile"}
Local == [pc : Pc, dev : Device \cup {NoDevice}, old : Device \cup {NoDevice},
          link : Link \cup {NoLink}]
Approval == Code \cup Link \cup {"hosted", "review"}

Empty == [devices |-> {}, review |-> {}, token |-> [d \in Device |-> 0],
          prev |-> {}, code |-> NoCode, misses |-> 0,
          link |-> [l \in Link |-> "absent"],
          linkMisses |-> [l \in Link |-> 0]]
AtRest == [pc |-> "idle", dev |-> NoDevice, old |-> NoDevice, link |-> NoLink]

With(r, d) == [r EXCEPT !.devices = @ \cup {d}, !.token[d] = 1]
Without(r, d) == [r EXCEPT !.devices = @ \ {d}, !.review = @ \ {d},
                           !.prev = @ \ {d}]
NoPairing(r) == [r EXCEPT !.code = NoCode, !.misses = 0]
HasRoom(r) == Cardinality(r.devices) < DeviceLimit
\* Broken variant: review devices fill the registry.
ReviewFills == DeviceLimit
ReviewCapacity == IF DeviceLimit > 1 THEN DeviceLimit - 1 ELSE 1

\* What writeDeviceRegistryFile may come to: done, failed before the rename,
\* failed after it (the directory could not be synced).
Outcome == {"ok", "old", "new"}
Write(new, out) == disk' = IF out = "old" THEN disk ELSE new
\* A changed copy is written and becomes the registry only when that went well.
Swap(new, out) ==
    /\ Write(new, out)
    /\ mem' = IF out = "ok" THEN new ELSE mem
    /\ seen' = seen \cup mem'.devices
\* The registry in memory is changed first, whatever the write comes to.
InPlace(new, out) ==
    /\ Write(new, out)
    /\ mem' = new
    /\ seen' = seen \cup mem'.devices

Idle(r) == hand[r].pc = "idle"
Goto(r, pc) == hand' = [hand EXCEPT ![r].pc = pc]
Return(r) == hand' = [hand EXCEPT ![r] = AtRest]
Fresh(d) == d \notin drawn

\* uploadDevices: the shared gate is held at "profile" and "renamed", the
\* exclusive one at "revoked".
GateOpen(d) == \A r \in Request : ~(hand[r].pc = "revoked" /\ hand[r].old = d)
\* Broken variant: revocation takes the shared gate.
GateShared(d) == GateOpen(d)
GateFree(d) ==
    /\ GateOpen(d)
    /\ \A r \in Request :
           ~(hand[r].pc \in {"profile", "renamed"} /\ hand[r].dev = d)

-----------------------------------------------------------------------------
(* Manual pairing: one code at a time, spent on redemption. *)

CreatePairing(c, out) ==
    /\ "code" \in Ops /\ c \notin drawn /\ HasRoom(mem)
    /\ InPlace([mem EXCEPT !.code = c, !.misses = 0], out)
    /\ drawn' = drawn \cup {c}
    /\ UNCHANGED <<profile, hand, ghosts>>

\* d is created for approval a: the request goes on with the profile of d, or
\* answers an error when the write failed.
Admit(r, d, a, out) ==
    /\ drawn' = drawn \cup {d}
    /\ grant' = [grant EXCEPT ![d] = a]
    /\ IF out = "ok"
       THEN hand' = [hand EXCEPT ![r] = [AtRest EXCEPT !.pc = "ensure", !.dev = d]]
       ELSE Return(r)
    /\ UNCHANGED <<profile, answered, held, asked, gone, guesses>>

\* Broken variant: the code is marked as redeemed after the file is written.
RedeemMarkedLate(r, d, out) ==
    /\ Idle(r) /\ Fresh(d) /\ HasRoom(mem) /\ mem.code # NoCode
    /\ Write(With(mem, d), out)
    /\ mem' = NoPairing(With(mem, d))
    /\ seen' = seen \cup mem'.devices
    /\ Admit(r, d, mem.code, out)
\* RedeemPairingSession, then the start of ensureDeviceProfile.
RedeemPairing(r, d, out) ==
    /\ Idle(r) /\ Fresh(d) /\ HasRoom(mem) /\ mem.code # NoCode
    /\ InPlace(NoPairing(With(mem, d)), out)
    /\ Admit(r, d, mem.code, out)

\* A code that is not the active one counts against the active one.
Missed(r) == IF r.misses + 1 >= MaxMisses THEN NoPairing(r)
             ELSE [r EXCEPT !.misses = @ + 1]
\* Broken variant: wrong guesses are counted in memory only.
WrongCodeUnsaved(out) ==
    /\ "code" \in Ops /\ mem.code # NoCode /\ HasRoom(mem)
    /\ mem' = Missed(mem)
    /\ guesses' = [guesses EXCEPT ![mem.code] = @ + 1]
    /\ UNCHANGED <<disk, seen, drawn, profile, hand, grant, answered, held,
                   asked, gone>>
WrongCode(out) ==
    /\ "code" \in Ops /\ mem.code # NoCode /\ HasRoom(mem)
    /\ InPlace(Missed(mem), out)
    /\ guesses' = IF out = "ok" THEN [guesses EXCEPT ![mem.code] = @ + 1]
                  ELSE guesses
    /\ UNCHANGED <<drawn, profile, hand, grant, answered, held, asked, gone>>

-----------------------------------------------------------------------------
(* Nearby Link: the app asks, the administrator approves, the app polls. *)

OpenLinks(r) == {l \in Link : r.link[l] \in {"pending", "approved"}}
CreateLink(l, out) ==
    /\ "link" \in Ops /\ l \notin drawn /\ HasRoom(mem)
    /\ Cardinality(OpenLinks(mem)) < MaxLinks
    /\ Swap([mem EXCEPT !.link[l] = "pending"], out)
    /\ drawn' = drawn \cup {l}
    /\ UNCHANGED <<profile, hand, ghosts>>

ApproveLink(l, out) ==
    /\ mem.link[l] = "pending"
    /\ Swap([mem EXCEPT !.link[l] = "approved"], out)
    /\ UNCHANGED <<drawn, profile, hand, ghosts>>

\* By the administrator, or by the app that cancels.
DenyLink(l, out) ==
    /\ mem.link[l] \in {"pending", "approved"}
    /\ Swap([mem EXCEPT !.link[l] = "denied"], out)
    /\ UNCHANGED <<drawn, profile, hand, ghosts>>

\* A poll, a cancel or a redemption with a wrong poll token.  What is counted
\* after the denial decides nothing and is left out.
LinkMissed(r, l) ==
    [r EXCEPT !.linkMisses[l] = @ + 1,
              !.link[l] = IF r.linkMisses[l] + 1 >= MaxMisses THEN "denied" ELSE @]
\* Broken variant: wrong poll tokens are counted in memory only.
WrongTokenUnsaved(l, out) ==
    /\ mem.link[l] \in {"pending", "approved"}
    /\ mem' = LinkMissed(mem, l)
    /\ guesses' = [guesses EXCEPT ![l] = @ + 1]
    /\ UNCHANGED <<disk, seen, drawn, profile, hand, grant, answered, held,
                   asked, gone>>
WrongToken(l, out) ==
    /\ mem.link[l] \in {"pending", "approved"}
    /\ Swap(LinkMissed(mem, l), out)
    /\ guesses' = IF out = "ok" THEN [guesses EXCEPT ![l] = @ + 1] ELSE guesses
    /\ UNCHANGED <<drawn, profile, hand, grant, answered, held, asked, gone>>

\* PollNearbyLink reads the link in one critical section ...
PollLink(r, l) ==
    /\ Idle(r) /\ mem.link[l] = "approved"
    /\ hand' = [hand EXCEPT ![r] = [AtRest EXCEPT !.pc = "approved", !.link = l]]
    /\ UNCHANGED <<registry, profile, ghosts>>
\* Broken variant: what the first critical section saw is not looked at again.
RedeemPolled(r, d, out) ==
    LET l == hand[r].link IN
    /\ hand[r].pc = "approved" /\ Fresh(d) /\ HasRoom(mem)
    /\ Swap([With(mem, d) EXCEPT !.link[l] = "absent", !.linkMisses[l] = 0], out)
    /\ Admit(r, d, l, out)
\* ... and redeems it in another.
RedeemLink(r, d, out) ==
    LET l == hand[r].link IN
    /\ hand[r].pc = "approved" /\ mem.link[l] = "approved"
    /\ Fresh(d) /\ HasRoom(mem)
    /\ Swap([With(mem, d) EXCEPT !.link[l] = "absent", !.linkMisses[l] = 0], out)
    /\ Admit(r, d, l, out)
RedeemLinkRefused(r) ==
    /\ hand[r].pc = "approved"
    /\ mem.link[hand[r].link] # "approved" \/ ~HasRoom(mem)
    /\ Return(r)
    /\ UNCHANGED <<registry, profile, ghosts>>

-----------------------------------------------------------------------------
(* Sessions provisioned through the relay. *)

CreateHosted(r, d, out) ==
    /\ "hosted" \in Ops /\ Idle(r) /\ Fresh(d) /\ HasRoom(mem)
    /\ InPlace(With(mem, d), out)
    /\ Admit(r, d, "hosted", out)

\* Broken variant: any device may make room.
EvictAny(r) == r.devices
\* A review device; when only the slot of ordinary pairing is left, a review
\* device makes room (the least recently refreshed one; here: any).
Evictable(r) == r.review
CreateReview(r, d, out) ==
    LET full == Cardinality(mem.devices) >= ReviewCapacity
        added(base) == [With(base, d) EXCEPT !.review = @ \cup {d}]
    IN
    /\ "review" \in Ops /\ Idle(r) /\ Fresh(d)
    /\ \/ ~full /\ Swap(added(mem), out) /\ Admit(r, d, "review", out)
       \/ \E e \in Evictable(mem) :
             /\ full
             /\ Swap(added(Without(mem, e)), out)
             /\ drawn' = drawn \cup {d}
             /\ grant' = [grant EXCEPT ![d] = "review"]
             /\ IF out = "ok"
                THEN hand' = [hand EXCEPT ![r] =
                         [AtRest EXCEPT !.pc = "evict", !.dev = d, !.old = e]]
                ELSE Return(r)
             /\ UNCHANGED <<profile, answered, held, asked, gone, guesses>>

-----------------------------------------------------------------------------
(* The profile of a new device, and the answer that carries its session. *)

EnsureDevice(r) ==
    /\ hand[r].pc = "ensure" /\ GateOpen(hand[r].dev)
    /\ Goto(r, IF hand[r].dev \in mem.devices THEN "profile" ELSE "undo")
    /\ UNCHANGED <<registry, profile, ghosts>>

\* EnsureProfile.  The answer may be lost on its way to the app.
EnsureProfile(r) ==
    /\ hand[r].pc = "profile"
    /\ profile' = profile \cup {hand[r].dev}
    /\ Return(r)
    /\ answered' = answered \cup {hand[r].dev}
    /\ \/ held' = [held EXCEPT ![hand[r].dev] = 1]
       \/ held' = held
    /\ UNCHANGED <<registry, grant, asked, gone, guesses>>
EnsureFails(r) ==
    /\ hand[r].pc = "profile"
    /\ profile' \in {profile, profile \cup {hand[r].dev}}
    /\ Goto(r, "undo")
    /\ UNCHANGED <<registry, ghosts>>

\* Registry.RevokeDevice.
Remove(d, out) ==
    IF d \in mem.devices THEN Swap(Without(mem, d), out)
    ELSE UNCHANGED <<mem, disk, seen>>

\* The device is taken back, without the gate; errors are ignored.
Undo(r, out) ==
    /\ hand[r].pc = "undo"
    /\ Remove(hand[r].dev, out)
    /\ Goto(r, "unprofile")
    /\ UNCHANGED <<drawn, profile, ghosts>>
Unprofile(r) ==
    /\ hand[r].pc = "unprofile"
    /\ profile' \in {profile, profile \ {hand[r].dev}}
    /\ Return(r)
    /\ UNCHANGED <<registry, ghosts>>

-----------------------------------------------------------------------------
(* Refresh: the app presents a token it received, its newest or an old one.  *)
(* A family that expired is refused, which changes nothing.                  *)

Receive(d, n) ==
    \/ held' = [held EXCEPT ![d] = IF n > @ THEN n ELSE @]
    \/ held' = held
Rotated(r, d) == [r EXCEPT !.token[d] = @ + 1, !.prev = @ \cup {d}]
\* Broken variant: the family in memory advances before the file does.
RotateInMemory(new, out) == InPlace(new, out)
RotateWrite(new, out) == Swap(new, out)

Rotate(d, t, out) ==
    /\ d \in mem.devices /\ t \in 1 .. held[d]
    /\ t = mem.token[d] /\ t < MaxToken
    /\ RotateWrite(Rotated(mem, d), out)
    /\ IF out = "ok" THEN Receive(d, t + 1) ELSE held' = held
    /\ UNCHANGED <<drawn, profile, hand, grant, answered, asked, gone, guesses>>
\* The predecessor, within its grace: the same replacement again, no write.
Replay(d, t) ==
    /\ d \in mem.devices /\ t \in 1 .. held[d]
    /\ d \in mem.prev /\ t + 1 = mem.token[d]
    /\ Receive(d, t + 1)
    /\ UNCHANGED <<registry, profile, hand, grant, answered, asked, gone, guesses>>

-----------------------------------------------------------------------------
(* The administrator. *)

\* UpdateDevice writes the registry when the name is new; reading or setting
\* the upload policy of a device looks it up and ensures its profile as well.
Rename(r, d) ==
    /\ "rename" \in Ops /\ Idle(r) /\ d \in mem.devices /\ GateOpen(d)
    /\ \/ /\ hand' = [hand EXCEPT ![r] = [AtRest EXCEPT !.pc = "renamed", !.dev = d]]
          /\ UNCHANGED <<mem, disk, seen>> \/ Swap(mem, "ok")
       \/ \E out \in {"old", "new"} : Swap(mem, out) /\ Return(r)
    /\ UNCHANGED <<drawn, profile, ghosts>>
RenameProfile(r) ==
    /\ hand[r].pc = "renamed"
    /\ profile' \in {profile, profile \cup {hand[r].dev}}
    /\ Return(r)
    /\ UNCHANGED <<registry, ghosts>>

\* RevokeDevice: the registry under the exclusive gate ...
Revoke(r, d, out) ==
    /\ "revoke" \in Ops /\ Idle(r) /\ d \in seen /\ GateFree(d)
    /\ asked' = asked \cup {d}
    /\ Remove(d, out)
    /\ IF out = "ok" \/ d \notin mem.devices
       THEN hand' = [hand EXCEPT ![r] = [AtRest EXCEPT !.pc = "revoked", !.old = d]]
       ELSE Return(r)
    /\ UNCHANGED <<drawn, profile, grant, answered, held, gone, guesses>>
\* ... also for a review device that made room, whose errors are logged only ...
RevokeEvicted(r, out) ==
    /\ hand[r].pc = "evict" /\ GateFree(hand[r].old)
    /\ Remove(hand[r].old, out)
    /\ Goto(r, IF out = "ok" \/ hand[r].old \notin mem.devices
               THEN "revoked" ELSE "ensure")
    /\ UNCHANGED <<drawn, profile, ghosts>>
\* ... then the upload state (UploadCommit) and the profile.
Leave(r) == IF hand[r].dev = NoDevice THEN Return(r)
            ELSE hand' = [hand EXCEPT ![r].pc = "ensure", ![r].old = NoDevice]
RevokeProfile(r) ==
    /\ hand[r].pc = "revoked"
    /\ profile' = profile \ {hand[r].old}
    /\ gone' = gone \cup {hand[r].old}
    /\ Leave(r)
    /\ UNCHANGED <<registry, grant, answered, held, asked, guesses>>
RevokeFails(r) ==
    /\ hand[r].pc = "revoked"
    /\ Leave(r)
    /\ UNCHANGED <<registry, profile, ghosts>>

-----------------------------------------------------------------------------
(* Time and the process. *)

CodeExpires(c) ==
    /\ c \in {mem.code, disk.code} \ {NoCode}
    /\ mem' = IF mem.code = c THEN NoPairing(mem) ELSE mem
    /\ disk' = IF disk.code = c THEN NoPairing(disk) ELSE disk
    /\ UNCHANGED <<drawn, seen, profile, hand, ghosts>>
LinkExpires(l) ==
    /\ mem.link[l] # "absent" \/ disk.link[l] # "absent"
    /\ mem' = [mem EXCEPT !.link[l] = "absent", !.linkMisses[l] = 0]
    /\ disk' = [disk EXCEPT !.link[l] = "absent", !.linkMisses[l] = 0]
    /\ UNCHANGED <<drawn, seen, profile, hand, ghosts>>
\* The two minutes of a predecessor; the two copies may have rotated at
\* different times.
GraceEnds(d) ==
    /\ d \in mem.prev \cup disk.prev
    /\ mem' \in {mem, [mem EXCEPT !.prev = @ \ {d}]}
    /\ disk' \in {disk, [disk EXCEPT !.prev = @ \ {d}]}
    /\ UNCHANGED <<drawn, seen, profile, hand, ghosts>>

Restarted(file) == file
Crash ==
    /\ "crash" \in Ops
    /\ mem' = Restarted(disk)
    /\ hand' = [r \in Request |-> AtRest]
    /\ seen' = seen \cup mem'.devices
    /\ UNCHANGED <<disk, drawn, profile, ghosts>>

Init ==
    /\ mem = Empty /\ disk = Empty /\ profile = {}
    /\ hand = [r \in Request |-> AtRest]
    /\ drawn = {} /\ seen = {}
    /\ grant = [d \in Device |-> "hosted"] /\ answered = {}
    /\ held = [d \in Device |-> 0] /\ asked = {} /\ gone = {}
    /\ guesses = [x \in Code \cup Link |-> 0]

Creates(r, d, out) ==
    RedeemPairing(r, d, out) \/ RedeemLink(r, d, out)
        \/ CreateHosted(r, d, out) \/ CreateReview(r, d, out)
AdminStep(r) ==
    \/ \E d \in Device : Rename(r, d)
    \/ \E d \in Device, out \in Outcome : Revoke(r, d, out)
    \/ RenameProfile(r) \/ RevokeProfile(r) \/ RevokeFails(r)
AppStep(r) ==
    \/ \E d \in Device, out \in Outcome : Creates(r, d, out)
    \/ \E l \in Link : PollLink(r, l)
    \/ RedeemLinkRefused(r)
    \/ EnsureDevice(r) \/ EnsureProfile(r) \/ EnsureFails(r)
    \/ \E out \in Outcome : RevokeEvicted(r, out) \/ Undo(r, out)
    \/ Unprofile(r)
StoreStep ==
    \/ \E c \in Code, out \in Outcome : CreatePairing(c, out)
    \/ \E out \in Outcome : WrongCode(out)
    \/ \E l \in Link, out \in Outcome :
          CreateLink(l, out) \/ ApproveLink(l, out) \/ DenyLink(l, out)
              \/ WrongToken(l, out)
    \/ \E d \in Device, t \in 1 .. MaxToken, out \in Outcome :
          Rotate(d, t, out)
    \/ \E d \in Device, t \in 1 .. MaxToken : Replay(d, t)
TimeStep ==
    \/ \E c \in Code : CodeExpires(c)
    \/ \E l \in Link : LinkExpires(l)
    \/ \E d \in Device : GraceEnds(d)

Next == (\E r \in Request : AppStep(r) \/ AdminStep(r))
            \/ StoreStep \/ TimeStep \/ Crash
Spec == Init /\ [][Next]_vars

-----------------------------------------------------------------------------
(* Properties. *)

\* Types of the variables, a conjunct of RegistryInvariant.
TypeOK ==
    /\ mem \in Registry /\ disk \in Registry
    /\ profile \subseteq Device /\ hand \in [Request -> Local]
    /\ drawn \subseteq Device \cup Code \cup Link /\ seen \subseteq Device
    /\ grant \in [Device -> Approval] /\ answered \subseteq Device
    /\ held \in [Device -> Nat] /\ asked \subseteq Device
    /\ gone \subseteq Device /\ guesses \in [Code \cup Link -> Nat]

\* The limit of the plan holds in memory and in whatever file a restart may
\* load, and review devices never take the slot kept for ordinary pairing,
\* whatever writes failed in between (CreateHostedReviewDevice and the checks
\* of every operation that adds a device).
Bounded(r) ==
    /\ Cardinality(r.devices) <= DeviceLimit
    /\ DeviceLimit > 1 => Cardinality(r.review) < DeviceLimit
WithinLimit == Bounded(mem) /\ Bounded(disk)

\* An approval, a pairing code or an approved Nearby Link, is worth one
\* session: of the devices created for it, one at most was answered with its
\* tokens, across concurrent polls, failed writes and restarts.
OneSessionPerApproval ==
    \A d, e \in answered :
        grant[d] = grant[e] /\ grant[d] \in Code \cup Link => d = e

\* The tokens of the app and of the registry are never two rotations apart,
\* and the app is never ahead: a rotation whose answer is lost can be repeated
\* (RotateRefreshToken), and no token that was answered is forgotten by a
\* failed write or a restart.
TokensTogether ==
    \A d \in Device, r \in {mem, disk} :
        held[d] > 0 /\ d \in mem.devices /\ d \in disk.devices =>
            r.token[d] \in {held[d], held[d] + 1}

\* A device whose revocation ran to its end is gone for good, from memory and
\* from the file, and no request that was under way leaves it a profile.
RevokedForGood ==
    gone \cap (mem.devices \cup disk.devices \cup profile) = {}

\* An open code or link takes no more than MaxMisses wrong guesses that are
\* answered as wrong, however writes fail and the agent restarts between them.
GuessesBounded == \A x \in Code \cup Link : guesses[x] <= MaxMisses

\* An ordinary device that was answered stays paired, in memory and on disk,
\* until an administrator asks for its revocation: neither a review device, a
\* failed request of another device, a failed write nor a restart takes it.
OrdinaryStays ==
    \A d \in answered \ asked :
        grant[d] # "review" => d \in mem.devices /\ d \in disk.devices

-----------------------------------------------------------------------------
(* The inductive invariant behind them. *)

\* A request is creating d: it may still answer d's session.
Creating(r, d) ==
    hand[r].pc \in {"evict", "ensure", "profile"} /\ hand[r].dev = d
Live(d) == d \in answered \/ \E r \in Request : Creating(r, d)

\* What is known outside was in memory; the file has no other known device.
Known ==
    /\ mem.devices \subseteq seen
    /\ seen \cup answered \cup disk.devices \cup gone \subseteq drawn
    /\ disk.devices \cap seen \subseteq mem.devices
    /\ \A r \in {mem, disk} :
          /\ r.review \subseteq r.devices /\ r.prev \subseteq r.devices
          /\ \A d \in r.review : grant[d] = "review"
          /\ r.code \in drawn \cup {NoCode}
          /\ \A l \in Link : r.link[l] # "absent" => l \in drawn

HandOK(r) ==
    /\ hand[r].pc \notin {"idle", "approved", "revoked"} =>
           hand[r].dev \in Device \cap drawn
    /\ hand[r].pc \in {"evict", "ensure", "profile", "undo", "unprofile"} =>
           hand[r].dev \notin answered
    /\ hand[r].pc = "approved" => hand[r].link \in Link
    /\ hand[r].pc \in {"idle", "approved"} => hand[r].dev = NoDevice
    /\ hand[r].pc = "evict" =>
           hand[r].old \in seen /\ grant[hand[r].old] = "review"
               /\ grant[hand[r].dev] = "review"
    /\ hand[r].pc \in {"profile", "renamed"} => hand[r].dev \notin gone
    /\ hand[r].pc = "revoked" =>
           /\ hand[r].old \in seen \ mem.devices
           /\ \A q \in Request :
                 ~(hand[q].pc \in {"profile", "renamed"} /\ hand[q].dev = hand[r].old)
           /\ hand[r].dev # NoDevice =>
                 hand[r].dev \in drawn \ answered /\ grant[hand[r].dev] = "review"
    /\ \A q \in Request :
          q # r /\ hand[r].dev = hand[q].dev /\ hand[r].dev # NoDevice =>
              hand[r].pc = "renamed" \/ hand[q].pc = "renamed"

\* An approval whose device may be answered, or was, is spent in both copies.
Spent(x) == \A r \in {mem, disk} : r.code # x /\ (x \in Link => r.link[x] = "absent")
ApprovalsOK ==
    \A d \in Device : Live(d) /\ grant[d] \in Code \cup Link =>
        /\ grant[d] \in drawn /\ Spent(grant[d])
        /\ \A e \in Device : Live(e) /\ grant[e] = grant[d] => e = d

GuessesOK ==
    /\ \A x \in Code \cup Link : x \notin drawn => guesses[x] = 0
    /\ \A r \in {mem, disk} :
          /\ r.code # NoCode => guesses[r.code] <= r.misses /\ r.misses < MaxMisses
          /\ \A l \in Link :
                IF r.link[l] = "absent" THEN r.linkMisses[l] = 0
                ELSE /\ guesses[l] <= r.linkMisses[l] /\ r.linkMisses[l] <= MaxMisses
                     /\ r.link[l] # "denied" => r.linkMisses[l] < MaxMisses

TokensOK ==
    /\ \A d \in Device, r \in {mem, disk} : d \in r.devices =>
          r.token[d] \in {held[d], held[d] + 1} \ {0}
    /\ \A d \in mem.devices \cap disk.devices : mem.token[d] <= disk.token[d]
    /\ \A d \in Device : held[d] > 0 => d \in answered

OrdinaryOK ==
    \A d \in Device \ asked :
        Live(d) /\ grant[d] # "review" => d \in mem.devices /\ d \in disk.devices

\* Inductive, and stronger than each of the properties above: what memory, the
\* file and the requests under way must agree on for them to survive any
\* failed write and any restart.
RegistryInvariant ==
    /\ TypeOK /\ Known /\ \A r \in Request : HandOK(r)
    /\ ApprovalsOK /\ GuessesOK /\ TokensOK /\ OrdinaryOK
    /\ WithinLimit /\ RevokedForGood /\ GuessesBounded
=============================================================================
