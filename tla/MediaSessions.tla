--------------------------- MODULE MediaSessions ---------------------------
(***************************************************************************)
(* WebRTC media sessions: offers that prepare and activate sessions, the   *)
(* leases that keep hosted sessions authorized, and everything that cuts a *)
(* session off: its token, its lease, its peer, a revocation, shutdown.    *)
(*                                                                         *)
(* Manager.mu guards the maps of sessions and leases, requestMu what one   *)
(* session is allowed to do; a critical section is one action.  A closer   *)
(* collects ids under the mutex and closes them one by one afterwards      *)
(* (toClose).  Device gates (webrtcDevices) are those of UploadLocks.      *)
(* Tokens and leases end when time says so; extending a valid one early    *)
(* (Reauthorize, applyLease) only makes it end later.                      *)
(***************************************************************************)
EXTENDS Naturals, FiniteSets

CONSTANTS
    Session, Scope,   \* session ids and lease scopes, never used twice
    Device,           \* devices paired before the model starts
    Offer,            \* concurrent offers
    None, Shutdown

ASSUME NoneAssumption == None \notin Session \cup Scope
ASSUME CloserAssumption == Shutdown \notin Device \cup Scope /\ Device \cap Scope = {}

VARIABLES
    paired,    \* devices in the registry
    session,   \* sessions by id
    scope,     \* lease scopes: context, deadline, renewal goroutine
    leases,    \* Manager.leases: the scope of each device, hosted sessions
    offer,     \* offers: program counter and locals
    toClose,   \* ids a closer collected and has not closed yet
    revoker,   \* RevokeDevice, per device
    stop       \* phase of shutdown

vars == <<paired, session, scope, leases, offer, toClose, revoker, stop>>

-----------------------------------------------------------------------------
NoSession == [st |-> "unborn", dev |-> None, scope |-> None,
              token |-> FALSE, peer |-> "none"]
NoScope == [st |-> "unborn", dev |-> None, lease |-> "none", ready |-> FALSE,
            pc |-> "none", refs |-> 0]
NoOffer == [pc |-> "idle", dev |-> None, sid |-> None]

\* Manager.sessions
Open == {s \in Session : session[s].st = "open"}
\* authorizedLocked: not closed, token valid, lease valid and not cancelled.
Leased(k) == k = None \/ (scope[k].st = "live" /\ scope[k].lease = "valid")
Authorized(s) ==
    session[s].st = "open" /\ session[s].token /\ Leased(session[s].scope)

\* Broken variant: nobody waits for offers that looked the device up.
ReadingNobody(d) == FALSE
\* webrtcDevices: offers read, a revocation writes.
Reading(d) == \E o \in Offer : offer[o].pc = "checked" /\ offer[o].dev = d

-----------------------------------------------------------------------------
(* closeSession. *)

ListedWithout(k) ==
    [leases EXCEPT ![scope[k].dev] = IF @ = k THEN None ELSE @]

\* Broken variant: a lease nobody uses is not cancelled.
LastLeftLive(st) == st
LastLeft(st) == "ended"

\* The critical section: the session leaves the map for good, and the last
\* session of a lease ends the lease.  The caller's other state is the caller's.
Close(s) ==
    LET k == session[s].scope
        last == k # None /\ scope[k].refs = 1
    IN
    /\ session' = [session EXCEPT ![s].st = "gone", ![s].token = FALSE,
           ![s].peer = IF @ = "open" THEN "closing" ELSE @]
    /\ scope' = IF k = None THEN scope
                ELSE [scope EXCEPT ![k].refs = @ - 1,
                                   ![k].st = IF last THEN LastLeft(@) ELSE @]
    /\ leases' = IF last THEN ListedWithout(k) ELSE leases
CloseIfOpen(s) ==
    IF s \in Open THEN Close(s) ELSE UNCHANGED <<session, scope, leases>>

\* The peer is closed by a goroutine that shutdown waits for.
PeerClosed(s) ==
    /\ session[s].peer = "closing"
    /\ session' = [session EXCEPT ![s].peer = "closed"]
    /\ UNCHANGED <<paired, scope, leases, offer, toClose, revoker, stop>>

CloseCollected(a) ==
    \E s \in toClose[a] :
        /\ CloseIfOpen(s)
        /\ toClose' = [toClose EXCEPT ![a] = @ \ {s}]
        /\ UNCHANGED <<paired, offer, revoker, stop>>

-----------------------------------------------------------------------------
(* AnswerWebRTCOffer, Prepare, AnswerOffer. *)

Goto(o, pc) == offer' = [offer EXCEPT ![o].pc = pc]

\* Under the shared gate: the device is looked up ...
CheckDevice(o, d) ==
    /\ offer[o].pc = "idle" /\ revoker[d] \in {"idle", "done"}
    /\ d \in paired /\ stop = "running"
    /\ offer' = [offer EXCEPT ![o] = [pc |-> "checked", dev |-> d, sid |-> None]]
    /\ UNCHANGED <<paired, session, scope, leases, toClose, revoker, stop>>

\* ... and a session prepared: a local one, or a hosted one with the lease of
\* its device; a new lease comes with the goroutine that renews it.
\* Broken variant: Prepare does not look at Manager.canceled.
AdmitsAlways == stop # "stopped"
AdmitsPrepare == stop \in {"running", "begun"}
Prepare(o) ==
    LET d == offer[o].dev
        born(s, k) == session' = [session EXCEPT ![s] =
            [NoSession EXCEPT !.st = "open", !.dev = d, !.scope = k, !.token = TRUE]]
        waiting(s) == offer' = [offer EXCEPT ![o].pc = "lease", ![o].sid = s]
    IN
    /\ offer[o].pc = "checked" /\ AdmitsPrepare
    /\ \E s \in Session :
          /\ session[s].st = "unborn" /\ waiting(s)
          /\ \/ born(s, None) /\ UNCHANGED <<scope, leases>>
             \/ /\ leases[d] # None /\ born(s, leases[d])
                /\ scope' = [scope EXCEPT ![leases[d]].refs = @ + 1]
                /\ UNCHANGED leases
             \/ \E k \in Scope :
                   /\ leases[d] = None
                   /\ scope[k].st = "unborn" /\ born(s, k)
                   /\ leases' = [leases EXCEPT ![d] = k]
                   /\ scope' = [scope EXCEPT ![k] =
                          [NoScope EXCEPT !.st = "live", !.dev = d,
                                          !.pc = "check", !.refs = 1]]
    /\ UNCHANGED <<paired, toClose, revoker, stop>>
\* Prepare refuses after Cancel, and a token that ended on the way.
PrepareRefused(o) ==
    /\ offer[o].pc = "checked"
    /\ offer' = [offer EXCEPT ![o] = NoOffer]
    /\ UNCHANGED <<paired, session, scope, leases, toClose, revoker, stop>>

\* The first answer of the lease checker, then the admission of the offer.
LeaseReady(o) ==
    LET k == session[offer[o].sid].scope IN
    /\ offer[o].pc = "lease" /\ (k # None => scope[k].ready)
    /\ Goto(o, IF stop = "running" THEN "peer" ELSE "fail")
    /\ UNCHANGED <<paired, session, scope, leases, toClose, revoker, stop>>

\* A connection is made and given to the session, if that is still allowed.
SetPeer(o) ==
    LET s == offer[o].sid IN
    /\ offer[o].pc = "peer"
    /\ IF Authorized(s)
       THEN session' = [session EXCEPT ![s].peer = "open"] /\ Goto(o, "gather")
       ELSE UNCHANGED session /\ Goto(o, "fail")
    /\ UNCHANGED <<paired, scope, leases, toClose, revoker, stop>>
\* The session starts to serve requests (what it serves is not modelled).
Activate(o) ==
    LET s == offer[o].sid IN
    /\ offer[o].pc = "gather"
    /\ IF Authorized(s)
       THEN offer' = [offer EXCEPT ![o] = NoOffer]
       ELSE Goto(o, "fail")
    /\ UNCHANGED <<paired, session, scope, leases, toClose, revoker, stop>>
\* The request is given up, the session was cut, a call of the peer fails.
OfferFails(o) ==
    /\ offer[o].pc \in {"lease", "peer", "gather"}
    /\ Goto(o, "fail")
    /\ UNCHANGED <<paired, session, scope, leases, toClose, revoker, stop>>
OfferCloses(o) ==
    /\ offer[o].pc = "fail"
    /\ CloseIfOpen(offer[o].sid)
    /\ offer' = [offer EXCEPT ![o] = NoOffer]
    /\ UNCHANGED <<paired, toClose, revoker, stop>>

-----------------------------------------------------------------------------
(* Leases: renewLease, applyLease, expireLease. *)

Listed(k) == \E d \in Device : leases[d] = k
\* Broken variant: the sessions of the lease are left to their tokens.
CollectNone(k) == {}
Collected(k) == {s \in Open : session[s].scope = k}
\* expireLease: a listed scope ends for good and its sessions are collected.
Expire(k) ==
    /\ leases' = IF Listed(k) THEN [leases EXCEPT ![scope[k].dev] = None] ELSE leases
    /\ toClose' = IF Listed(k) THEN [toClose EXCEPT ![k] = Collected(k)] ELSE toClose
\* ... by the renewal goroutine, which closes them before it returns.
ExpireAndReturn(k) ==
    /\ Expire(k)
    /\ scope' = [scope EXCEPT ![k].st = IF Listed(k) THEN "ended" ELSE @,
                              ![k].pc = "expire"]
    /\ UNCHANGED <<paired, session, offer, revoker, stop>>
\* It returns; ready is closed if it was not, which lets waiting offers go.
RenewReturns(k) ==
    /\ \/ scope[k].pc = "expire" /\ toClose[k] = {}
       \/ scope[k].pc \in {"check", "sleep"} /\ scope[k].st = "ended"
    /\ scope' = [scope EXCEPT ![k].pc = "none", ![k].ready = TRUE]
    /\ UNCHANGED <<paired, session, leases, offer, toClose, revoker, stop>>

\* The checker (a relay call of five seconds at most) denies the lease ...
Denied(k) ==
    /\ scope[k].pc = "check" /\ scope[k].st = "live"
    /\ ExpireAndReturn(k)
\* ... grants it: an answer that comes after the lease ended grants nothing ...
\* Broken variant: only the table is looked at, not the previous deadline.
MayApplyListed(k) == Listed(k) /\ scope[k].st = "live"
MayApply(k) == Listed(k) /\ scope[k].st = "live" /\ scope[k].lease # "lapsed"
Granted(k) ==
    /\ scope[k].pc = "check" /\ scope[k].st = "live"
    /\ scope' = [scope EXCEPT ![k].lease = IF MayApply(k) THEN "valid" ELSE @,
                              ![k].pc = "checked", ![k].ready = TRUE]
    /\ UNCHANGED <<paired, session, leases, offer, toClose, revoker, stop>>
\* ... or is not reached, or answers too late.  Either way offers go on.
Unreached(k) ==
    /\ scope[k].pc = "check" /\ scope[k].st = "live"
    /\ scope' = [scope EXCEPT ![k].pc = "checked", ![k].ready = TRUE]
    /\ UNCHANGED <<paired, session, leases, offer, toClose, revoker, stop>>
\* Without any deadline the lease is over, else it is renewed some time later.
Undated(k) ==
    /\ scope[k].pc = "checked" /\ scope[k].lease = "none"
    /\ ExpireAndReturn(k)
Sleep(k) ==
    /\ scope[k].pc = "checked" /\ scope[k].lease # "none"
    /\ scope' = [scope EXCEPT ![k].pc = "sleep"]
    /\ UNCHANGED <<paired, session, leases, offer, toClose, revoker, stop>>
RenewAgain(k) ==
    /\ scope[k].pc = "sleep" /\ scope[k].st = "live"
    /\ scope' = [scope EXCEPT ![k].pc = "check"]
    /\ UNCHANGED <<paired, session, leases, offer, toClose, revoker, stop>>

\* The deadline passes; its timer runs some time later.
LeaseLapses(k) ==
    /\ scope[k].lease = "valid" /\ scope[k].st = "live"
    /\ scope' = [scope EXCEPT ![k].lease = "lapsed"]
    /\ UNCHANGED <<paired, session, leases, offer, toClose, revoker, stop>>
LeaseTimer(k) ==
    /\ scope[k].lease = "lapsed" /\ scope[k].st = "live"
    /\ Expire(k)
    /\ scope' = [scope EXCEPT ![k].st = IF Listed(k) THEN "ended" ELSE @]
    /\ UNCHANGED <<paired, session, offer, revoker, stop>>

-----------------------------------------------------------------------------
(* Tokens, peers, revocation, shutdown. *)

TokenExpires(s) ==
    /\ s \in Open /\ session[s].token
    /\ session' = [session EXCEPT ![s].token = FALSE]
    /\ UNCHANGED <<paired, scope, leases, offer, toClose, revoker, stop>>
\* The token timer, or the peer connection that failed.
SessionTimer(s) ==
    /\ s \in Open /\ ~session[s].token
    /\ Close(s)
    /\ UNCHANGED <<paired, offer, toClose, revoker, stop>>
PeerFails(s) ==
    /\ s \in Open /\ session[s].peer = "open"
    /\ Close(s)
    /\ UNCHANGED <<paired, offer, toClose, revoker, stop>>

\* RevokeDevice of the runtime, under the exclusive gate to its end.
RevokeDevice(d) ==
    /\ revoker[d] = "idle" /\ ~Reading(d)
    /\ paired' = paired \ {d}
    /\ revoker' = [revoker EXCEPT ![d] = "removed"]
    /\ UNCHANGED <<session, scope, leases, offer, toClose, stop>>
RevokeCollect(d) ==
    /\ revoker[d] = "removed"
    /\ toClose' = [toClose EXCEPT ![d] = {s \in Open : session[s].dev = d}]
    /\ revoker' = [revoker EXCEPT ![d] = "closing"]
    /\ UNCHANGED <<paired, session, scope, leases, offer, stop>>
RevokeDone(d) ==
    /\ revoker[d] = "closing" /\ toClose[d] = {}
    /\ revoker' = [revoker EXCEPT ![d] = "done"]
    /\ UNCHANGED <<paired, session, scope, leases, offer, toClose, stop>>

BeginShutdown ==
    /\ stop = "running"
    /\ stop' = "begun"
    /\ UNCHANGED <<paired, session, scope, leases, offer, toClose, revoker>>
CancelPeers ==
    /\ stop = "begun"
    /\ stop' = "canceled"
    /\ toClose' = [toClose EXCEPT ![Shutdown] = Open]
    /\ UNCHANGED <<paired, session, scope, leases, offer, revoker>>
CleanupSealed ==
    /\ stop = "canceled" /\ toClose[Shutdown] = {}
    /\ stop' = "sealed"
    /\ UNCHANGED <<paired, session, scope, leases, offer, toClose, revoker>>
\* What Wait and WaitRequests wait for: offers, and the goroutines of cleanup.
Cleaning == {s \in Session : session[s].peer = "closing"}
                \cup {k \in Scope : scope[k].pc # "none"}
Stopped ==
    /\ stop = "sealed" /\ Cleaning = {} /\ \A o \in Offer : offer[o].pc = "idle"
    /\ stop' = "stopped"
    /\ UNCHANGED <<paired, session, scope, leases, offer, toClose, revoker>>
\* The process ends; the model stays.
Ended == stop = "stopped" /\ UNCHANGED vars

Init ==
    /\ paired = Device
    /\ session = [s \in Session |-> NoSession]
    /\ scope = [k \in Scope |-> NoScope]
    /\ leases = [d \in Device |-> None]
    /\ offer = [o \in Offer |-> NoOffer]
    /\ toClose = [a \in Device \cup Scope \cup {Shutdown} |-> {}]
    /\ revoker = [d \in Device |-> "idle"]
    /\ stop = "running"

OfferStep(o) ==
    Prepare(o) \/ PrepareRefused(o) \/ LeaseReady(o) \/ SetPeer(o)
        \/ Activate(o) \/ OfferFails(o) \/ OfferCloses(o)
Answer(k) == Denied(k) \/ Granted(k) \/ Unreached(k)
LeaseStep(k) ==
    Answer(k) \/ Undated(k) \/ Sleep(k) \/ RenewAgain(k) \/ RenewReturns(k)
RevokeStep(d) == RevokeCollect(d) \/ RevokeDone(d)
StopStep == CancelPeers \/ CleanupSealed \/ Stopped
Next ==
    \/ \E o \in Offer : OfferStep(o)
    \/ \E o \in Offer, d \in Device : CheckDevice(o, d)
    \/ \E k \in Scope : LeaseStep(k) \/ LeaseLapses(k) \/ LeaseTimer(k)
    \/ \E s \in Session : PeerClosed(s) \/ TokenExpires(s) \/ SessionTimer(s)
                              \/ PeerFails(s)
    \/ \E d \in Device : RevokeDevice(d) \/ RevokeStep(d)
    \/ \E a \in DOMAIN toClose : CloseCollected(a)
    \/ BeginShutdown \/ StopStep \/ Ended
Spec == Init /\ [][Next]_vars

\* Goroutines that were started go on, the checker answers within its timeout,
\* timers of the runtime fire.  Nothing is assumed of clients, of tokens (a
\* client may renew its token for ever) or of who revokes and shuts down.
FairSpec ==
    /\ Spec
    /\ \A o \in Offer : WF_vars(OfferStep(o))
    /\ \A k \in Scope : WF_vars(LeaseStep(k)) /\ WF_vars(LeaseTimer(k))
    /\ \A s \in Session : WF_vars(PeerClosed(s))
    /\ \A d \in Device : WF_vars(RevokeStep(d))
    /\ \A a \in Device \cup Scope \cup {Shutdown} : WF_vars(CloseCollected(a))
    /\ WF_vars(StopStep)

-----------------------------------------------------------------------------
(* Properties. *)

\* RevokeDevice of the agent, once it is done with WebRTC, leaves no session of
\* the device open, and no offer that was on its way opens one afterwards.
RevokedSilent ==
    \A d \in Device : revoker[d] = "done" => \A s \in Open : session[s].dev # d

\* The table of leases and the sessions agree (Prepare, closeSession and
\* expireLease): a lease counts its open sessions, is live only for somebody,
\* and a session under a live lease is under the one the table shares with the
\* next offer of the device, so that one device never renews two leases.
LeaseTracked ==
    \A k \in Scope :
        LET users == {s \in Open : session[s].scope = k} IN
        /\ scope[k].refs = Cardinality(users)
        /\ scope[k].st = "live" => users # {} /\ Listed(k)
        /\ Listed(k) => scope[k].st = "live"

\* The shutdown of webrtcmedia: when cleanup admits nothing more there is no
\* session left whose peer would need it, and when Wait returned no peer is
\* open, none is being closed and no lease is being renewed.
StoppedQuiet ==
    /\ stop \in {"sealed", "stopped"} => Open = {}
    /\ stop = "stopped" => /\ \A s \in Session : session[s].peer \in {"none", "closed"}
                           /\ \A k \in Scope : scope[k].pc = "none"

Over(k) == scope[k].lease = "lapsed" \/ scope[k].st = "ended"

\* A lease whose deadline passed, or that was cancelled, authorizes nothing ever
\* again, whatever answer of the checker is still on its way (applyLease).
LapsedForGood ==
    [][\A k \in Scope : Over(k) => ~Leased(k)']_vars

\* A session is closed after its lease ended, though no media flows and nobody
\* touches it: its deadline passed, or it was denied or cancelled, also before
\* it ever had a deadline (the expiry timer, expireLease, closeSession).
LapsedClosed ==
    \A s \in Session :
        (s \in Open /\ session[s].scope # None /\ Over(session[s].scope))
            ~> s \notin Open

\* A shutdown that began ends: offers give up, sessions and peers are closed,
\* renewal goroutines return (Cancel, Wait).
Stops == (stop = "begun") ~> (stop = "stopped")
=============================================================================
