------------------------- MODULE MediaSessionProofs -------------------------
(***************************************************************************)
(* Safety of the WebRTC sessions, for any number of sessions, leases,      *)
(* devices and offers.  SessionInvariant adds to the properties what they  *)
(* rest on: ids a closer has not collected yet, offers that looked their   *)
(* device up, scopes nobody has begun.                                     *)
(***************************************************************************)
EXTENDS MediaSessions, Integers, FiniteSetTheorems, TLAPS

SessionType == [st : {"unborn", "open", "gone"}, dev : Device \cup {None},
                scope : Scope \cup {None}, token : BOOLEAN,
                peer : {"none", "open", "closing", "closed"}]
ScopeType == [st : {"unborn", "live", "ended"}, dev : Device \cup {None},
              lease : {"none", "valid", "lapsed"}, ready : BOOLEAN,
              pc : {"none", "check", "checked", "sleep", "expire"}, refs : Int]
OfferType == [pc : {"idle", "checked", "lease", "peer", "gather", "fail"},
              dev : Device \cup {None}, sid : Session \cup {None}]
OfferOK(o) ==
    /\ offer[o].pc = "checked" => offer[o].dev \in Device
    /\ offer[o].pc \in {"lease", "peer", "gather", "fail"} => offer[o].sid \in Session

TypeOK ==
    /\ paired \subseteq Device
    /\ session \in [Session -> SessionType]
    /\ scope \in [Scope -> ScopeType]
    /\ leases \in [Device -> Scope \cup {None}]
    /\ offer \in [Offer -> OfferType]
    /\ \A o \in Offer : OfferOK(o)
    /\ toClose \in [Device \cup Scope \cup {Shutdown} -> SUBSET Session]
    /\ revoker \in [Device -> {"idle", "removed", "closing", "done"}]
    /\ stop \in {"running", "begun", "canceled", "sealed", "stopped"}

\* A device that is being revoked: no offer has looked it up, its sessions are
\* on the revoker's list, and then there are none.
RevokerOK(d) ==
    /\ revoker[d] # "idle" => d \notin paired /\ ~Reading(d)
    /\ revoker[d] = "closing" => \A s \in Open : session[s].dev = d => s \in toClose[d]
    /\ revoker[d] = "done" => \A s \in Open : session[s].dev # d

Users(k) == {s \in Open : session[s].scope = k}
ScopeOK(k) ==
    /\ IsFiniteSet(Users(k)) /\ scope[k].refs = Cardinality(Users(k))
    /\ scope[k].st = "unborn" => Users(k) = {} /\ scope[k].lease = "none"
    /\ scope[k].st = "live" => Users(k) # {} /\ Listed(k)
    /\ \A d \in Device : leases[d] = k => scope[k].st = "live" /\ scope[k].dev = d

StopOK ==
    /\ \A s \in Session : session[s].peer = "open" => s \in Open
    /\ stop = "canceled" => Open \subseteq toClose[Shutdown]
    /\ stop \in {"sealed", "stopped"} => Open = {}
    /\ stop = "stopped" => /\ \A s \in Session : session[s].peer # "closing"
                           /\ \A k \in Scope : scope[k].pc = "none"
                           /\ \A o \in Offer : offer[o].pc = "idle"

SessionInvariant ==
    /\ TypeOK
    /\ \A d \in Device : RevokerOK(d)
    /\ \A k \in Scope : ScopeOK(k)
    /\ StopOK

\* The session and the lease that Prepare makes.
Born(d, k) == [NoSession EXCEPT !.st = "open", !.dev = d, !.scope = k, !.token = TRUE]
Begun(d) == [NoScope EXCEPT !.st = "live", !.dev = d, !.pc = "check", !.refs = 1]

LEMMA BornIs ==
    ASSUME NEW d \in Device, NEW k \in Scope \cup {None}
    PROVE  /\ Born(d, k) \in SessionType
           /\ Born(d, k).st = "open" /\ Born(d, k).dev = d /\ Born(d, k).scope = k
           /\ Born(d, k).peer = "none"
<1>1. NoSession \in SessionType /\ NoSession.peer = "none"
  BY DEF NoSession, SessionType
<1>2. ASSUME NEW r \in SessionType
      PROVE  LET b == [r EXCEPT !.st = "open", !.dev = d, !.scope = k, !.token = TRUE]
             IN  b \in SessionType /\ b.st = "open" /\ b.dev = d /\ b.scope = k /\ b.peer = r.peer
  BY DEF SessionType
<1> QED BY <1>1, <1>2, Zenon DEF Born

LEMMA BegunIs ==
    ASSUME NEW d \in Device
    PROVE  /\ Begun(d) \in ScopeType
           /\ Begun(d).st = "live" /\ Begun(d).dev = d /\ Begun(d).refs = 1
<1>1. NoScope \in ScopeType
  BY DEF NoScope, ScopeType
<1>2. ASSUME NEW r \in ScopeType, NEW n \in Int
      PROVE  LET b == [r EXCEPT !.st = "live", !.dev = d, !.pc = "check", !.refs = n]
             IN  b \in ScopeType /\ b.st = "live" /\ b.dev = d /\ b.refs = n
  BY DEF ScopeType
<1>3. 1 \in Int
  OBVIOUS
<1> QED BY <1>1, <1>2, <1>3, Zenon DEF Begun

-----------------------------------------------------------------------------
(* Types.                                                                  *)

\* closeSession changes what it may change, and nothing else.
LEMMA CloseTypes ==
    ASSUME TypeOK, NEW s \in Session, Close(s)
    PROVE  /\ session' \in [Session -> SessionType]
           /\ scope' \in [Scope -> ScopeType]
           /\ leases' \in [Device -> Scope \cup {None}]
<1> DEFINE k == session[s].scope
           p == IF session[s].peer = "open" THEN "closing" ELSE session[s].peer
           e == IF scope[k].refs = 1 THEN "ended" ELSE scope[k].st
<1>0. /\ session \in [Session -> SessionType] /\ scope \in [Scope -> ScopeType]
      /\ session[s] \in SessionType
  BY DEF TypeOK
<1>1. session' \in [Session -> SessionType]
  <2>1. session' = [session EXCEPT ![s].st = "gone", ![s].token = FALSE, ![s].peer = p]
    BY DEF Close
  <2>2. p \in {"none", "open", "closing", "closed"}
    BY <1>0 DEF SessionType
  <2> QED BY <1>0, <2>1, <2>2 DEF SessionType
<1>2. scope' \in [Scope -> ScopeType]
  <2>1. CASE k = None
    BY <1>0, <2>1 DEF Close
  <2>2. CASE k # None
    <3>1. k \in Scope
      BY <1>0, <2>2 DEF SessionType
    <3>2. e \in {"unborn", "live", "ended"} /\ scope[k].refs - 1 \in Int
      BY <1>0, <3>1 DEF ScopeType
    <3>3. scope' = [scope EXCEPT ![k].refs = @ - 1, ![k].st = e]
      BY <2>2 DEF Close, LastLeft
    <3> HIDE DEF k, e
    <3> QED BY ZenonT(60), <1>0, <3>1, <3>2, <3>3 DEF ScopeType
  <2> QED BY <2>1, <2>2
<1>3. leases' \in [Device -> Scope \cup {None}]
  BY DEF Close, ListedWithout, TypeOK
<1> QED BY <1>1, <1>2, <1>3

LEMMA CloseIfOpenTypes ==
    ASSUME TypeOK, NEW s \in Session, CloseIfOpen(s)
    PROVE  /\ session' \in [Session -> SessionType]
           /\ scope' \in [Scope -> ScopeType]
           /\ leases' \in [Device -> Scope \cup {None}]
<1>1. CASE s \in Open
  BY <1>1, CloseTypes DEF CloseIfOpen
<1>2. CASE s \notin Open
  BY <1>2 DEF CloseIfOpen, TypeOK
<1> QED BY <1>1, <1>2

\* A lease that expires: its sessions are collected and it leaves the table.
LEMMA ExpireTypes ==
    ASSUME TypeOK, NEW k \in Scope, Expire(k)
    PROVE  /\ leases' \in [Device -> Scope \cup {None}]
           /\ toClose' \in [Device \cup Scope \cup {Shutdown} -> SUBSET Session]
BY DEF Expire, TypeOK, Collected, Open

LEMMA ScopeTypes ==
    ASSUME scope \in [Scope -> ScopeType], NEW k \in Scope,
           NEW st \in {"unborn", "live", "ended"}, NEW lease \in {"none", "valid", "lapsed"},
           NEW pc \in {"none", "check", "checked", "sleep", "expire"}
    PROVE  /\ [scope EXCEPT ![k].st = st] \in [Scope -> ScopeType]
           /\ [scope EXCEPT ![k].pc = pc] \in [Scope -> ScopeType]
           /\ [scope EXCEPT ![k].lease = lease] \in [Scope -> ScopeType]
           /\ [scope EXCEPT ![k].st = st, ![k].pc = pc] \in [Scope -> ScopeType]
           /\ [scope EXCEPT ![k].pc = pc, ![k].ready = TRUE] \in [Scope -> ScopeType]
           /\ [scope EXCEPT ![k].lease = lease, ![k].pc = pc, ![k].ready = TRUE]
                \in [Scope -> ScopeType]
<1>1. ASSUME NEW f \in [Scope -> ScopeType]
      PROVE  /\ [f EXCEPT ![k].st = st] \in [Scope -> ScopeType]
             /\ [f EXCEPT ![k].pc = pc] \in [Scope -> ScopeType]
             /\ [f EXCEPT ![k].lease = lease] \in [Scope -> ScopeType]
             /\ [f EXCEPT ![k].ready = TRUE] \in [Scope -> ScopeType]
  <2>1. [f EXCEPT ![k].st = st] \in [Scope -> ScopeType]
    BY ZenonT(60), <1>1 DEF ScopeType
  <2>2. [f EXCEPT ![k].pc = pc] \in [Scope -> ScopeType]
    BY ZenonT(60), <1>1 DEF ScopeType
  <2>3. [f EXCEPT ![k].lease = lease] \in [Scope -> ScopeType]
    BY ZenonT(60), <1>1 DEF ScopeType
  <2>4. [f EXCEPT ![k].ready = TRUE] \in [Scope -> ScopeType]
    BY ZenonT(60), <1>1 DEF ScopeType
  <2> QED BY <2>1, <2>2, <2>3, <2>4
<1> DEFINE s == [scope EXCEPT ![k].st = st]
           l == [scope EXCEPT ![k].lease = lease]
           p == [scope EXCEPT ![k].pc = pc]
           lp == [l EXCEPT ![k].pc = pc]
<1>2. /\ s \in [Scope -> ScopeType] /\ l \in [Scope -> ScopeType] /\ p \in [Scope -> ScopeType]
  BY <1>1
<1>3. /\ lp \in [Scope -> ScopeType]
      /\ [s EXCEPT ![k].pc = pc] \in [Scope -> ScopeType]
      /\ [p EXCEPT ![k].ready = TRUE] \in [Scope -> ScopeType]
  <2> HIDE DEF s, l, p
  <2> QED BY <1>1, <1>2
<1>4. [lp EXCEPT ![k].ready = TRUE] \in [Scope -> ScopeType]
  <2> HIDE DEF lp
  <2> QED BY <1>1, <1>3
<1> QED BY <1>1, <1>2, <1>3, <1>4

\* A lease that ends by itself is of the type of a lease.
LEMMA ExpireScopeTypes ==
    ASSUME TypeOK, NEW k \in Scope, NEW st, st = IF Listed(k) THEN "ended" ELSE scope[k].st
    PROVE  st \in {"unborn", "live", "ended"}
BY DEF TypeOK, ScopeType

\* An offer moves on with its session, or is over.
LEMMA GotoTypes ==
    ASSUME TypeOK, NEW o \in Offer, offer[o].sid \in Session,
           NEW pc \in {"lease", "peer", "gather", "fail"}, Goto(o, pc)
    PROVE  offer' \in [Offer -> OfferType] /\ (\A p \in Offer : OfferOK(p))'
BY DEF Goto, TypeOK, OfferType, OfferOK

LEMMA EndTypes ==
    ASSUME TypeOK, NEW o \in Offer, offer' = [offer EXCEPT ![o] = NoOffer]
    PROVE  offer' \in [Offer -> OfferType] /\ (\A p \in Offer : OfferOK(p))'
<1>1. NoOffer \in OfferType /\ NoOffer.pc = "idle"
  BY DEF NoOffer, OfferType
<1> QED BY <1>1 DEF TypeOK, OfferOK

\* An offer prepares session s under lease k, or under none.
Prepares(o, s, k) ==
    LET d == offer[o].dev IN
    /\ offer[o].pc = "checked" /\ AdmitsPrepare /\ session[s].st = "unborn"
    /\ session' = [session EXCEPT ![s] = Born(d, k)]
    /\ offer' = [offer EXCEPT ![o].pc = "lease", ![o].sid = s]
    /\ \/ k = None /\ UNCHANGED <<scope, leases>>
       \/ /\ k \in Scope /\ k = leases[d] /\ UNCHANGED leases
          /\ scope' = [scope EXCEPT ![k].refs = @ + 1]
       \/ /\ k \in Scope /\ leases[d] = None /\ scope[k].st = "unborn"
          /\ leases' = [leases EXCEPT ![d] = k]
          /\ scope' = [scope EXCEPT ![k] = Begun(d)]
    /\ UNCHANGED <<paired, toClose, revoker, stop>>

LEMMA PrepareCases ==
    ASSUME TypeOK, NEW o \in Offer, Prepare(o)
    PROVE  \E s \in Session, k \in Scope \cup {None} : Prepares(o, s, k)
<1> DEFINE d == offer[o].dev
<1>1. d \in Device
  BY DEF Prepare, TypeOK, OfferOK
<1>2. PICK s \in Session :
        /\ session[s].st = "unborn"
        /\ offer' = [offer EXCEPT ![o].pc = "lease", ![o].sid = s]
        /\ \/ session' = [session EXCEPT ![s] = Born(d, None)] /\ UNCHANGED <<scope, leases>>
           \/ /\ leases[d] # None /\ session' = [session EXCEPT ![s] = Born(d, leases[d])]
              /\ scope' = [scope EXCEPT ![leases[d]].refs = @ + 1] /\ UNCHANGED leases
           \/ \E k \in Scope :
                /\ leases[d] = None /\ scope[k].st = "unborn"
                /\ session' = [session EXCEPT ![s] = Born(d, k)]
                /\ leases' = [leases EXCEPT ![d] = k]
                /\ scope' = [scope EXCEPT ![k] = Begun(d)]
  BY DEF Prepare, Born, Begun
<1>3. leases[d] \in Scope \cup {None}
  BY <1>1 DEF TypeOK
<1> QED BY <1>2, <1>3 DEF Prepare, Prepares

\* Every step of an offer keeps the types.
LEMMA OfferStepTypes ==
    ASSUME TypeOK, NEW o \in Offer, OfferStep(o) \/ \E d \in Device : CheckDevice(o, d)
    PROVE  TypeOK'
<1>0. /\ session \in [Session -> SessionType] /\ scope \in [Scope -> ScopeType]
      /\ leases \in [Device -> Scope \cup {None}] /\ offer \in [Offer -> OfferType]
      /\ \A p \in Offer : OfferOK(p)
  BY DEF TypeOK
<1>1. CASE Prepare(o)
  <2>1. PICK s \in Session, k \in Scope \cup {None} : Prepares(o, s, k)
    BY <1>1, PrepareCases
  <2>2. offer[o].dev \in Device
    BY <1>0, <1>1 DEF Prepare, OfferOK
  <2>3. session' \in [Session -> SessionType]
    BY <1>0, <2>1, <2>2, BornIs DEF Prepares
  <2>4. scope' \in [Scope -> ScopeType]
    BY <1>0, <2>1, <2>2, BegunIs DEF Prepares, ScopeType
  <2>5. leases' \in [Device -> Scope \cup {None}]
    BY <1>0, <2>1, <2>2 DEF Prepares
  <2>6. offer' \in [Offer -> OfferType] /\ (\A p \in Offer : OfferOK(p))'
    <3>1. offer' = [offer EXCEPT ![o].pc = "lease", ![o].sid = s]
      BY <2>1 DEF Prepares
    <3> QED BY ZenonT(60), <1>0, <3>1 DEF OfferType, OfferOK
  <2> QED BY <2>1, <2>3, <2>4, <2>5, <2>6 DEF Prepares, TypeOK
<1>2. CASE SetPeer(o)
  <2>1. session' \in [Session -> SessionType]
    BY <1>0, <1>2 DEF SetPeer, SessionType
  <2>2. offer' \in [Offer -> OfferType] /\ (\A p \in Offer : OfferOK(p))'
    <3>1. offer[o].sid \in Session
      BY <1>0, <1>2 DEF SetPeer, OfferOK
    <3> QED BY <1>2, <3>1, GotoTypes DEF SetPeer
  <2> QED BY <1>2, <2>1, <2>2 DEF SetPeer, TypeOK
<1>3. CASE OfferCloses(o)
  <2>1. offer[o].sid \in Session
    BY <1>0, <1>3 DEF OfferCloses, OfferOK
  <2>2. offer' \in [Offer -> OfferType] /\ (\A p \in Offer : OfferOK(p))'
    BY <1>3, EndTypes DEF OfferCloses
  <2> QED BY <1>3, <2>1, <2>2, CloseIfOpenTypes DEF OfferCloses, TypeOK
<1>4. CASE \E d \in Device : CheckDevice(o, d)
  <2>1. offer' \in [Offer -> OfferType] /\ (\A p \in Offer : OfferOK(p))'
    BY <1>0, <1>4 DEF CheckDevice, OfferOK, OfferType
  <2> QED BY <1>4, <2>1 DEF CheckDevice, TypeOK
<1>5. CASE PrepareRefused(o) \/ LeaseReady(o) \/ Activate(o) \/ OfferFails(o)
  <2>1. offer' \in [Offer -> OfferType] /\ (\A p \in Offer : OfferOK(p))'
    <3>1. CASE PrepareRefused(o)
      BY <3>1, EndTypes DEF PrepareRefused
    <3>2. CASE LeaseReady(o)
      BY <1>0, <3>2, GotoTypes DEF LeaseReady, OfferOK
    <3>3. CASE Activate(o) \/ OfferFails(o)
      <4>1. offer[o].sid \in Session
        BY <1>0, <3>3 DEF OfferFails, Activate, OfferOK
      <4>2. Goto(o, "fail") \/ offer' = [offer EXCEPT ![o] = NoOffer]
        BY <3>3 DEF OfferFails, Activate
      <4> QED BY <4>1, <4>2, GotoTypes, EndTypes
    <3> QED BY <1>5, <3>1, <3>2, <3>3
  <2> QED BY <1>5, <2>1 DEF PrepareRefused, LeaseReady, Activate, OfferFails, TypeOK
<1> QED BY <1>1, <1>2, <1>3, <1>4, <1>5 DEF OfferStep

\* Every step of a lease keeps the types.
LEMMA LeaseStepTypes ==
    ASSUME TypeOK, NEW k \in Scope, LeaseStep(k) \/ LeaseLapses(k) \/ LeaseTimer(k)
    PROVE  TypeOK'
<1>0. scope \in [Scope -> ScopeType] /\ scope[k] \in ScopeType
  BY DEF TypeOK
<1>1. CASE Denied(k) \/ Undated(k) \/ LeaseTimer(k)
  <2> DEFINE st == IF Listed(k) THEN "ended" ELSE scope[k].st
  <2>1. st \in {"unborn", "live", "ended"}
    BY ExpireScopeTypes
  <2>2. scope' \in [Scope -> ScopeType]
    <3>1. \/ scope' = [scope EXCEPT ![k].st = st, ![k].pc = "expire"]
          \/ scope' = [scope EXCEPT ![k].st = st]
      BY <1>1 DEF Denied, Undated, LeaseTimer, ExpireAndReturn
    <3>2. /\ [scope EXCEPT ![k].st = st] \in [Scope -> ScopeType]
          /\ [scope EXCEPT ![k].st = st, ![k].pc = "expire"] \in [Scope -> ScopeType]
      <4> HIDE DEF st
      <4> QED BY <1>0, <2>1, ScopeTypes
    <3> QED BY <3>1, <3>2
  <2>3. Expire(k)
    BY <1>1 DEF Denied, Undated, LeaseTimer, ExpireAndReturn
  <2> QED BY <1>1, <2>2, <2>3, ExpireTypes
          DEF Denied, Undated, LeaseTimer, ExpireAndReturn, TypeOK, OfferOK
<1>2. CASE Granted(k) \/ Unreached(k) \/ Sleep(k) \/ RenewAgain(k) \/ RenewReturns(k) \/ LeaseLapses(k)
  <2>1. scope' \in [Scope -> ScopeType]
    <3>1. CASE Granted(k)
      <4> DEFINE lease == IF MayApply(k) THEN "valid" ELSE scope[k].lease
      <4>1. lease \in {"none", "valid", "lapsed"}
        BY <1>0 DEF ScopeType
      <4>2. scope' = [scope EXCEPT ![k].lease = lease, ![k].pc = "checked", ![k].ready = TRUE]
        BY <3>1 DEF Granted
      <4>3. [scope EXCEPT ![k].lease = lease, ![k].pc = "checked", ![k].ready = TRUE]
              \in [Scope -> ScopeType]
        <5> HIDE DEF lease
        <5> QED BY <1>0, <4>1, ScopeTypes
      <4> QED BY <4>2, <4>3
    <3>2. CASE Unreached(k) \/ RenewReturns(k)
      BY <1>0, <3>2 DEF Unreached, RenewReturns, ScopeType
    <3>3. CASE Sleep(k) \/ RenewAgain(k)
      BY <1>0, <3>3 DEF Sleep, RenewAgain, ScopeType
    <3>4. CASE LeaseLapses(k)
      BY <1>0, <3>4 DEF LeaseLapses, ScopeType
    <3> QED BY <1>2, <3>1, <3>2, <3>3, <3>4
  <2> QED BY <1>2, <2>1
          DEF Granted, Unreached, Sleep, RenewAgain, RenewReturns, LeaseLapses, TypeOK, OfferOK
<1> QED BY <1>1, <1>2 DEF LeaseStep, Answer

\* TypeOK is an invariant of every step.
LEMMA TypeStep == TypeOK /\ [Next]_vars => TypeOK'
<1> SUFFICES ASSUME TypeOK, [Next]_vars PROVE TypeOK'
  OBVIOUS
<1>0. session \in [Session -> SessionType]
  BY DEF TypeOK
<1>1. ASSUME NEW o \in Offer, OfferStep(o) \/ \E d \in Device : CheckDevice(o, d) PROVE TypeOK'
  BY <1>1, OfferStepTypes
<1>2. ASSUME NEW k \in Scope, LeaseStep(k) \/ LeaseLapses(k) \/ LeaseTimer(k) PROVE TypeOK'
  BY <1>2, LeaseStepTypes
<1>3. ASSUME NEW s \in Session, PeerClosed(s) \/ TokenExpires(s) PROVE TypeOK'
  <2>1. session' \in [Session -> SessionType]
    <3>1. CASE PeerClosed(s)
      BY <1>0, <3>1 DEF PeerClosed, SessionType
    <3>2. CASE TokenExpires(s)
      BY <1>0, <3>2 DEF TokenExpires, SessionType
    <3> QED BY <1>3, <3>1, <3>2
  <2> QED BY <1>3, <2>1 DEF PeerClosed, TokenExpires, TypeOK, OfferOK
<1>4. ASSUME NEW s \in Session, SessionTimer(s) \/ PeerFails(s) PROVE TypeOK'
  BY <1>4, CloseTypes DEF SessionTimer, PeerFails, TypeOK, OfferOK
<1>5. ASSUME NEW d \in Device, RevokeDevice(d) \/ RevokeStep(d) PROVE TypeOK'
  BY <1>5 DEF RevokeDevice, RevokeStep, RevokeCollect, RevokeDone, Open, TypeOK, OfferOK
<1>6. ASSUME NEW a \in DOMAIN toClose, CloseCollected(a) PROVE TypeOK'
  <2>1. PICK s \in toClose[a] : CloseIfOpen(s) /\ toClose' = [toClose EXCEPT ![a] = @ \ {s}]
    BY <1>6 DEF CloseCollected
  <2>2. s \in Session /\ toClose' \in [Device \cup Scope \cup {Shutdown} -> SUBSET Session]
    BY <2>1 DEF TypeOK
  <2> QED BY <1>6, <2>1, <2>2, CloseIfOpenTypes DEF CloseCollected, TypeOK, OfferOK
<1>7. CASE BeginShutdown \/ StopStep \/ Ended
  BY <1>7 DEF BeginShutdown, StopStep, CancelPeers, CleanupSealed, Stopped, Ended, Open, vars,
              TypeOK, OfferOK
<1>8. CASE UNCHANGED vars
  BY <1>8 DEF vars, TypeOK, OfferOK
<1> QED BY <1>1, <1>2, <1>3, <1>4, <1>5, <1>6, <1>7, <1>8 DEF Next

-----------------------------------------------------------------------------
(* Leases and their sessions.                                              *)

\* What closeSession does to sessions and leases.
LEMMA CloseEffect ==
    ASSUME TypeOK, NEW s \in Open, Close(s)
    PROVE  /\ s \in Session /\ Open' = Open \ {s}
           /\ \A x \in Session : /\ session'[x].dev = session[x].dev
                                 /\ session'[x].scope = session[x].scope
                                 /\ session'[x].peer = "open" => x # s /\ session[x].peer = "open"
                                 /\ x # s => session'[x].peer = session[x].peer
           /\ \A k \in Scope :
                /\ scope'[k].dev = scope[k].dev /\ scope'[k].lease = scope[k].lease
                /\ scope'[k].pc = scope[k].pc
                /\ k # session[s].scope => scope'[k].st = scope[k].st /\ scope'[k].refs = scope[k].refs
                /\ k = session[s].scope =>
                     /\ scope'[k].refs = scope[k].refs - 1
                     /\ scope'[k].st = IF scope[k].refs = 1 THEN "ended" ELSE scope[k].st
           /\ leases' = IF session[s].scope # None /\ scope[session[s].scope].refs = 1
                        THEN ListedWithout(session[s].scope) ELSE leases
<1> DEFINE k == session[s].scope
           p == IF session[s].peer = "open" THEN "closing" ELSE session[s].peer
           e == IF scope[k].refs = 1 THEN "ended" ELSE scope[k].st
<1>0. /\ session \in [Session -> SessionType] /\ scope \in [Scope -> ScopeType]
      /\ s \in Session /\ k \in Scope \cup {None} /\ p # "open"
  BY DEF TypeOK, SessionType, Open
<1>1. session' = [session EXCEPT ![s].st = "gone", ![s].token = FALSE, ![s].peer = p]
  BY DEF Close
<1>2. \A x \in Session :
        /\ session'[x].dev = session[x].dev /\ session'[x].scope = session[x].scope
        /\ session'[x].st = IF x = s THEN "gone" ELSE session[x].st
        /\ session'[x].peer = IF x = s THEN p ELSE session[x].peer
  <2> HIDE DEF p
  <2> QED BY <1>0, <1>1 DEF SessionType
<1>3. Open' = Open \ {s}
  BY <1>2 DEF Open
<1>4. CASE k = None
  <2>1. scope' = scope /\ leases' = leases
    BY <1>4 DEF Close
  <2> QED BY <1>0, <1>2, <1>3, <1>4, <2>1, NoneAssumption
<1>5. CASE k # None
  <2>1. /\ scope' = [scope EXCEPT ![k].refs = @ - 1, ![k].st = e]
        /\ leases' = IF scope[k].refs = 1 THEN ListedWithout(k) ELSE leases
    BY <1>5 DEF Close, LastLeft
  <2>2. k \in Scope
    BY <1>0, <1>5
  <2>3. \A j \in Scope :
          /\ scope'[j].dev = scope[j].dev /\ scope'[j].lease = scope[j].lease
          /\ scope'[j].pc = scope[j].pc
          /\ scope'[j].refs = IF j = k THEN scope[j].refs - 1 ELSE scope[j].refs
          /\ scope'[j].st = IF j = k THEN e ELSE scope[j].st
    <3> HIDE DEF k, e
    <3> QED BY <1>0, <2>1, <2>2 DEF ScopeType
  <2>4. \A x \in Session : /\ session'[x].peer = "open" => x # s /\ session[x].peer = "open"
                           /\ x # s => session'[x].peer = session[x].peer
    <3> HIDE DEF p
    <3> QED BY <1>0, <1>2
  <2>5. \A j \in Scope :
          /\ j # k => scope'[j].st = scope[j].st /\ scope'[j].refs = scope[j].refs
          /\ j = k => /\ scope'[j].refs = scope[j].refs - 1
                      /\ scope'[j].st = IF scope[k].refs = 1 THEN "ended" ELSE scope[j].st
    <3> HIDE DEF k
    <3> QED BY <2>3
  <2>6. leases' = IF k # None /\ scope[k].refs = 1 THEN ListedWithout(k) ELSE leases
    BY <1>5, <2>1
  <2>7. /\ s \in Session /\ Open' = Open \ {s}
        /\ \A x \in Session : session'[x].dev = session[x].dev /\ session'[x].scope = session[x].scope
        /\ \A j \in Scope : /\ scope'[j].dev = scope[j].dev /\ scope'[j].lease = scope[j].lease
                            /\ scope'[j].pc = scope[j].pc
    BY <1>0, <1>2, <1>3, <2>3
  <2> HIDE DEF p, e
  <2> QED BY <2>4, <2>5, <2>6, <2>7
<1> QED BY <1>4, <1>5

\* Steps that leave the table of leases and the sessions under each lease alone.
Undisturbed ==
    /\ Open' = Open /\ leases' = leases
    /\ \A s \in Open : session'[s].scope = session[s].scope
    /\ \A k \in Scope : /\ scope'[k].st = scope[k].st /\ scope'[k].refs = scope[k].refs
                        /\ scope'[k].dev = scope[k].dev
                        /\ scope[k].st = "unborn" => scope'[k].lease = scope[k].lease

LEMMA UndisturbedScope ==
    ASSUME NEW k \in Scope, ScopeOK(k), Undisturbed
    PROVE  ScopeOK(k)'
<1>1. Users(k)' = Users(k)
  BY DEF Undisturbed, Users
<1> QED BY <1>1 DEF Undisturbed, ScopeOK, Listed

\* A session is prepared: its lease has a user more.
LEMMA PrepareScope ==
    ASSUME TypeOK, \A j \in Scope : ScopeOK(j), NEW k \in Scope,
           NEW o \in Offer, NEW s \in Session, NEW j \in Scope \cup {None}, Prepares(o, s, j)
    PROVE  ScopeOK(k)'
<1> DEFINE d == offer[o].dev
<1>0. /\ session \in [Session -> SessionType] /\ scope \in [Scope -> ScopeType]
      /\ leases \in [Device -> Scope \cup {None}] /\ d \in Device
      /\ ScopeOK(k) /\ s \notin Open
  BY DEF TypeOK, Prepares, OfferOK, Open
<1>1. /\ Open' = Open \cup {s} /\ session'[s].scope = j
      /\ \A x \in Open : session'[x].scope = session[x].scope
  BY <1>0, BornIs DEF Prepares, Open
<1>2. Users(k)' = IF k = j THEN Users(k) \cup {s} ELSE Users(k)
  BY <1>0, <1>1 DEF Users
<1>3. CASE k # j
  <2>1. scope'[k] = scope[k]
    BY <1>0, <1>3 DEF Prepares
  <2>2. \A e \in Device : leases'[e] = k <=> leases[e] = k
    BY <1>0, <1>3, NoneAssumption DEF Prepares, ScopeOK
  <2>3. Users(k)' = Users(k) /\ (Listed(k)' <=> Listed(k))
    BY <1>2, <1>3, <2>2 DEF Listed
  <2> QED BY <1>0, <2>1, <2>2, <2>3 DEF ScopeOK
<1>4. CASE k = j
  <2>1. /\ IsFiniteSet(Users(k)')
        /\ Cardinality(Users(k)') = Cardinality(Users(k)) + 1
    <3>1. Users(k)' = Users(k) \cup {s} /\ s \notin Users(k) /\ IsFiniteSet(Users(k))
      BY <1>0, <1>2, <1>4 DEF ScopeOK, Users
    <3> QED BY <3>1, FS_AddElement
  <2>2. Users(k)' # {}
    BY <1>2, <1>4
  <2>3. CASE k = leases[d] /\ leases' = leases /\ scope' = [scope EXCEPT ![k].refs = @ + 1]
    <3>1. scope[k].st = "live" /\ Listed(k)
      BY <1>0, <2>3 DEF ScopeOK, Listed
    <3>2. /\ scope'[k].refs = scope[k].refs + 1 /\ scope'[k].st = scope[k].st
          /\ scope'[k].dev = scope[k].dev
      BY <1>0, <2>3 DEF ScopeType
    <3> QED BY <1>0, <2>1, <2>2, <2>3, <3>1, <3>2 DEF ScopeOK, Listed
  <2>4. CASE /\ leases[d] = None /\ scope[k].st = "unborn"
             /\ leases' = [leases EXCEPT ![d] = k]
             /\ scope' = [scope EXCEPT ![k] = Begun(d)]
    <3>1. scope'[k].st = "live" /\ scope'[k].dev = d /\ scope'[k].refs = 1
      BY <1>0, <2>4, BegunIs
    <3>2. Users(k) = {} /\ \A e \in Device : leases[e] # k
      BY <1>0, <2>4 DEF ScopeOK
    <3>3. Cardinality(Users(k)') = 1
      BY <2>1, <3>2, FS_EmptySet
    <3>4. Listed(k)' /\ \A e \in Device : leases'[e] = k => e = d
      BY <1>0, <2>4, <3>2 DEF Listed
    <3> QED BY <2>1, <2>2, <3>1, <3>3, <3>4 DEF ScopeOK
  <2> QED BY <1>4, <2>3, <2>4, NoneAssumption DEF Prepares
<1> QED BY <1>3, <1>4

\* A session is closed: its lease has a user less, and ends with the last one.
LEMMA CloseScope ==
    ASSUME TypeOK, NEW k \in Scope, \A j \in Scope : ScopeOK(j), NEW s \in Open, Close(s)
    PROVE  ScopeOK(k)'
<1>0. scope \in [Scope -> ScopeType] /\ leases \in [Device -> Scope \cup {None}] /\ ScopeOK(k)
  BY DEF TypeOK
<1> DEFINE j == session[s].scope
<1>1. Users(k)' = IF k = j THEN Users(k) \ {s} ELSE Users(k)
  BY CloseEffect DEF Users, Open
<1>2. CASE k # j
  <2>1. \A d \in Device : leases'[d] = k <=> leases[d] = k
    BY <1>0, <1>2, CloseEffect, NoneAssumption DEF ListedWithout
  <2>2. Users(k)' = Users(k) /\ (Listed(k)' <=> Listed(k))
    BY <1>1, <1>2, <2>1 DEF Listed
  <2> QED BY <1>0, <1>2, <2>1, <2>2, CloseEffect DEF ScopeOK
<1>3. CASE k = j
  <2>1. s \in Users(k)
    BY <1>3 DEF Users
  <2>2. /\ IsFiniteSet(Users(k)') /\ Cardinality(Users(k)') = Cardinality(Users(k)) - 1
        /\ Cardinality(Users(k)) \in Nat
    BY <1>0, <1>1, <1>3, <2>1, FS_RemoveElement, FS_CardinalityType DEF ScopeOK
  <2>3. /\ scope'[k].refs = scope[k].refs - 1 /\ scope'[k].dev = scope[k].dev
        /\ scope'[k].st = IF scope[k].refs = 1 THEN "ended" ELSE scope[k].st
        /\ leases' = IF scope[k].refs = 1 THEN ListedWithout(k) ELSE leases
    BY <1>3, CloseEffect, NoneAssumption
  <2>4. scope[k].st # "unborn" /\ scope[k].refs = Cardinality(Users(k))
    BY <1>0, <2>1 DEF ScopeOK
  <2>5. CASE scope[k].refs = 1
    <3>1. \A d \in Device : leases'[d] # k
      BY <1>0, <2>3, <2>5, NoneAssumption DEF ListedWithout, ScopeOK
    <3> QED BY <2>2, <2>3, <2>4, <2>5, <3>1 DEF ScopeOK
  <2>6. CASE scope[k].refs # 1
    <3>1. Users(k)' # {}
      BY <2>2, <2>4, <2>6, FS_EmptySet
    <3>2. leases' = leases /\ scope'[k].st = scope[k].st
      BY <2>3, <2>6
    <3> QED BY <1>0, <2>2, <2>3, <2>4, <3>1, <3>2 DEF ScopeOK, Listed
  <2> QED BY <2>5, <2>6
<1> QED BY <1>2, <1>3

\* A lease expires: it leaves the table, its users stay until they are closed.
LEMMA ExpireScope ==
    ASSUME TypeOK, NEW k \in Scope, \A i \in Scope : ScopeOK(i), NEW j \in Scope, Expire(j),
           session' = session,
           \A i \in Scope : /\ scope'[i].refs = scope[i].refs /\ scope'[i].dev = scope[i].dev
                            /\ scope'[i].lease = scope[i].lease
                            /\ scope'[i].st = IF i = j /\ Listed(j) THEN "ended" ELSE scope[i].st
    PROVE  ScopeOK(k)'
<1>0. leases \in [Device -> Scope \cup {None}] /\ ScopeOK(k) /\ ScopeOK(j)
  BY DEF TypeOK
<1>1. Users(k)' = Users(k)
  BY DEF Users, Open
<1>2. CASE k = j /\ Listed(j)
  <2>1. \A d \in Device : leases'[d] # k
    BY <1>0, <1>2, NoneAssumption DEF Expire, ScopeOK
  <2> QED BY <1>0, <1>1, <1>2, <2>1 DEF ScopeOK
<1>3. CASE ~(k = j /\ Listed(j))
  <2>1. \A d \in Device : leases'[d] = k <=> leases[d] = k
    BY <1>0, <1>3, NoneAssumption DEF Expire, ScopeOK, Listed
  <2>2. Listed(k)' <=> Listed(k)
    BY <2>1 DEF Listed
  <2> QED BY <1>0, <1>1, <1>3, <2>1, <2>2 DEF ScopeOK
<1> QED BY <1>2, <1>3

LEMMA ScopeStep == TypeOK /\ (\A k \in Scope : ScopeOK(k)) /\ [Next]_vars
                       => (\A k \in Scope : ScopeOK(k))'
<1> SUFFICES ASSUME TypeOK, \A k \in Scope : ScopeOK(k), [Next]_vars, NEW k \in Scope
             PROVE  ScopeOK(k)'
  OBVIOUS
<1>0. session \in [Session -> SessionType] /\ scope \in [Scope -> ScopeType]
  BY DEF TypeOK
<1>1. ASSUME Undisturbed PROVE ScopeOK(k)'
  BY <1>1, UndisturbedScope
<1>2. ASSUME session' = session, scope' = scope, leases' = leases PROVE Undisturbed
  BY <1>2 DEF Undisturbed, Open
<1>3. ASSUME NEW s \in Session, CloseIfOpen(s) PROVE ScopeOK(k)'
  BY <1>1, <1>2, <1>3, CloseScope DEF CloseIfOpen
<1>4. ASSUME NEW o \in Offer, Prepare(o) PROVE ScopeOK(k)'
  <2>1. PICK s \in Session, j \in Scope \cup {None} : Prepares(o, s, j)
    BY <1>4, PrepareCases
  <2> QED BY <2>1, PrepareScope
<1>5. ASSUME NEW o \in Offer, SetPeer(o) PROVE Undisturbed
  <2>1. /\ scope' = scope /\ leases' = leases
        /\ \/ session' = session
           \/ session' = [session EXCEPT ![offer[o].sid].peer = "open"]
    BY <1>5 DEF SetPeer
  <2> QED BY <1>0, <2>1 DEF Undisturbed, Open, SessionType
<1>6. ASSUME NEW o \in Offer, OfferCloses(o) PROVE ScopeOK(k)'
  <2>1. offer[o].sid \in Session
    BY <1>6 DEF OfferCloses, TypeOK, OfferOK
  <2> QED BY <1>3, <1>6, <2>1 DEF OfferCloses
<1>7. ASSUME NEW o \in Offer, \/ PrepareRefused(o) \/ LeaseReady(o) \/ Activate(o) \/ OfferFails(o)
                             \/ \E d \in Device : CheckDevice(o, d)
      PROVE  Undisturbed
  BY <1>2, <1>7 DEF PrepareRefused, LeaseReady, Activate, OfferFails, CheckDevice
<1>8. ASSUME NEW j \in Scope, Denied(j) \/ Undated(j) \/ LeaseTimer(j) PROVE ScopeOK(k)'
  <2> DEFINE st == IF Listed(j) THEN "ended" ELSE scope[j].st
  <2>1. /\ Expire(j) /\ session' = session
        /\ \/ scope' = [scope EXCEPT ![j].st = st, ![j].pc = "expire"]
           \/ scope' = [scope EXCEPT ![j].st = st]
    BY <1>8 DEF Denied, Undated, LeaseTimer, ExpireAndReturn
  <2>2. \A i \in Scope : /\ scope'[i].refs = scope[i].refs /\ scope'[i].dev = scope[i].dev
                         /\ scope'[i].lease = scope[i].lease
                         /\ scope'[i].st = IF i = j THEN st ELSE scope[i].st
    <3> HIDE DEF st
    <3> QED BY <1>0, <2>1 DEF ScopeType
  <2>3. \A i \in Scope : scope'[i].st = IF i = j /\ Listed(j) THEN "ended" ELSE scope[i].st
    BY <2>2
  <2> QED BY <2>1, <2>2, <2>3, ExpireScope
<1>9. ASSUME NEW j \in Scope, \/ Granted(j) \/ Unreached(j) \/ Sleep(j) \/ RenewAgain(j)
                             \/ RenewReturns(j) \/ LeaseLapses(j)
      PROVE  Undisturbed
  <2>1. /\ session' = session /\ leases' = leases
    BY <1>9 DEF Granted, Unreached, Sleep, RenewAgain, RenewReturns, LeaseLapses
  <2>2. \A i \in Scope : /\ scope'[i].st = scope[i].st /\ scope'[i].refs = scope[i].refs
                         /\ scope'[i].dev = scope[i].dev
                         /\ scope[i].st = "unborn" => scope'[i].lease = scope[i].lease
    <3>1. CASE Granted(j)
      <4> DEFINE lease == IF MayApply(j) THEN "valid" ELSE scope[j].lease
      <4>1. /\ scope' = [scope EXCEPT ![j].lease = lease, ![j].pc = "checked", ![j].ready = TRUE]
            /\ scope[j].st = "live"
        BY <3>1 DEF Granted
      <4> HIDE DEF lease
      <4> QED BY <1>0, <4>1 DEF ScopeType
    <3>2. CASE Unreached(j) \/ RenewReturns(j)
      BY <1>0, <3>2 DEF Unreached, RenewReturns, ScopeType
    <3>3. CASE Sleep(j) \/ RenewAgain(j)
      BY <1>0, <3>3 DEF Sleep, RenewAgain, ScopeType
    <3>4. CASE LeaseLapses(j)
      BY <1>0, <3>4 DEF LeaseLapses, ScopeType
    <3> QED BY <1>9, <3>1, <3>2, <3>3, <3>4
  <2> QED BY <2>1, <2>2 DEF Undisturbed, Open
<1>10. ASSUME NEW s \in Session, PeerClosed(s) \/ TokenExpires(s) PROVE Undisturbed
  <2>1. /\ scope' = scope /\ leases' = leases
        /\ \/ session' = [session EXCEPT ![s].peer = "closed"]
           \/ session' = [session EXCEPT ![s].token = FALSE]
    BY <1>10 DEF PeerClosed, TokenExpires
  <2> QED BY <1>0, <2>1 DEF Undisturbed, Open, SessionType
<1>11. ASSUME NEW s \in Session, SessionTimer(s) \/ PeerFails(s) PROVE ScopeOK(k)'
  BY <1>11, CloseScope DEF SessionTimer, PeerFails
<1>12. ASSUME NEW d \in Device, RevokeDevice(d) \/ RevokeStep(d) PROVE Undisturbed
  BY <1>2, <1>12 DEF RevokeDevice, RevokeStep, RevokeCollect, RevokeDone
<1>13. ASSUME NEW a \in DOMAIN toClose, CloseCollected(a) PROVE ScopeOK(k)'
  <2>1. PICK s \in toClose[a] : CloseIfOpen(s)
    BY <1>13 DEF CloseCollected
  <2>2. s \in Session
    BY <2>1 DEF TypeOK
  <2> QED BY <1>3, <2>1, <2>2
<1>14. CASE BeginShutdown \/ StopStep \/ Ended \/ UNCHANGED vars
  BY <1>1, <1>2, <1>14
     DEF BeginShutdown, StopStep, CancelPeers, CleanupSealed, Stopped, Ended, vars
<1> QED BY <1>1, <1>4, <1>5, <1>6, <1>7, <1>8, <1>9, <1>10, <1>11, <1>12, <1>13, <1>14
        DEF Next, OfferStep, LeaseStep, Answer

-----------------------------------------------------------------------------
(* Revocation.                                                             *)

\* A device keeps its promise while it gets no reader, no session and is not
\* paired again, and an id leaves the list of its revoker closed.
LEMMA RevokerKept ==
    ASSUME NEW d \in Device, RevokerOK(d), revoker'[d] = revoker[d], paired' \subseteq paired,
           Reading(d)' => Reading(d),
           revoker[d] # "idle" =>
               \A s \in Open' : /\ s \in Open /\ session'[s].dev = session[s].dev
                                /\ s \in toClose[d] => s \in toClose'[d]
    PROVE  RevokerOK(d)'
<1>1. CASE revoker[d] = "idle"
  BY <1>1 DEF RevokerOK
<1>2. CASE revoker[d] # "idle"
  <2>1. d \notin paired' /\ ~Reading(d)'
    BY <1>2, Zenon DEF RevokerOK
  <2>2. revoker[d] = "closing" => (\A s \in Open : session[s].dev = d => s \in toClose[d])'
    BY <1>2 DEF RevokerOK
  <2>3. revoker[d] = "done" => (\A s \in Open : session[s].dev # d)'
    BY <1>2 DEF RevokerOK
  <2> QED BY <1>2, <2>1, <2>2, <2>3, Zenon DEF RevokerOK
<1> QED BY <1>1, <1>2

\* Nobody but CheckDevice makes an offer a reader.
LEMMA OfferReads ==
    ASSUME TypeOK, NEW o \in Offer, OfferStep(o), NEW d \in Device
    PROVE  Reading(d)' => Reading(d)
<1>1. offer \in [Offer -> OfferType] /\ NoOffer.pc = "idle"
  BY DEF TypeOK, NoOffer
<1>2. \A p \in Offer : p # o => offer'[p] = offer[p]
  BY <1>1 DEF OfferStep, Prepare, PrepareRefused, LeaseReady, SetPeer, Activate, OfferFails,
              OfferCloses, Goto
<1>3. offer'[o].pc # "checked"
  <2>1. ASSUME NEW pc \in {"lease", "peer", "gather", "fail"}, Goto(o, pc)
        PROVE  offer'[o].pc # "checked"
    BY <1>1, <2>1 DEF Goto, OfferType
  <2>2. CASE Prepare(o)
    <3>1. PICK s \in Session : offer' = [offer EXCEPT ![o].pc = "lease", ![o].sid = s]
      BY <2>2 DEF Prepare
    <3> QED BY <1>1, <3>1 DEF OfferType
  <2>3. CASE LeaseReady(o)
    BY <2>1, <2>3 DEF LeaseReady
  <2>4. CASE SetPeer(o) \/ OfferFails(o)
    BY <2>1, <2>4 DEF SetPeer, OfferFails
  <2>5. CASE PrepareRefused(o) \/ OfferCloses(o)
    BY <1>1, <2>5 DEF PrepareRefused, OfferCloses
  <2>6. CASE Activate(o)
    <3>1. Goto(o, "fail") \/ offer' = [offer EXCEPT ![o] = NoOffer]
      BY <2>6 DEF Activate
    <3> QED BY <1>1, <2>1, <3>1
  <2> QED BY <2>2, <2>3, <2>4, <2>5, <2>6 DEF OfferStep
<1> QED BY <1>2, <1>3 DEF Reading

\* A closed session is no session, others keep their device.
LEMMA CloseIfOpenEffect ==
    ASSUME TypeOK, NEW s \in Session, CloseIfOpen(s)
    PROVE  /\ Open' = Open \ {s}
           /\ \A x \in Session : /\ session'[x].dev = session[x].dev
                                 /\ session'[x].peer = "open" => session[x].peer = "open"
                                 /\ session'[x].peer = "open" => x # s \/ s \notin Open
           /\ \A k \in Scope : scope'[k].pc = scope[k].pc
<1>1. CASE s \in Open
  BY <1>1, CloseEffect DEF CloseIfOpen
<1>2. CASE s \notin Open
  BY <1>2 DEF CloseIfOpen, Open
<1> QED BY <1>1, <1>2

LEMMA RevokerStep == TypeOK /\ (\A d \in Device : RevokerOK(d)) /\ [Next]_vars
                         => (\A d \in Device : RevokerOK(d))'
<1> SUFFICES ASSUME TypeOK, \A e \in Device : RevokerOK(e), [Next]_vars, NEW d \in Device
             PROVE  RevokerOK(d)'
  OBVIOUS
<1>0. /\ session \in [Session -> SessionType] /\ offer \in [Offer -> OfferType]
      /\ toClose \in [Device \cup Scope \cup {Shutdown} -> SUBSET Session]
      /\ revoker \in [Device -> {"idle", "removed", "closing", "done"}]
      /\ paired \subseteq Device /\ RevokerOK(d)
  BY DEF TypeOK
<1>1. ASSUME UNCHANGED <<paired, session, offer, toClose, revoker>> PROVE RevokerOK(d)'
  BY <1>0, <1>1 DEF RevokerOK, Reading, Open
<1>2. ASSUME NEW s \in Session, CloseIfOpen(s), UNCHANGED <<paired, revoker>>,
             Reading(d)' => Reading(d),
             \A x \in Session : x # s => (x \in toClose[d] => x \in toClose'[d])
      PROVE  RevokerOK(d)'
  <2>1. \A x \in Open' : x \in Open /\ x \in Session /\ x # s /\ session'[x].dev = session[x].dev
    BY <1>2, CloseIfOpenEffect DEF Open
  <2> QED BY <1>0, <1>2, <2>1, RevokerKept
<1>3. ASSUME NEW o \in Offer, OfferStep(o) PROVE RevokerOK(d)'
  <2>1. Reading(d)' => Reading(d)
    BY <1>3, OfferReads
  <2>2. UNCHANGED <<paired, toClose, revoker>>
    BY <1>3 DEF OfferStep, Prepare, PrepareRefused, LeaseReady, SetPeer, Activate, OfferFails,
                OfferCloses
  <2>3. CASE Prepare(o)
    <3>1. PICK s \in Session, k \in Scope \cup {None} : Prepares(o, s, k)
      BY <2>3, PrepareCases
    <3>2. offer[o].pc = "checked" /\ offer[o].dev \in Device
      BY <2>3 DEF Prepare, TypeOK, OfferOK
    <3>3. revoker[offer[o].dev] = "idle"
      BY <3>2 DEF RevokerOK, Reading
    <3>4. /\ Open' = Open \cup {s} /\ session'[s].dev = offer[o].dev
          /\ \A x \in Open : session'[x].dev = session[x].dev
      BY <1>0, <3>1, <3>2, BornIs DEF Prepares, Open
    <3> QED BY <1>0, <2>1, <2>2, <3>3, <3>4 DEF RevokerOK
  <2>4. CASE OfferCloses(o)
    <3>1. offer[o].sid \in Session /\ CloseIfOpen(offer[o].sid)
      BY <2>4 DEF OfferCloses, TypeOK, OfferOK
    <3> QED BY <1>2, <2>1, <2>2, <3>1
  <2>5. CASE SetPeer(o)
    <3>1. session' = session \/ session' = [session EXCEPT ![offer[o].sid].peer = "open"]
      BY <2>5 DEF SetPeer
    <3>2. Open' = Open /\ \A x \in Open : session'[x].dev = session[x].dev
      <4>1. CASE session' = session
        BY <4>1 DEF Open
      <4>2. CASE session' = [session EXCEPT ![offer[o].sid].peer = "open"]
        <5>1. \A x \in Session : session'[x].st = session[x].st /\ session'[x].dev = session[x].dev
          BY <1>0, <4>2 DEF SessionType
        <5> QED BY <5>1 DEF Open
      <4> QED BY <3>1, <4>1, <4>2
    <3> QED BY <1>0, <2>1, <2>2, <3>2, RevokerKept
  <2>6. CASE PrepareRefused(o) \/ LeaseReady(o) \/ Activate(o) \/ OfferFails(o)
    <3>1. session' = session
      BY <2>6 DEF PrepareRefused, LeaseReady, Activate, OfferFails
    <3>2. Open' = Open
      BY <3>1 DEF Open
    <3> QED BY <1>0, <2>1, <2>2, <3>1, <3>2, RevokerKept
  <2> QED BY <1>3, <2>3, <2>4, <2>5, <2>6 DEF OfferStep
<1>4. ASSUME NEW o \in Offer, NEW e \in Device, CheckDevice(o, e) PROVE RevokerOK(d)'
  <2>1. revoker[d] # "idle" => d # e
    BY <1>0, <1>4 DEF CheckDevice, RevokerOK
  <2>2. offer'[o].dev = e /\ \A p \in Offer : p # o => offer'[p] = offer[p]
    BY <1>0, <1>4 DEF CheckDevice
  <2>3. d # e => (Reading(d)' => Reading(d))
    BY <2>2 DEF Reading
  <2>4. UNCHANGED <<paired, session, toClose, revoker>> /\ Open' = Open
    BY <1>4 DEF CheckDevice, Open
  <2> QED BY <1>0, <2>1, <2>3, <2>4 DEF RevokerOK
<1>5. ASSUME NEW k \in Scope, LeaseStep(k) \/ LeaseLapses(k) \/ LeaseTimer(k) PROVE RevokerOK(d)'
  <2>1. CASE Expire(k) /\ UNCHANGED <<paired, session, offer, revoker>>
    <3>1. toClose'[d] = toClose[d]
      BY <1>0, <2>1, CloserAssumption DEF Expire
    <3>2. Open' = Open /\ (Reading(d)' <=> Reading(d))
      BY <2>1 DEF Open, Reading
    <3> QED BY <1>0, <2>1, <3>1, <3>2, RevokerKept
  <2>2. CASE UNCHANGED <<paired, session, offer, toClose, revoker>>
    BY <1>1, <2>2
  <2> QED BY <1>5, <2>1, <2>2
          DEF LeaseStep, Answer, Denied, Undated, LeaseTimer, ExpireAndReturn, Granted, Unreached,
              Sleep, RenewAgain, RenewReturns, LeaseLapses
<1>6. ASSUME NEW s \in Session, PeerClosed(s) \/ TokenExpires(s) PROVE RevokerOK(d)'
  <2>1. /\ UNCHANGED <<paired, offer, toClose, revoker>>
        /\ \/ session' = [session EXCEPT ![s].peer = "closed"]
           \/ session' = [session EXCEPT ![s].token = FALSE]
    BY <1>6 DEF PeerClosed, TokenExpires
  <2>2. Open' = Open /\ \A x \in Open : session'[x].dev = session[x].dev
    BY <1>0, <2>1 DEF Open, SessionType
  <2>3. Reading(d)' <=> Reading(d)
    BY <2>1 DEF Reading
  <2> QED BY <1>0, <2>1, <2>2, <2>3, RevokerKept
<1>7. ASSUME NEW s \in Session, SessionTimer(s) \/ PeerFails(s) PROVE RevokerOK(d)'
  <2>1. CloseIfOpen(s) /\ UNCHANGED <<paired, offer, toClose, revoker>>
    BY <1>7 DEF SessionTimer, PeerFails, CloseIfOpen
  <2>2. Reading(d)' <=> Reading(d)
    BY <2>1 DEF Reading
  <2> QED BY <1>2, <2>1, <2>2
<1>8. ASSUME NEW e \in Device, RevokeDevice(e) \/ RevokeStep(e) PROVE RevokerOK(d)'
  <2>1. UNCHANGED <<session, offer>> /\ Open' = Open /\ (Reading(d)' <=> Reading(d))
    BY <1>8 DEF RevokeDevice, RevokeStep, RevokeCollect, RevokeDone, Open, Reading
  <2>2. CASE d # e
    BY <1>0, <1>8, <2>1, <2>2, RevokerKept
       DEF RevokeDevice, RevokeStep, RevokeCollect, RevokeDone
  <2>3. CASE d = e /\ RevokeDevice(e)
    BY <1>0, <2>1, <2>3 DEF RevokeDevice, RevokerOK
  <2>4. CASE d = e /\ RevokeCollect(e)
    BY <1>0, <2>1, <2>4 DEF RevokeCollect, RevokerOK
  <2>5. CASE d = e /\ RevokeDone(e)
    BY <1>0, <2>1, <2>5 DEF RevokeDone, RevokerOK
  <2> QED BY <1>8, <2>2, <2>3, <2>4, <2>5 DEF RevokeStep
<1>9. ASSUME NEW a \in DOMAIN toClose, CloseCollected(a) PROVE RevokerOK(d)'
  <2>1. PICK s \in toClose[a] :
          CloseIfOpen(s) /\ toClose' = [toClose EXCEPT ![a] = @ \ {s}]
    BY <1>9 DEF CloseCollected
  <2>2. s \in Session /\ \A x \in Session : x # s => (x \in toClose[d] => x \in toClose'[d])
    BY <1>0, <2>1
  <2>3. UNCHANGED <<paired, offer, revoker>> /\ (Reading(d)' <=> Reading(d))
    BY <1>9 DEF CloseCollected, Reading
  <2> QED BY <1>2, <2>1, <2>2, <2>3
<1>10. CASE CancelPeers
  <2>1. /\ UNCHANGED <<paired, session, offer, revoker>> /\ toClose'[d] = toClose[d]
        /\ Open' = Open /\ (Reading(d)' <=> Reading(d))
    BY <1>0, <1>10, CloserAssumption DEF CancelPeers, Open, Reading
  <2> QED BY <1>0, <2>1, RevokerKept
<1>11. CASE BeginShutdown \/ CleanupSealed \/ Stopped \/ Ended \/ UNCHANGED vars
  BY <1>1, <1>11 DEF BeginShutdown, CleanupSealed, Stopped, Ended, vars
<1> QED BY <1>3, <1>4, <1>5, <1>6, <1>7, <1>8, <1>9, <1>10, <1>11 DEF Next, StopStep

-----------------------------------------------------------------------------
(* Shutdown.                                                               *)

PeerOK == \A s \in Session : session[s].peer = "open" => s \in Open
ClosedOK ==
    /\ stop = "canceled" => Open \subseteq toClose[Shutdown]
    /\ stop \in {"sealed", "stopped"} => Open = {}
StoppedOK ==
    stop = "stopped" => /\ \A s \in Session : session[s].peer # "closing"
                        /\ \A k \in Scope : scope[k].pc = "none"
                        /\ \A o \in Offer : offer[o].pc = "idle"

\* Only an open session gets a peer, and a closed one keeps none open.
LEMMA PeerStep == TypeOK /\ PeerOK /\ [Next]_vars => PeerOK'
<1> SUFFICES ASSUME TypeOK, PeerOK, [Next]_vars PROVE PeerOK'
  OBVIOUS
<1>0. session \in [Session -> SessionType]
  BY DEF TypeOK
<1>1. ASSUME session' = session PROVE PeerOK'
  BY <1>1 DEF PeerOK, Open
<1>2. ASSUME NEW s \in Session, CloseIfOpen(s) PROVE PeerOK'
  BY <1>2, CloseIfOpenEffect DEF PeerOK
<1>3. ASSUME NEW o \in Offer, Prepare(o) PROVE PeerOK'
  <2>1. PICK s \in Session, k \in Scope \cup {None} : Prepares(o, s, k)
    BY <1>3, PrepareCases
  <2>2. offer[o].dev \in Device
    BY <1>3 DEF Prepare, TypeOK, OfferOK
  <2> QED BY <1>0, <2>1, <2>2, BornIs DEF Prepares, PeerOK, Open
<1>4. ASSUME NEW o \in Offer, SetPeer(o) PROVE PeerOK'
  <2>1. offer[o].sid \in Session
    BY <1>4 DEF SetPeer, TypeOK, OfferOK
  <2>2. \/ session' = session
        \/ /\ session[offer[o].sid].st = "open"
           /\ session' = [session EXCEPT ![offer[o].sid].peer = "open"]
    BY <1>4 DEF SetPeer, Authorized
  <2>3. CASE session[offer[o].sid].st = "open" /\ session' = [session EXCEPT ![offer[o].sid].peer = "open"]
    <3>1. \A x \in Session : /\ session'[x].st = session[x].st
                             /\ x # offer[o].sid => session'[x].peer = session[x].peer
      BY <1>0, <2>1, <2>3 DEF SessionType
    <3> QED BY <2>1, <2>3, <3>1 DEF PeerOK, Open
  <2> QED BY <1>1, <2>2, <2>3
<1>5. ASSUME NEW o \in Offer, OfferCloses(o) PROVE PeerOK'
  <2>1. offer[o].sid \in Session
    BY <1>5 DEF OfferCloses, TypeOK, OfferOK
  <2> QED BY <1>2, <1>5, <2>1 DEF OfferCloses
<1>6. ASSUME NEW s \in Session, PeerClosed(s) \/ TokenExpires(s) PROVE PeerOK'
  <2>1. \/ session' = [session EXCEPT ![s].peer = "closed"]
        \/ session' = [session EXCEPT ![s].token = FALSE]
    BY <1>6 DEF PeerClosed, TokenExpires
  <2> QED BY <1>0, <2>1 DEF PeerOK, Open, SessionType
<1>7. ASSUME NEW s \in Session, SessionTimer(s) \/ PeerFails(s) PROVE PeerOK'
  BY <1>2, <1>7 DEF SessionTimer, PeerFails, CloseIfOpen
<1>8. ASSUME NEW a \in DOMAIN toClose, CloseCollected(a) PROVE PeerOK'
  <2>1. PICK s \in toClose[a] : CloseIfOpen(s)
    BY <1>8 DEF CloseCollected
  <2>2. s \in Session
    BY <2>1 DEF TypeOK
  <2> QED BY <1>2, <2>1, <2>2
<1>9. ASSUME NEW o \in Offer, \/ PrepareRefused(o) \/ LeaseReady(o) \/ Activate(o) \/ OfferFails(o)
                             \/ \E d \in Device : CheckDevice(o, d)
      PROVE  PeerOK'
  BY <1>1, <1>9 DEF PrepareRefused, LeaseReady, Activate, OfferFails, CheckDevice
<1>10. ASSUME NEW k \in Scope, LeaseStep(k) \/ LeaseLapses(k) \/ LeaseTimer(k) PROVE PeerOK'
  BY <1>1, <1>10 DEF LeaseStep, Answer, Denied, Undated, LeaseTimer, ExpireAndReturn, Granted,
                     Unreached, Sleep, RenewAgain, RenewReturns, LeaseLapses
<1>11. ASSUME NEW d \in Device, RevokeDevice(d) \/ RevokeStep(d) PROVE PeerOK'
  BY <1>1, <1>11 DEF RevokeDevice, RevokeStep, RevokeCollect, RevokeDone
<1>12. CASE BeginShutdown \/ StopStep \/ Ended \/ UNCHANGED vars
  BY <1>1, <1>12 DEF BeginShutdown, StopStep, CancelPeers, CleanupSealed, Stopped, Ended, vars
<1> QED BY <1>3, <1>4, <1>5, <1>6, <1>7, <1>8, <1>9, <1>10, <1>11, <1>12 DEF Next, OfferStep

\* After Cancel every open session is on the list, and none is when it is empty.
LEMMA ClosedStep == TypeOK /\ ClosedOK /\ [Next]_vars => ClosedOK'
<1> SUFFICES ASSUME TypeOK, ClosedOK, [Next]_vars PROVE ClosedOK'
  OBVIOUS
<1>0. /\ session \in [Session -> SessionType]
      /\ toClose \in [Device \cup Scope \cup {Shutdown} -> SUBSET Session]
  BY DEF TypeOK
<1>1. ASSUME Open' \subseteq Open, stop' = stop,
             \A x \in Open' : x \in toClose[Shutdown] => x \in toClose'[Shutdown]
      PROVE  ClosedOK'
  BY <1>1 DEF ClosedOK
<1>2. ASSUME NEW s \in Session, CloseIfOpen(s), stop' = stop,
             \A x \in Session : x # s => (x \in toClose[Shutdown] => x \in toClose'[Shutdown])
      PROVE  ClosedOK'
  <2>1. Open' \subseteq Open /\ \A x \in Open' : x \in Session /\ x # s
    BY <1>2, CloseIfOpenEffect DEF Open
  <2> QED BY <1>1, <1>2, <2>1
<1>3. ASSUME NEW o \in Offer, Prepare(o) PROVE ClosedOK'
  BY <1>3 DEF Prepare, AdmitsPrepare, ClosedOK
<1>4. ASSUME NEW o \in Offer, SetPeer(o) PROVE ClosedOK'
  <2>1. session' = session \/ session' = [session EXCEPT ![offer[o].sid].peer = "open"]
    BY <1>4 DEF SetPeer
  <2>2. Open' = Open
    BY <1>0, <2>1 DEF Open, SessionType
  <2> QED BY <1>1, <1>4, <2>2 DEF SetPeer
<1>5. ASSUME NEW o \in Offer, OfferCloses(o) PROVE ClosedOK'
  <2>1. offer[o].sid \in Session
    BY <1>5 DEF OfferCloses, TypeOK, OfferOK
  <2> QED BY <1>2, <1>5, <2>1 DEF OfferCloses
<1>6. ASSUME NEW s \in Session, PeerClosed(s) \/ TokenExpires(s) PROVE ClosedOK'
  <2>1. \/ session' = [session EXCEPT ![s].peer = "closed"]
        \/ session' = [session EXCEPT ![s].token = FALSE]
    BY <1>6 DEF PeerClosed, TokenExpires
  <2>2. Open' = Open
    BY <1>0, <2>1 DEF Open, SessionType
  <2> QED BY <1>1, <1>6, <2>2 DEF PeerClosed, TokenExpires
<1>7. ASSUME NEW s \in Session, SessionTimer(s) \/ PeerFails(s) PROVE ClosedOK'
  BY <1>2, <1>7 DEF SessionTimer, PeerFails, CloseIfOpen
<1>8. ASSUME NEW a \in DOMAIN toClose, CloseCollected(a) PROVE ClosedOK'
  <2>1. PICK s \in toClose[a] :
          CloseIfOpen(s) /\ toClose' = [toClose EXCEPT ![a] = @ \ {s}]
    BY <1>8 DEF CloseCollected
  <2>2. /\ s \in Session
        /\ \A x \in Session : x # s => (x \in toClose[Shutdown] => x \in toClose'[Shutdown])
    BY <1>0, <2>1
  <2> QED BY <1>2, <1>8, <2>1, <2>2 DEF CloseCollected
<1>9. ASSUME NEW o \in Offer, \/ PrepareRefused(o) \/ LeaseReady(o) \/ Activate(o) \/ OfferFails(o)
                             \/ \E d \in Device : CheckDevice(o, d)
      PROVE  ClosedOK'
  BY <1>1, <1>9 DEF PrepareRefused, LeaseReady, Activate, OfferFails, CheckDevice, Open
<1>10. ASSUME NEW k \in Scope, LeaseStep(k) \/ LeaseLapses(k) \/ LeaseTimer(k) PROVE ClosedOK'
  <2>1. /\ session' = session /\ stop' = stop
        /\ toClose' = toClose \/ Expire(k)
    BY <1>10 DEF LeaseStep, Answer, Denied, Undated, LeaseTimer, ExpireAndReturn, Granted,
                 Unreached, Sleep, RenewAgain, RenewReturns, LeaseLapses
  <2>2. toClose'[Shutdown] = toClose[Shutdown]
    BY <1>0, <2>1, CloserAssumption DEF Expire
  <2> QED BY <1>1, <2>1, <2>2 DEF Open
<1>11. ASSUME NEW d \in Device, RevokeDevice(d) \/ RevokeStep(d) PROVE ClosedOK'
  <2>1. /\ session' = session /\ stop' = stop /\ toClose'[Shutdown] = toClose[Shutdown]
    BY <1>0, <1>11, CloserAssumption DEF RevokeDevice, RevokeStep, RevokeCollect, RevokeDone
  <2> QED BY <1>1, <2>1 DEF Open
<1>12. CASE CancelPeers
  BY <1>0, <1>12 DEF CancelPeers, ClosedOK, Open
<1>13. CASE BeginShutdown \/ CleanupSealed \/ Stopped \/ Ended \/ UNCHANGED vars
  BY <1>13 DEF BeginShutdown, CleanupSealed, Stopped, Ended, vars, ClosedOK, Open
<1> QED BY <1>3, <1>4, <1>5, <1>6, <1>7, <1>8, <1>9, <1>10, <1>11, <1>12, <1>13
        DEF Next, OfferStep, StopStep

\* When Wait returned, nobody is left who could start anything.
LEMMA StoppedStep == TypeOK /\ PeerOK /\ ClosedOK /\ StoppedOK /\ [Next]_vars => StoppedOK'
<1> SUFFICES ASSUME TypeOK, PeerOK, ClosedOK, StoppedOK, [Next]_vars, stop' = "stopped"
             PROVE  StoppedOK'
  BY DEF StoppedOK
<1>1. CASE stop = "stopped"
  <2>0. /\ Open = {} /\ \A s \in Session : session[s].peer # "closing"
        /\ \A k \in Scope : scope[k].pc = "none"
        /\ \A o \in Offer : offer[o].pc = "idle"
        /\ scope \in [Scope -> ScopeType]
    BY <1>1 DEF ClosedOK, StoppedOK, TypeOK
  <2>1. ASSUME UNCHANGED <<session, scope, offer>> PROVE StoppedOK'
    BY <2>0, <2>1 DEF StoppedOK
  <2>2. ASSUME NEW o \in Offer, OfferStep(o) \/ \E d \in Device : CheckDevice(o, d)
        PROVE  FALSE
    <3>1. ASSUME OfferStep(o) PROVE offer[o].pc # "idle"
      BY <3>1 DEF OfferStep, Prepare, PrepareRefused, LeaseReady, SetPeer, Activate, OfferFails,
                  OfferCloses
    <3>2. ASSUME NEW d \in Device, CheckDevice(o, d) PROVE stop = "running"
      BY <3>2 DEF CheckDevice
    <3> QED BY <1>1, <2>0, <2>2, <3>1, <3>2
  <2>3. ASSUME NEW k \in Scope, LeaseStep(k) PROVE FALSE
    BY <2>0, <2>3 DEF LeaseStep, Answer, Denied, Undated, Granted, Unreached, Sleep, RenewAgain,
                      RenewReturns
  <2>4. ASSUME NEW k \in Scope, LeaseLapses(k) \/ LeaseTimer(k) PROVE StoppedOK'
    <3> DEFINE st == IF Listed(k) THEN "ended" ELSE scope[k].st
    <3>1. /\ session' = session /\ offer' = offer
          /\ \/ scope' = [scope EXCEPT ![k].lease = "lapsed"]
             \/ scope' = [scope EXCEPT ![k].st = st]
      BY <2>4 DEF LeaseLapses, LeaseTimer
    <3>2. \A j \in Scope : scope'[j].pc = scope[j].pc
      <4> HIDE DEF st
      <4> QED BY <2>0, <3>1 DEF ScopeType
    <3> QED BY <2>0, <3>1, <3>2 DEF StoppedOK
  <2>5. ASSUME NEW s \in Session, PeerClosed(s) \/ TokenExpires(s) \/ SessionTimer(s) \/ PeerFails(s)
        PROVE  FALSE
    BY <2>0, <2>5 DEF PeerClosed, TokenExpires, SessionTimer, PeerFails
  <2>6. ASSUME NEW d \in Device, RevokeDevice(d) \/ RevokeStep(d) PROVE StoppedOK'
    BY <2>1, <2>6 DEF RevokeDevice, RevokeStep, RevokeCollect, RevokeDone
  <2>7. ASSUME NEW a \in DOMAIN toClose, CloseCollected(a) PROVE StoppedOK'
    BY <2>0, <2>1, <2>7 DEF CloseCollected, CloseIfOpen
  <2>8. CASE BeginShutdown \/ StopStep \/ Ended \/ UNCHANGED vars
    BY <1>1, <2>1, <2>8 DEF BeginShutdown, StopStep, CancelPeers, CleanupSealed, Stopped, Ended, vars
  <2> QED BY <2>2, <2>3, <2>4, <2>5, <2>6, <2>7, <2>8 DEF Next
<1>2. CASE stop # "stopped"
  <2>1. Stopped
    <3>1. ASSUME NEW o \in Offer, OfferStep(o) \/ \E d \in Device : CheckDevice(o, d)
          PROVE  stop' = stop
      BY <3>1 DEF OfferStep, Prepare, PrepareRefused, LeaseReady, SetPeer, Activate,
                  OfferFails, OfferCloses, CheckDevice
    <3>2. ASSUME NEW k \in Scope, LeaseStep(k) \/ LeaseLapses(k) \/ LeaseTimer(k)
          PROVE  stop' = stop
      BY <3>2 DEF LeaseStep, Answer, Denied, Undated, LeaseTimer, ExpireAndReturn, Granted,
                  Unreached, Sleep, RenewAgain, RenewReturns, LeaseLapses
    <3>3. ASSUME NEW s \in Session, PeerClosed(s) \/ TokenExpires(s) \/ SessionTimer(s) \/ PeerFails(s)
          PROVE  stop' = stop
      BY <3>3 DEF PeerClosed, TokenExpires, SessionTimer, PeerFails
    <3>4. ASSUME NEW d \in Device, RevokeDevice(d) \/ RevokeStep(d) PROVE stop' = stop
      BY <3>4 DEF RevokeDevice, RevokeStep, RevokeCollect, RevokeDone
    <3>5. ASSUME NEW a \in DOMAIN toClose, CloseCollected(a) PROVE stop' = stop
      BY <3>5 DEF CloseCollected
    <3>6. CASE BeginShutdown \/ CancelPeers \/ CleanupSealed \/ Ended \/ UNCHANGED vars
      BY <1>2, <3>6 DEF BeginShutdown, CancelPeers, CleanupSealed, Ended, vars
    <3> QED BY <1>2, <3>1, <3>2, <3>3, <3>4, <3>5, <3>6 DEF Next, StopStep
  <2>2. Open = {}
    BY <2>1 DEF Stopped, ClosedOK
  <2> QED BY <2>1, <2>2 DEF Stopped, Cleaning, StoppedOK
<1> QED BY <1>1, <1>2

-----------------------------------------------------------------------------
(* Theorems.                                                               *)

LEMMA InitInvariant == Init => SessionInvariant
<1> SUFFICES ASSUME Init PROVE SessionInvariant
  OBVIOUS
<1>1. NoSession \in SessionType /\ NoSession.st = "unborn" /\ NoSession.peer = "none"
  BY DEF NoSession, SessionType
<1>2. NoOffer \in OfferType /\ NoOffer.pc = "idle"
  BY DEF NoOffer, OfferType
<1>3. /\ NoScope \in ScopeType /\ NoScope.st = "unborn" /\ NoScope.lease = "none"
      /\ NoScope.refs = 0
  BY DEF NoScope, ScopeType
<1>4. TypeOK
  BY <1>1, <1>2, <1>3 DEF Init, TypeOK, OfferOK
<1>5. Open = {}
  BY <1>1 DEF Init, Open
<1>6. ASSUME NEW k \in Scope PROVE ScopeOK(k)
  <2>1. Users(k) = {}
    BY <1>5 DEF Users
  <2>2. \A d \in Device : leases[d] # k
    BY NoneAssumption DEF Init
  <2> QED BY <1>3, <2>1, <2>2, FS_EmptySet DEF Init, ScopeOK
<1>7. ASSUME NEW d \in Device PROVE RevokerOK(d)
  BY DEF Init, RevokerOK
<1>8. StopOK
  BY <1>1 DEF Init, StopOK
<1> QED BY <1>4, <1>6, <1>7, <1>8 DEF SessionInvariant

LEMMA InvariantStep == SessionInvariant /\ [Next]_vars => SessionInvariant'
<1> SUFFICES ASSUME SessionInvariant, [Next]_vars PROVE SessionInvariant'
  OBVIOUS
<1>1. PeerOK /\ ClosedOK /\ StoppedOK
  BY DEF SessionInvariant, StopOK, PeerOK, ClosedOK, StoppedOK
<1>2. PeerOK' /\ ClosedOK' /\ StoppedOK'
  BY <1>1, PeerStep, ClosedStep, StoppedStep DEF SessionInvariant
<1>3. StopOK'
  BY <1>2 DEF StopOK, PeerOK, ClosedOK, StoppedOK
<1>4. TypeOK' /\ (\A d \in Device : RevokerOK(d))' /\ (\A k \in Scope : ScopeOK(k))'
  BY TypeStep, RevokerStep, ScopeStep DEF SessionInvariant
<1> QED BY <1>3, <1>4 DEF SessionInvariant

\* The invariant that the properties of the media sessions rest on.
THEOREM SessionsSound == Spec => []SessionInvariant
BY InitInvariant, InvariantStep, PTL DEF Spec

\* When RevokeDevice is done with WebRTC, no session of the device is open, and
\* no offer that was on its way opens one: whoever looked the device up had
\* left the gate before the registry changed.
THEOREM RevocationSilences == Spec => []RevokedSilent
<1>1. SessionInvariant => RevokedSilent
  BY DEF SessionInvariant, RevokerOK, RevokedSilent
<1> QED BY <1>1, SessionsSound, PTL

\* Prepare, closeSession and expireLease keep the table of leases and the
\* sessions in step: a live lease counts its open sessions and is the listed one.
THEOREM LeasesTracked == Spec => []LeaseTracked
<1>1. SessionInvariant => LeaseTracked
  BY DEF SessionInvariant, ScopeOK, Users, LeaseTracked, Listed
<1> QED BY <1>1, SessionsSound, PTL

\* Shutdown of webrtcmedia leaves no session when cleanup is sealed, and no
\* peer, renewal goroutine or offer when Wait has returned.
THEOREM ShutdownQuiet == Spec => []StoppedQuiet
<1>1. SessionInvariant => StoppedQuiet
  <2> SUFFICES ASSUME SessionInvariant PROVE StoppedQuiet
    OBVIOUS
  <2>1. \A s \in Session : session[s].peer \in {"none", "open", "closing", "closed"}
    BY DEF SessionInvariant, TypeOK, SessionType
  <2> QED BY <2>1 DEF SessionInvariant, StopOK, StoppedQuiet
<1> QED BY <1>1, SessionsSound, PTL

\* A lease that passed its deadline or ended authorizes nothing in any later
\* state, whatever answer of the checker comes late (applyLease, expireLease).
THEOREM LapsedStaysOver == Spec => LapsedForGood
<1>1. SessionInvariant /\ [Next]_vars => [\A k \in Scope : Over(k) => ~Leased(k)']_vars
  <2> SUFFICES ASSUME SessionInvariant, [Next]_vars, NEW k \in Scope, Over(k)
               PROVE  ~Leased(k)'
    OBVIOUS
  <2>0. /\ scope \in [Scope -> ScopeType] /\ TypeOK /\ k # None
        /\ scope[k].st # "unborn"
    BY NoneAssumption DEF SessionInvariant, TypeOK, ScopeOK, Over
  <2>1. SUFFICES Over(k)'
    BY <2>0, <2>1 DEF Over, Leased
  <2>2. ASSUME scope' = scope PROVE Over(k)'
    BY <2>2 DEF Over
  <2>3. ASSUME NEW s \in Session, CloseIfOpen(s) PROVE Over(k)'
    <3>1. CASE s \in Open
      BY <2>0, <2>3, <3>1, CloseEffect DEF CloseIfOpen, Over
    <3>2. CASE s \notin Open
      BY <2>2, <2>3, <3>2 DEF CloseIfOpen
    <3> QED BY <3>1, <3>2
  <2>4. ASSUME NEW o \in Offer, Prepare(o) PROVE Over(k)'
    <3>1. PICK s \in Session, j \in Scope \cup {None} : Prepares(o, s, j)
      BY <2>0, <2>4, PrepareCases
    <3>2. scope'[k].st = scope[k].st /\ scope'[k].lease = scope[k].lease
      BY <2>0, <3>1 DEF Prepares, ScopeType
    <3> QED BY <3>2 DEF Over
  <2>5. ASSUME NEW o \in Offer, OfferCloses(o) PROVE Over(k)'
    <3>1. offer[o].sid \in Session
      BY <2>0, <2>5 DEF OfferCloses, TypeOK, OfferOK
    <3> QED BY <2>3, <2>5, <3>1 DEF OfferCloses
  <2>6. ASSUME NEW o \in Offer, \/ PrepareRefused(o) \/ LeaseReady(o) \/ SetPeer(o) \/ Activate(o)
                               \/ OfferFails(o) \/ \E d \in Device : CheckDevice(o, d)
        PROVE  Over(k)'
    BY <2>2, <2>6 DEF PrepareRefused, LeaseReady, SetPeer, Activate, OfferFails, CheckDevice
  <2>7. ASSUME NEW j \in Scope, LeaseStep(j) \/ LeaseLapses(j) \/ LeaseTimer(j) PROVE Over(k)'
    <3> DEFINE st == IF Listed(j) THEN "ended" ELSE scope[j].st
               lease == IF MayApply(j) THEN "valid" ELSE scope[j].lease
    <3>1. \/ scope' = [scope EXCEPT ![j].st = st, ![j].pc = "expire"]
          \/ scope' = [scope EXCEPT ![j].st = st]
          \/ scope' = [scope EXCEPT ![j].lease = lease, ![j].pc = "checked", ![j].ready = TRUE]
          \/ scope' = [scope EXCEPT ![j].pc = "checked", ![j].ready = TRUE]
          \/ scope' = [scope EXCEPT ![j].pc = "none", ![j].ready = TRUE]
          \/ scope' = [scope EXCEPT ![j].pc = "sleep"] \/ scope' = [scope EXCEPT ![j].pc = "check"]
          \/ scope' = [scope EXCEPT ![j].lease = "lapsed"]
      BY <2>7 DEF LeaseStep, Answer, Denied, Undated, LeaseTimer, ExpireAndReturn, Granted,
                  Unreached, Sleep, RenewAgain, RenewReturns, LeaseLapses
    <3>2. /\ scope[j].st = "ended" => st = "ended" /\ lease = scope[j].lease
          /\ scope[j].lease = "lapsed" => lease = "lapsed"
      BY DEF MayApply
    <3>3. /\ scope[k].st = "ended" => scope'[k].st = "ended"
          /\ scope[k].lease = "lapsed" => scope'[k].lease = "lapsed"
      <4> HIDE DEF st, lease
      <4> QED BY <2>0, <3>1, <3>2 DEF ScopeType
    <3> QED BY <3>3 DEF Over
  <2>8. ASSUME NEW s \in Session, PeerClosed(s) \/ TokenExpires(s) PROVE Over(k)'
    BY <2>2, <2>8 DEF PeerClosed, TokenExpires
  <2>9. ASSUME NEW s \in Session, SessionTimer(s) \/ PeerFails(s) PROVE Over(k)'
    BY <2>3, <2>9 DEF SessionTimer, PeerFails, CloseIfOpen
  <2>10. ASSUME NEW a \in DOMAIN toClose, CloseCollected(a) PROVE Over(k)'
    <3>1. PICK s \in toClose[a] : CloseIfOpen(s)
      BY <2>10 DEF CloseCollected
    <3>2. s \in Session
      BY <2>0, <3>1 DEF TypeOK
    <3> QED BY <2>3, <3>1, <3>2
  <2>11. ASSUME NEW d \in Device, RevokeDevice(d) \/ RevokeStep(d) PROVE Over(k)'
    BY <2>2, <2>11 DEF RevokeDevice, RevokeStep, RevokeCollect, RevokeDone
  <2>12. CASE BeginShutdown \/ StopStep \/ Ended \/ UNCHANGED vars
    BY <2>2, <2>12 DEF BeginShutdown, StopStep, CancelPeers, CleanupSealed, Stopped, Ended, vars
  <2> QED BY <2>4, <2>5, <2>6, <2>7, <2>8, <2>9, <2>10, <2>11, <2>12 DEF Next, OfferStep
<1> QED BY <1>1, SessionsSound, PTL DEF Spec, LapsedForGood
=============================================================================
