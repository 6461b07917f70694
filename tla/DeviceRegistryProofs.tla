------------------------ MODULE DeviceRegistryProofs ------------------------
(***************************************************************************)
(* Proofs about DeviceRegistry: its invariant is inductive, and with it    *)
(* hold the limit of devices, one session per approval, the bound on wrong *)
(* guesses, the agreement of tokens, and that revoked devices are gone and *)
(* ordinary ones stay, for any number of devices, codes, links and         *)
(* requests, and whatever writes of the file fail.                         *)
(***************************************************************************)
EXTENDS DeviceRegistry, FiniteSetTheorems, TLAPS

-----------------------------------------------------------------------------
(* What the operators on a registry do to its parts.                       *)

SamePairing(n, r) ==
    n.code = r.code /\ n.misses = r.misses /\ n.link = r.link /\ n.linkMisses = r.linkMisses
SameDevices(n, r) ==
    n.devices = r.devices /\ n.review = r.review /\ n.token = r.token /\ n.prev \subseteq r.prev

\* A new device.
LEMMA WithIs ==
    ASSUME NEW r \in Registry, NEW d \in Device
    PROVE  LET n == With(r, d) IN
           /\ n \in Registry /\ SamePairing(n, r)
           /\ n.devices = r.devices \cup {d} /\ n.review = r.review /\ n.prev = r.prev
           /\ n.token = [r.token EXCEPT ![d] = 1]
BY DEF With, Registry, SamePairing

\* One device less.
LEMMA WithoutIs ==
    ASSUME NEW r \in Registry, NEW d \in Device
    PROVE  LET n == Without(r, d) IN
           /\ n \in Registry /\ SamePairing(n, r) /\ n.token = r.token
           /\ n.devices = r.devices \ {d} /\ n.review = r.review \ {d} /\ n.prev = r.prev \ {d}
BY DEF Without, Registry, SamePairing

\* A code that is over, replaced or guessed at.
LEMMA CodeIs ==
    ASSUME NEW r \in Registry, NEW c \in Code \cup {NoCode}
    PROVE  LET n == [r EXCEPT !.code = c, !.misses = 0] IN
           /\ n \in Registry /\ SameDevices(n, r)
           /\ n.code = c /\ n.misses = 0 /\ n.link = r.link /\ n.linkMisses = r.linkMisses
BY DEF Registry, SameDevices

LEMMA MissesIs ==
    ASSUME NEW r \in Registry
    PROVE  LET n == [r EXCEPT !.misses = @ + 1] IN
           /\ n \in Registry /\ SameDevices(n, r) /\ n.code = r.code
           /\ n.misses = r.misses + 1 /\ n.link = r.link /\ n.linkMisses = r.linkMisses
BY DEF Registry, SameDevices

\* A link that moves on, is guessed at, and is over.
LEMMA LinkIs ==
    ASSUME NEW r \in Registry, NEW l \in Link, NEW s \in LinkStatus
    PROVE  LET n == [r EXCEPT !.link[l] = s] IN
           /\ n \in Registry /\ SameDevices(n, r) /\ n.code = r.code /\ n.misses = r.misses
           /\ n.link = [r.link EXCEPT ![l] = s] /\ n.linkMisses = r.linkMisses
BY DEF Registry, SameDevices

LEMMA LinkMissedIs ==
    ASSUME NEW r \in Registry, NEW l \in Link
    PROVE  LET n == LinkMissed(r, l) IN
           /\ n \in Registry /\ SameDevices(n, r) /\ n.code = r.code /\ n.misses = r.misses
           /\ n.link = [r.link EXCEPT ![l] =
                           IF r.linkMisses[l] + 1 >= MaxMisses THEN "denied" ELSE @]
           /\ n.linkMisses = [r.linkMisses EXCEPT ![l] = @ + 1]
<1>1. [r.linkMisses EXCEPT ![l] = @ + 1] \in [Link -> Nat]  BY DEF Registry
<1>2. [r.link EXCEPT ![l] = IF r.linkMisses[l] + 1 >= MaxMisses THEN "denied" ELSE @]
          \in [Link -> LinkStatus]
  BY DEF Registry, LinkStatus
<1>3. LinkMissed(r, l) =
          [r EXCEPT !.linkMisses = [r.linkMisses EXCEPT ![l] = @ + 1],
                    !.link = [r.link EXCEPT ![l] =
                        IF r.linkMisses[l] + 1 >= MaxMisses THEN "denied" ELSE @]]
  BY DEF LinkMissed, Registry
<1> QED  BY <1>1, <1>2, <1>3 DEF Registry, SameDevices

LEMMA LinkOverIs ==
    ASSUME NEW r \in Registry, NEW l \in Link
    PROVE  LET n == [r EXCEPT !.link[l] = "absent", !.linkMisses[l] = 0] IN
           /\ n \in Registry /\ n.code = r.code /\ n.misses = r.misses
           /\ n.link = [r.link EXCEPT ![l] = "absent"]
           /\ n.linkMisses = [r.linkMisses EXCEPT ![l] = 0]
           /\ n.devices = r.devices /\ n.review = r.review /\ n.token = r.token
           /\ n.prev = r.prev
BY DEF Registry, LinkStatus

\* A family that rotates.
LEMMA RotatedIs ==
    ASSUME NEW r \in Registry, NEW d \in Device
    PROVE  LET n == Rotated(r, d) IN
           /\ n \in Registry /\ SamePairing(n, r)
           /\ n.devices = r.devices /\ n.review = r.review /\ n.prev = r.prev \cup {d}
           /\ n.token = [r.token EXCEPT ![d] = @ + 1]
<1>1. [r.token EXCEPT ![d] = @ + 1] \in [Device -> Nat]  BY DEF Registry
<1>2. Rotated(r, d) = [r EXCEPT !.token = [r.token EXCEPT ![d] = @ + 1], !.prev = r.prev \cup {d}]
  BY DEF Rotated, Registry
<1>3. r.prev \cup {d} \in SUBSET Device  BY DEF Registry
<1>4. Rotated(r, d) \in Registry  BY <1>1, <1>2, <1>3 DEF Registry
<1> QED  BY <1>2, <1>4 DEF Registry, SamePairing

\* A grace that ends.
LEMMA GraceIs ==
    ASSUME NEW r \in Registry, NEW d \in Device
    PROVE  LET n == [r EXCEPT !.prev = @ \ {d}] IN
           n \in Registry /\ SamePairing(n, r) /\ SameDevices(n, r)
BY DEF Registry, SamePairing, SameDevices

\* A device that becomes a review device.
LEMMA ReviewIs ==
    ASSUME NEW r \in Registry, NEW d \in Device
    PROVE  LET n == [r EXCEPT !.review = @ \cup {d}] IN
           /\ n \in Registry /\ SamePairing(n, r)
           /\ n.devices = r.devices /\ n.review = r.review \cup {d} /\ n.prev = r.prev
           /\ n.token = r.token
BY DEF Registry, SamePairing

-----------------------------------------------------------------------------
(* The invariant, taken apart: what it says of one copy of the registry, of    *)
(* the two copies together, and of what the outside has seen.                  *)

\* Devices that must stay, and approvals that are spent.
Must == {d \in Device \ asked : Live(d) /\ grant[d] # "review"}
SpentOn == {d \in Device : Live(d) /\ grant[d] \in Code \cup Link}
SpentNow == {grant[d] : d \in SpentOn}

DevOK(r, dr, gr, he, go, mu) ==
    /\ r.devices \subseteq dr
    /\ r.review \subseteq r.devices /\ r.prev \subseteq r.devices
    /\ \A d \in r.review : gr[d] = "review"
    /\ \A d \in r.devices : r.token[d] \in {he[d], he[d] + 1} \ {0}
    /\ r.devices \cap go = {} /\ mu \subseteq r.devices
    /\ Bounded(r)
PairOK(r, dr, gu, sp) ==
    /\ r.code \in dr \cup {NoCode}
    /\ r.code # NoCode => gu[r.code] <= r.misses /\ r.misses < MaxMisses
    /\ \A l \in Link :
          IF r.link[l] = "absent" THEN r.linkMisses[l] = 0
          ELSE /\ l \in dr
               /\ gu[l] <= r.linkMisses[l] /\ r.linkMisses[l] <= MaxMisses
               /\ r.link[l] # "denied" => r.linkMisses[l] < MaxMisses
    /\ \A x \in sp : r.code # x /\ (x \in Link => r.link[x] = "absent")
Agree(m, k, se) ==
    /\ m.devices \subseteq se /\ k.devices \cap se \subseteq m.devices
    /\ \A d \in m.devices \cap k.devices : m.token[d] <= k.token[d]
Outside ==
    /\ seen \cup answered \cup gone \subseteq drawn
    /\ \A x \in Code \cup Link : x \notin drawn => guesses[x] = 0
    /\ GuessesBounded
    /\ \A d \in Device : held[d] > 0 => d \in answered
    /\ gone \cap profile = {}
    /\ \A d \in SpentOn : grant[d] \in drawn /\ \A e \in SpentOn : grant[e] = grant[d] => e = d

DevNow(r) == DevOK(r, drawn, grant, held, gone, Must)
PairNow(r) == PairOK(r, drawn, guesses, SpentNow)
\* The same of the next state, whatever r is.
DevNext(r) == DevOK(r, drawn', grant', held', gone', Must')
PairNext(r) == PairOK(r, drawn', guesses', SpentNow')

LEMMA Parts ==
    ASSUME RegistryInvariant
    PROVE  /\ TypeOK /\ DevNow(mem) /\ DevNow(disk) /\ PairNow(mem) /\ PairNow(disk)
           /\ Agree(mem, disk, seen) /\ Outside /\ \A r \in Request : HandOK(r)
<1>1. DevNow(mem) /\ DevNow(disk)
  BY DEF RegistryInvariant, TypeOK, Registry, Known, TokensOK, OrdinaryOK, WithinLimit, RevokedForGood,
         DevNow, DevOK, Must
<1>2. PairNow(mem) /\ PairNow(disk)
  BY DEF RegistryInvariant, TypeOK, Registry, Known, GuessesOK, ApprovalsOK, Spent, PairNow, PairOK,
         SpentNow, SpentOn
<1>3. Agree(mem, disk, seen)
  BY DEF RegistryInvariant, Known, TokensOK, Agree
<1>4. Outside
  BY DEF RegistryInvariant, Known, TokensOK, GuessesOK, RevokedForGood, ApprovalsOK, Outside, SpentOn
<1> QED  BY <1>1, <1>2, <1>3, <1>4 DEF RegistryInvariant

LEMMA Assembled ==
    ASSUME TypeOK', DevNext(mem'), DevNext(disk'), PairNext(mem'), PairNext(disk'),
           Agree(mem', disk', seen'), Outside', \A r \in Request : HandOK(r)'
    PROVE  RegistryInvariant'
<1>1. Known'
  BY DEF DevNext, DevOK, PairNext, PairOK, Agree, Outside, Known
<1>2. ApprovalsOK'
  BY DEF PairNext, PairOK, Outside, ApprovalsOK, Spent, SpentNow, SpentOn
<1>3. GuessesOK' /\ GuessesBounded'
  BY DEF PairNext, PairOK, Outside, GuessesOK
<1>4. TokensOK'
  BY DEF DevNext, DevOK, Agree, Outside, TokensOK
<1>5. OrdinaryOK' /\ WithinLimit' /\ RevokedForGood'
  BY DEF DevNext, DevOK, Outside, OrdinaryOK, Must, WithinLimit, RevokedForGood
<1> QED  BY <1>1, <1>2, <1>3, <1>4, <1>5 DEF RegistryInvariant

-----------------------------------------------------------------------------
(* One copy of the registry.                                               *)

LEMMA Subsets ==
    ASSUME NEW S \in SUBSET Device, NEW T \in SUBSET S
    PROVE  IsFiniteSet(S) /\ Cardinality(S) \in Nat /\ IsFiniteSet(T)
               /\ Cardinality(T) \in Nat /\ Cardinality(T) <= Cardinality(S)
BY FiniteAssumption, FS_Subset, FS_CardinalityType

LEMMA OneMore ==
    ASSUME NEW S \in SUBSET Device, NEW x, x \notin S
    PROVE  Cardinality(S \cup {x}) = Cardinality(S) + 1
<1>1. IsFiniteSet(S)  BY FiniteAssumption, FS_Subset
<1> QED  BY <1>1, FS_AddElement

LEMMA OneLess ==
    ASSUME NEW S \in SUBSET Device, NEW x \in S
    PROVE  Cardinality(S \ {x}) = Cardinality(S) - 1
<1>1. IsFiniteSet(S)  BY FiniteAssumption, FS_Subset
<1> QED  BY <1>1, FS_RemoveElement

LEMMA Fewer ==
    ASSUME NEW r \in Registry, NEW n \in Registry, Bounded(r),
           n.devices \subseteq r.devices, n.review \subseteq r.review
    PROVE  Bounded(n)
<1>1. /\ Cardinality(n.devices) <= Cardinality(r.devices)
      /\ Cardinality(n.review) <= Cardinality(r.review)
      /\ Cardinality(n.devices) \in Nat /\ Cardinality(r.devices) \in Nat
      /\ Cardinality(n.review) \in Nat /\ Cardinality(r.review) \in Nat
  BY Subsets DEF Registry
<1> QED  BY <1>1, LimitAssumption DEF Bounded

\* The devices of a copy that is kept, or loses predecessors only, while the
\* outside learns nothing that concerns them.
LEMMA DevKept ==
    ASSUME NEW r \in Registry, NEW n \in Registry, SameDevices(n, r),
           NEW dr, NEW drp, NEW gr, NEW grp, NEW he, NEW go, NEW gop, NEW mu, NEW mup,
           DevOK(r, dr, gr, he, go, mu), dr \subseteq drp, mup \subseteq mu,
           \A d \in r.devices : grp[d] = gr[d], gop \cap r.devices = {}
    PROVE  DevOK(n, drp, grp, he, gop, mup)
<1>1. Bounded(n)  BY Fewer DEF SameDevices, DevOK
<1> QED  BY <1>1 DEF SameDevices, DevOK

\* A device is removed.
LEMMA DevRemoved ==
    ASSUME NEW r \in Registry, NEW n \in Registry, NEW d \in Device,
           n.token = r.token, n.devices = r.devices \ {d},
           n.review = r.review \ {d}, n.prev = r.prev \ {d},
           NEW dr, NEW gr, NEW he, NEW go, NEW mu, NEW mup,
           DevOK(r, dr, gr, he, go, mu), mup \subseteq mu \ {d}
    PROVE  DevOK(n, dr, gr, he, go, mup)
<1>1. Bounded(n)  BY Fewer DEF DevOK
<1> QED  BY <1>1 DEF DevOK

\* Code and links of a copy that keeps them, while fewer guesses are known or
\* fewer approvals spent.
LEMMA PairKept ==
    ASSUME NEW r \in Registry, NEW n, SamePairing(n, r), NEW dr, NEW drp,
           NEW gu \in [Code \cup Link -> Nat], NEW gup \in [Code \cup Link -> Nat],
           NEW sp, NEW spp,
           PairOK(r, dr, gu, sp), dr \subseteq drp, spp \subseteq sp,
           \A x \in Code \cup Link : gup[x] <= gu[x]
    PROVE  PairOK(n, drp, gup, spp)
<1>1. r.code # NoCode => gup[r.code] <= r.misses /\ r.misses < MaxMisses
  <2> SUFFICES ASSUME r.code # NoCode PROVE gup[r.code] <= r.misses
    BY DEF PairOK
  <2>1. r.code \in Code \cup Link /\ gup[r.code] \in Nat /\ gu[r.code] \in Nat /\ r.misses \in Nat
    BY DEF Registry
  <2> QED  BY <2>1 DEF PairOK
<1>2. ASSUME NEW l \in Link, r.link[l] # "absent"
      PROVE  /\ l \in drp
             /\ gup[l] <= r.linkMisses[l] /\ r.linkMisses[l] <= MaxMisses
             /\ r.link[l] # "denied" => r.linkMisses[l] < MaxMisses
  <2>1. gup[l] \in Nat /\ gu[l] \in Nat /\ r.linkMisses[l] \in Nat
    BY DEF Registry
  <2> QED  BY <2>1, <1>2 DEF PairOK
<1> QED  BY <1>1, <1>2 DEF PairOK, SamePairing

-----------------------------------------------------------------------------
(* The requests.                                                           *)

\* r may stand at v in the next state.
MoveOK(r, v) ==
    /\ v.pc \notin {"idle", "approved", "revoked"} => v.dev \in Device \cap drawn'
    /\ v.pc \in {"evict", "ensure", "profile", "undo", "unprofile"} => v.dev \notin answered'
    /\ v.pc = "approved" => v.link \in Link
    /\ v.pc \in {"idle", "approved"} => v.dev = NoDevice
    /\ v.pc = "evict" =>
           v.old \in seen' /\ grant'[v.old] = "review" /\ grant'[v.dev] = "review"
    /\ v.pc \in {"profile", "renamed"} => v.dev \notin gone' /\ GateOpen(v.dev)
    /\ v.pc = "revoked" =>
           /\ v.old \in seen' \ mem'.devices
           /\ \A q \in Request \ {r} :
                 ~(hand[q].pc \in {"profile", "renamed"} /\ hand[q].dev = v.old)
           /\ v.dev # NoDevice => v.dev \in drawn' \ answered' /\ grant'[v.dev] = "review"
    /\ \/ v.dev = NoDevice \/ v.pc = "renamed" \/ v.dev \notin drawn
       \/ v.dev = hand[r].dev /\ hand[r].pc # "renamed"

\* What the others rely on: identities stay drawn and known, a known device
\* that is gone does not come back, and only r's own devices are answered or
\* gone.
OthersMayRely(r) ==
    /\ drawn \subseteq drawn' /\ seen \subseteq seen'
    /\ mem'.devices \cap seen \subseteq mem.devices
    /\ \A d \in Device \cap drawn : grant'[d] = grant[d]
    /\ \/ answered' = answered
       \/ hand[r].pc = "profile" /\ answered' = answered \cup {hand[r].dev}
    /\ \/ gone' = gone
       \/ hand[r].pc = "revoked" /\ gone' = gone \cup {hand[r].old}

\* The request of an app or an administrator that moves disturbs no other.
LEMMA HandMoved ==
    ASSUME RegistryInvariant, NEW r \in Request, NEW v \in Local,
           hand' = [hand EXCEPT ![r] = v], MoveOK(r, v), OthersMayRely(r)
    PROVE  \A q \in Request : HandOK(q)'
<1>1. /\ hand \in [Request -> Local] /\ \A q \in Request : HandOK(q)
      /\ seen \subseteq Device /\ seen \subseteq drawn
  BY DEF RegistryInvariant, TypeOK, Known
<1>2. hand'[r] = v /\ \A q \in Request \ {r} : hand'[q] = hand[q]
  BY <1>1
<1>3. ASSUME NEW q \in Request \ {r}, hand[q].dev # NoDevice
      PROVE  v.dev = hand[q].dev => v.pc = "renamed" \/ hand[q].pc = "renamed"
  <2>1. hand[q].dev \in drawn
    BY <1>1, <1>3 DEF HandOK, Local, Pc
  <2>2. hand[r].dev = hand[q].dev => hand[r].pc = "renamed" \/ hand[q].pc = "renamed"
    BY <1>1, <1>3 DEF HandOK
  <2>3. \/ v.dev = NoDevice \/ v.pc = "renamed" \/ v.dev \notin drawn
        \/ v.dev = hand[r].dev /\ hand[r].pc # "renamed"
    BY DEF MoveOK
  <2> QED  BY <1>3, <2>1, <2>2, <2>3
<1>4. HandOK(r)'
  <2>1. v.pc \notin {"idle", "approved", "revoked"} => v.dev \in Device \cap drawn'
    BY DEF MoveOK
  <2>2. v.pc = "revoked" =>
          \A q \in Request : ~(hand'[q].pc \in {"profile", "renamed"} /\ hand'[q].dev = v.old)
    BY <1>2 DEF MoveOK
  <2>3. \A q \in Request :
          q # r /\ v.dev = hand'[q].dev /\ v.dev # NoDevice =>
              v.pc = "renamed" \/ hand'[q].pc = "renamed"
    BY <1>2, <1>3
  <2> QED  BY <1>2, <2>1, <2>2, <2>3 DEF MoveOK, HandOK
<1>5. ASSUME NEW q \in Request \ {r} PROVE HandOK(q)'
  <2> DEFINE w == hand[q]
  <2>1. HandOK(q) /\ w \in Local /\ hand'[q] = w  BY <1>1, <1>2
  <2>2. w.pc \notin {"idle", "approved", "revoked"} => w.dev \in Device \cap drawn'
    BY <2>1 DEF HandOK, OthersMayRely
  <2>3. /\ w.pc \in {"evict", "ensure", "profile", "undo", "unprofile"} => w.dev \notin answered'
        /\ w.pc = "revoked" /\ w.dev # NoDevice => w.dev \notin answered'
    <3>1. CASE answered' = answered  BY <2>1, <3>1 DEF HandOK
    <3>2. CASE hand[r].pc = "profile" /\ answered' = answered \cup {hand[r].dev}
      <4>1. hand[r].dev = w.dev /\ w.dev # NoDevice => w.pc = "renamed"
        BY <1>1, <3>2 DEF HandOK
      <4>2. w.pc \in {"evict", "ensure", "profile", "undo", "unprofile"} => w.dev # NoDevice
        BY <2>1, NoneAssumption DEF HandOK
      <4> QED  BY <2>1, <3>2, <4>1, <4>2 DEF HandOK
    <3> QED  BY <3>1, <3>2 DEF OthersMayRely
  <2>4. w.pc = "approved" => w.link \in Link  BY <2>1 DEF HandOK
  <2>5. w.pc \in {"idle", "approved"} => w.dev = NoDevice  BY <2>1 DEF HandOK
  <2>6. w.pc = "evict" =>
          w.old \in seen' /\ grant'[w.old] = "review" /\ grant'[w.dev] = "review"
    BY <1>1, <2>1 DEF HandOK, OthersMayRely
  <2>7. w.pc \in {"profile", "renamed"} => w.dev \notin gone'
    <3> SUFFICES ASSUME w.pc \in {"profile", "renamed"} PROVE w.dev \notin gone'
      OBVIOUS
    <3>1. w.dev \notin gone  BY <2>1 DEF HandOK
    <3>2. hand[r].pc = "revoked" => w.dev # hand[r].old  BY <1>1 DEF HandOK
    <3> QED  BY <3>1, <3>2 DEF OthersMayRely
  <2>8. w.pc = "revoked" =>
          /\ w.old \in seen' \ mem'.devices
          /\ \A p \in Request : ~(hand'[p].pc \in {"profile", "renamed"} /\ hand'[p].dev = w.old)
          /\ w.dev # NoDevice => w.dev \in drawn' \ answered' /\ grant'[w.dev] = "review"
    <3> SUFFICES ASSUME w.pc = "revoked"
                 PROVE  /\ w.old \in seen' \ mem'.devices
                        /\ \A p \in Request :
                              ~(hand'[p].pc \in {"profile", "renamed"} /\ hand'[p].dev = w.old)
                        /\ w.dev # NoDevice => w.dev \in drawn' \ answered' /\ grant'[w.dev] = "review"
      OBVIOUS
    <3>1. w.old \in seen' \ mem'.devices  BY <2>1 DEF HandOK, OthersMayRely
    <3>2. \A p \in Request \ {r} : ~(hand'[p].pc \in {"profile", "renamed"} /\ hand'[p].dev = w.old)
      BY <1>2, <2>1 DEF HandOK
    <3>3. ~(v.pc \in {"profile", "renamed"} /\ v.dev = w.old)  BY DEF MoveOK, GateOpen
    <3>4. w.dev # NoDevice => w.dev \in drawn /\ w.dev \in Device /\ grant[w.dev] = "review"
      BY <2>1 DEF HandOK, Local
    <3> QED  BY <1>2, <2>3, <3>1, <3>2, <3>3, <3>4 DEF OthersMayRely
  <2>9. \A p \in Request :
          p # q /\ w.dev = hand'[p].dev /\ w.dev # NoDevice =>
              w.pc = "renamed" \/ hand'[p].pc = "renamed"
    <3>1. \A p \in Request \ {r} :
            p # q /\ w.dev = hand'[p].dev /\ w.dev # NoDevice =>
                w.pc = "renamed" \/ hand'[p].pc = "renamed"
      BY <1>2, <2>1 DEF HandOK
    <3> QED  BY <1>2, <1>3, <3>1
  <2> HIDE DEF w
  <2> QED  BY <2>1, <2>2, <2>3, <2>4, <2>5, <2>6, <2>7, <2>8, <2>9 DEF HandOK
<1> QED  BY <1>4, <1>5

\* Nor does a step of the store or of time, which moves no request.
LEMMA HandStill ==
    ASSUME RegistryInvariant, UNCHANGED <<hand, answered, gone>>,
           drawn \subseteq drawn', seen \subseteq seen',
           mem'.devices \cap seen \subseteq mem.devices,
           \A d \in Device \cap drawn : grant'[d] = grant[d]
    PROVE  \A q \in Request : HandOK(q)'
<1> SUFFICES ASSUME NEW q \in Request PROVE HandOK(q)'
  OBVIOUS
<1>1. /\ hand \in [Request -> Local] /\ HandOK(q) /\ hand[q] \in Local
      /\ seen \subseteq Device /\ seen \subseteq drawn
  BY DEF RegistryInvariant, TypeOK, Known
<1>2. /\ hand[q].pc = "evict" => grant'[hand[q].old] = "review" /\ grant'[hand[q].dev] = "review"
      /\ hand[q].pc = "revoked" /\ hand[q].dev # NoDevice => grant'[hand[q].dev] = "review"
  BY <1>1 DEF HandOK, Local
<1>3. hand[q].pc = "revoked" => hand[q].old \in seen' \ mem'.devices
  BY <1>1 DEF HandOK
<1> QED  BY <1>1, <1>2, <1>3 DEF HandOK

-----------------------------------------------------------------------------
(* What was approved.                                                      *)

LEMMA LiveDrawn ==
    ASSUME RegistryInvariant, NEW d \in Device, Live(d)
    PROVE  d \in drawn
BY DEF RegistryInvariant, Known, Live, Creating, HandOK

\* A step that brings no device closer to an answer, but for review devices,
\* spends nothing and owes nothing new.
LEMMA ApprovalsKept ==
    ASSUME RegistryInvariant, asked \subseteq asked', drawn \subseteq drawn',
           \A d \in Device \cap drawn : grant'[d] = grant[d],
           \A d \in Device : Live(d)' => Live(d) \/ (d \in drawn /\ grant[d] = "review")
    PROVE  /\ Must' \subseteq Must /\ SpentOn' \subseteq SpentOn /\ SpentNow' \subseteq SpentNow
           /\ \A d \in SpentOn' :
                 grant'[d] \in drawn' /\ \A e \in SpentOn' : grant'[e] = grant'[d] => e = d
<1>1. ASSUME NEW d \in Device, Live(d)'
      PROVE  grant'[d] = grant[d] /\ (Live(d) \/ grant[d] = "review")
  BY <1>1, LiveDrawn
<1>2. Must' \subseteq Must  BY <1>1 DEF Must
<1>3. \A d \in SpentOn' : d \in SpentOn /\ grant'[d] = grant[d]
  BY <1>1, ApprovalAssumption DEF SpentOn
<1>4. SpentNow' \subseteq SpentNow  BY <1>3 DEF SpentNow
<1>5. \A d \in SpentOn : grant[d] \in drawn /\ \A e \in SpentOn : grant[e] = grant[d] => e = d
  BY Parts DEF Outside
<1> QED  BY <1>2, <1>3, <1>4, <1>5

LEMMA LiveStill ==
    ASSUME UNCHANGED <<hand, answered>>
    PROVE  \A d \in Device : Live(d)' => Live(d)
BY DEF Live, Creating

LEMMA LiveMoved ==
    ASSUME RegistryInvariant, NEW r \in Request, NEW v \in Local,
           hand' = [hand EXCEPT ![r] = v],
           \/ answered' = answered
           \/ hand[r].pc = "profile" /\ answered' = answered \cup {hand[r].dev},
           v.pc \in {"evict", "ensure", "profile"} =>
               Creating(r, v.dev) \/ (v.dev \in drawn /\ grant[v.dev] = "review")
    PROVE  \A d \in Device : Live(d)' => Live(d) \/ (d \in drawn /\ grant[d] = "review")
<1>1. hand'[r] = v /\ \A q \in Request \ {r} : hand'[q] = hand[q]
  BY DEF RegistryInvariant, TypeOK
<1>2. ASSUME NEW d \in Device, d \in answered' PROVE Live(d)
  BY <1>2 DEF Live, Creating
<1>3. ASSUME NEW d \in Device, NEW q \in Request, Creating(q, d)'
      PROVE  Live(d) \/ (d \in drawn /\ grant[d] = "review")
  <2>1. CASE q = r
    <3>1. v.pc \in {"evict", "ensure", "profile"} /\ v.dev = d
      BY <1>1, <1>3, <2>1 DEF Creating
    <3> QED  BY <3>1 DEF Live
  <2>2. CASE q # r
    <3>1. Creating(q, d)  BY <1>1, <1>3, <2>2 DEF Creating
    <3> QED  BY <3>1 DEF Live
  <2> QED  BY <2>1, <2>2
<1>4. ASSUME NEW d \in Device, Live(d)'
      PROVE  d \in answered' \/ \E q \in Request : Creating(q, d)'
  BY <1>4 DEF Live
<1> QED  BY <1>2, <1>3, <1>4

-----------------------------------------------------------------------------
(* Steps that neither add nor remove a device.                             *)

\* The devices of both copies, when each keeps its own, or the file is written
\* with those of memory.
LEMMA DevicesKept ==
    ASSUME RegistryInvariant, mem' \in Registry, disk' \in Registry,
           SameDevices(mem', mem), SameDevices(disk', disk) \/ SameDevices(disk', mem),
           drawn \subseteq drawn', UNCHANGED <<seen, grant, held, gone>>, Must' \subseteq Must
    PROVE  DevNext(mem') /\ DevNext(disk') /\ Agree(mem', disk', seen')
<1>1. DevNow(mem) /\ DevNow(disk) /\ Agree(mem, disk, seen) /\ mem \in Registry /\ disk \in Registry
  BY Parts DEF TypeOK
<1>2. ASSUME NEW r \in Registry, NEW n \in Registry, DevNow(r), SameDevices(n, r)
      PROVE  DevOK(n, drawn', grant, held, gone, Must')
  <2>1. gone \cap r.devices = {}  BY <1>2 DEF DevNow, DevOK
  <2> QED  BY <1>2, <2>1, DevKept DEF DevNow
<1>3. DevNext(mem') /\ DevNext(disk')  BY <1>1, <1>2 DEF DevNext
<1>4. \A d \in mem.devices : mem.token[d] <= mem.token[d]  BY <1>1 DEF Registry
<1>5. Agree(mem', disk', seen')
  <2>1. CASE SameDevices(disk', disk)  BY <1>1, <2>1 DEF SameDevices, Agree
  <2>2. CASE SameDevices(disk', mem)  BY <1>1, <1>4, <2>2 DEF SameDevices, Agree
  <2> QED  BY <2>1, <2>2
<1> QED  BY <1>3, <1>5

\* A step of the store or of time: codes, links and predecessors.
LEMMA StoreKeeps ==
    ASSUME RegistryInvariant, UNCHANGED <<profile, hand, seen, grant, answered, held, asked, gone>>,
           mem' \in Registry, disk' \in Registry,
           SameDevices(mem', mem), SameDevices(disk', disk) \/ SameDevices(disk', mem),
           drawn \subseteq drawn', drawn' \subseteq Device \cup Code \cup Link,
           guesses' \in [Code \cup Link -> Nat], GuessesBounded',
           \A x \in Code \cup Link : x \notin drawn' => guesses'[x] = 0,
           SpentNow' \subseteq SpentNow => PairNext(mem') /\ PairNext(disk')
    PROVE  RegistryInvariant'
<1>1. TypeOK /\ Outside  BY Parts
<1>2. \A q \in Request : HandOK(q)'
  BY HandStill DEF SameDevices
<1>3. /\ Must' \subseteq Must /\ SpentNow' \subseteq SpentNow
      /\ \A d \in SpentOn' :
            grant'[d] \in drawn' /\ \A e \in SpentOn' : grant'[e] = grant'[d] => e = d
  <2>1. \A d \in Device : Live(d)' => Live(d)  BY LiveStill
  <2>2. \A d \in Device : Live(d)' => Live(d) \/ (d \in drawn /\ grant[d] = "review")
    BY <2>1
  <2>3. asked \subseteq asked' /\ \A d \in Device \cap drawn : grant'[d] = grant[d]
    OBVIOUS
  <2> QED  BY <2>2, <2>3, ApprovalsKept
<1>4. DevNext(mem') /\ DevNext(disk') /\ Agree(mem', disk', seen')
  BY <1>3, DevicesKept
<1>5. TypeOK'
  BY <1>1 DEF TypeOK
<1>6. Outside'
  BY <1>1, <1>3 DEF Outside
<1> QED  BY <1>2, <1>3, <1>4, <1>5, <1>6, Assembled

\* A request moves; the registry is not written, or written as it is.
LEMMA RequestKeeps ==
    ASSUME RegistryInvariant, NEW r \in Request, NEW v \in Local,
           hand' = [hand EXCEPT ![r] = v], MoveOK(r, v),
           UNCHANGED <<mem, seen, drawn, grant, answered, held, gone, guesses>>,
           disk' = disk \/ disk' = mem,
           asked \subseteq asked', asked' \subseteq Device,
           profile' \subseteq Device, profile' \cap gone = {},
           v.pc \in {"evict", "ensure", "profile"} =>
               Creating(r, v.dev) \/ (v.dev \in drawn /\ grant[v.dev] = "review")
    PROVE  RegistryInvariant'
<1>1. TypeOK /\ Outside /\ PairNow(mem) /\ PairNow(disk)  BY Parts
<1>2. \A q \in Request : HandOK(q)'
  <2>1. OthersMayRely(r)  BY DEF OthersMayRely
  <2> QED  BY <2>1, HandMoved
<1>3. /\ Must' \subseteq Must /\ SpentNow' \subseteq SpentNow
      /\ \A d \in SpentOn' :
            grant'[d] \in drawn' /\ \A e \in SpentOn' : grant'[e] = grant'[d] => e = d
  <2>1. \A d \in Device : Live(d)' => Live(d) \/ (d \in drawn /\ grant[d] = "review")
    BY LiveMoved
  <2> QED  BY <2>1, ApprovalsKept
<1>4. mem' \in Registry /\ disk' \in Registry /\ mem \in Registry /\ disk \in Registry
  BY <1>1 DEF TypeOK
<1>5. DevNext(mem') /\ DevNext(disk') /\ Agree(mem', disk', seen')
  <2>1. SameDevices(mem', mem) /\ (SameDevices(disk', disk) \/ SameDevices(disk', mem))
    BY DEF SameDevices
  <2> QED  BY <1>3, <1>4, <2>1, DevicesKept
<1>6. PairNext(mem') /\ PairNext(disk')
  <2>1. \A q \in {mem, disk} : PairOK(q, drawn, guesses, SpentNow')
    BY <1>1, <1>3 DEF PairNow, PairOK
  <2> QED  BY <2>1 DEF PairNext
<1>7. TypeOK'
  <2>1. hand' \in [Request -> Local]  BY <1>1 DEF TypeOK
  <2> QED  BY <1>1, <1>4, <2>1 DEF TypeOK
<1>8. Outside'
  BY <1>1, <1>3 DEF Outside, GuessesBounded
<1> QED  BY <1>2, <1>5, <1>6, <1>7, <1>8, Assembled

-----------------------------------------------------------------------------
(* The steps of the store and of time.                                     *)

LEMMA Written ==
    ASSUME NEW new, NEW out, Swap(new, out) \/ InPlace(new, out)
    PROVE  mem' \in {mem, new} /\ disk' \in {disk, new} /\ seen' = seen \cup mem'.devices
BY DEF Swap, InPlace, Write

\* A copy with the same devices is written; a guess is answered only when the
\* count is in both copies.
LEMMA StoreWrites ==
    ASSUME RegistryInvariant, NEW new \in Registry, SameDevices(new, mem),
           mem' \in {mem, new}, disk' \in {disk, new}, seen' = seen \cup mem'.devices,
           UNCHANGED <<profile, hand, grant, answered, held, asked, gone>>,
           drawn \subseteq drawn', drawn' \subseteq Device \cup Code \cup Link,
           guesses' \in [Code \cup Link -> Nat], GuessesBounded',
           \A x \in Code \cup Link : x \notin drawn' => guesses'[x] = 0,
           guesses' = guesses \/ (mem' = new /\ disk' = new),
           PairOK(new, drawn', guesses', SpentNow)
    PROVE  RegistryInvariant'
<1>1. TypeOK /\ PairNow(mem) /\ PairNow(disk) /\ Agree(mem, disk, seen)  BY Parts
<1>2. mem \in Registry /\ disk \in Registry /\ guesses \in [Code \cup Link -> Nat]
  BY <1>1 DEF TypeOK
<1>3. SameDevices(mem', mem) /\ (SameDevices(disk', disk) \/ SameDevices(disk', mem))
  BY DEF SameDevices
<1>4. seen' = seen  BY <1>1, <1>3 DEF SameDevices, Agree
<1>5. ASSUME SpentNow' \subseteq SpentNow PROVE PairNext(mem') /\ PairNext(disk')
  <2>1. PairOK(new, drawn', guesses', SpentNow')
    BY <1>5 DEF PairOK
  <2>2. ASSUME guesses' = guesses, NEW q \in Registry, PairNow(q)
        PROVE  PairOK(q, drawn', guesses', SpentNow')
    BY <1>5, <2>2 DEF PairNow, PairOK
  <2> QED  BY <1>1, <1>2, <2>1, <2>2 DEF PairNext
<1>6. mem' \in Registry /\ disk' \in Registry  BY <1>2
<1> QED  BY <1>3, <1>4, <1>5, <1>6, StoreKeeps

LEMMA PairSteps ==
    ASSUME RegistryInvariant, NEW out \in Outcome,
           \/ \E c \in Code : CreatePairing(c, out)
           \/ WrongCode(out)
    PROVE  RegistryInvariant'
<1>1. /\ TypeOK /\ PairNow(mem) /\ Outside /\ mem \in Registry
      /\ guesses \in [Code \cup Link -> Nat] /\ drawn \subseteq Device \cup Code \cup Link
  BY Parts DEF TypeOK
<1>2. ASSUME NEW c \in Code, CreatePairing(c, out) PROVE RegistryInvariant'
  <2> DEFINE new == [mem EXCEPT !.code = c, !.misses = 0]
  <2>1. /\ new \in Registry /\ SameDevices(new, mem)
        /\ new.code = c /\ new.misses = 0 /\ new.link = mem.link /\ new.linkMisses = mem.linkMisses
    BY <1>1, CodeIs
  <2>2. InPlace(new, out) /\ c \notin drawn /\ drawn' = drawn \cup {c}
    BY <1>2 DEF CreatePairing
  <2>3. guesses' = guesses /\ UNCHANGED <<profile, hand, grant, answered, held, asked, gone>>
    BY <1>2 DEF CreatePairing, ghosts
  <2> HIDE DEF new
  <2>4. c \notin SpentNow  BY <1>1, <2>2 DEF Outside, SpentNow
  <2>5. PairOK(new, drawn', guesses', SpentNow)
    <3>1. guesses[c] = 0  BY <1>1, <2>2 DEF Outside
    <3>2. 0 < MaxMisses  BY MissAssumption
    <3> QED  BY <1>1, <2>1, <2>2, <2>3, <2>4, <3>1, <3>2 DEF PairOK, PairNow
  <2>6. GuessesBounded' /\ \A x \in Code \cup Link : x \notin drawn' => guesses'[x] = 0
    BY <1>1, <2>2, <2>3 DEF Outside, GuessesBounded
  <2>7. drawn \subseteq drawn' /\ drawn' \subseteq Device \cup Code \cup Link
    BY <1>1, <2>2
  <2>8. mem' \in {mem, new} /\ disk' \in {disk, new} /\ seen' = seen \cup mem'.devices
    BY <2>2, Written
  <2> QED  BY <1>1, <2>1, <2>3, <2>5, <2>6, <2>7, <2>8, StoreWrites
<1>3. ASSUME WrongCode(out) PROVE RegistryInvariant'
  <2> DEFINE new == Missed(mem)
  <2>1. mem.code # NoCode /\ InPlace(new, out) /\ drawn' = drawn
    BY <1>3 DEF WrongCode
  <2>2. /\ mem.code \in Code /\ mem.code \in drawn /\ mem.misses \in Nat /\ mem.misses < MaxMisses
        /\ guesses[mem.code] \in Nat /\ guesses[mem.code] <= mem.misses
    BY <1>1, <2>1 DEF Registry, PairNow, PairOK
  <2>3. /\ new \in Registry /\ SameDevices(new, mem)
        /\ new.link = mem.link /\ new.linkMisses = mem.linkMisses
        /\ \/ new.code = NoCode
           \/ new.code = mem.code /\ new.misses = mem.misses + 1 /\ new.misses < MaxMisses
    <3>1. CASE mem.misses + 1 >= MaxMisses
      <4>1. new = [mem EXCEPT !.code = NoCode, !.misses = 0]  BY <3>1 DEF Missed, NoPairing
      <4> HIDE DEF new
      <4> QED  BY <1>1, <4>1, CodeIs
    <3>2. CASE ~(mem.misses + 1 >= MaxMisses)
      <4>1. new = [mem EXCEPT !.misses = @ + 1]  BY <3>2 DEF Missed
      <4>2. mem.misses + 1 < MaxMisses  BY <2>2, <3>2, MissAssumption
      <4> HIDE DEF new
      <4> QED  BY <1>1, <4>1, <4>2, MissesIs
    <3> QED  BY <3>1, <3>2
  <2> HIDE DEF new
  <2>4. UNCHANGED <<profile, hand, grant, answered, held, asked, gone>>
    BY <1>3 DEF WrongCode
  <2>5. /\ guesses' \in [Code \cup Link -> Nat]
        /\ \A x \in Code \cup Link : x # mem.code => guesses'[x] = guesses[x]
        /\ guesses'[mem.code] \in {guesses[mem.code], guesses[mem.code] + 1}
    BY <1>1, <1>3, <2>2 DEF WrongCode
  <2>6. guesses' = guesses \/ (mem' = new /\ disk' = new)
    BY <1>3, <2>1 DEF WrongCode, InPlace, Write
  <2>7. PairOK(new, drawn', guesses', SpentNow)
    <3>1. new.code # NoCode => guesses'[new.code] <= new.misses /\ new.misses < MaxMisses
      BY <2>2, <2>3, <2>5
    <3>2. \A l \in Link : guesses'[l] = guesses[l]
      BY <2>2, <2>5, ApprovalAssumption
    <3>3. \A x \in SpentNow : new.code # x
      BY <1>1, <2>3, NoneAssumption DEF PairNow, PairOK, SpentNow, SpentOn
    <3> QED  BY <1>1, <2>1, <2>3, <3>1, <3>2, <3>3 DEF PairOK, PairNow
  <2>8. GuessesBounded' /\ \A x \in Code \cup Link : x \notin drawn' => guesses'[x] = 0
    <3>1. guesses'[mem.code] <= MaxMisses  BY <2>2, <2>5, MissAssumption
    <3> QED  BY <1>1, <2>1, <2>2, <2>5, <3>1 DEF Outside, GuessesBounded
  <2>9. mem' \in {mem, new} /\ disk' \in {disk, new} /\ seen' = seen \cup mem'.devices
    BY <2>1, Written
  <2> QED  BY <1>1, <2>1, <2>3, <2>4, <2>5, <2>6, <2>7, <2>8, <2>9, StoreWrites
<1> QED  BY <1>2, <1>3

LEMMA LinkSteps ==
    ASSUME RegistryInvariant, NEW out \in Outcome, NEW l \in Link,
           CreateLink(l, out) \/ ApproveLink(l, out) \/ DenyLink(l, out)
    PROVE  RegistryInvariant'
<1>1. /\ TypeOK /\ PairNow(mem) /\ Outside /\ mem \in Registry
      /\ guesses \in [Code \cup Link -> Nat] /\ drawn \subseteq Device \cup Code \cup Link
  BY Parts DEF TypeOK
<1>2. PICK s \in {"pending", "approved", "denied"} :
          /\ Swap([mem EXCEPT !.link[l] = s], out)
          /\ \/ s = "pending" /\ l \notin drawn /\ drawn' = drawn \cup {l}
             \/ drawn' = drawn /\ mem.link[l] # "absent" /\ mem.link[l] # "denied"
  BY DEF CreateLink, ApproveLink, DenyLink
<1> DEFINE new == [mem EXCEPT !.link[l] = s]
<1>3. /\ new \in Registry /\ SameDevices(new, mem) /\ new.code = mem.code
      /\ new.misses = mem.misses /\ new.link = [mem.link EXCEPT ![l] = s]
      /\ new.linkMisses = mem.linkMisses
  <2>1. s \in LinkStatus  BY DEF LinkStatus
  <2> QED  BY <1>1, <2>1, LinkIs
<1>4. mem' \in {mem, new} /\ disk' \in {disk, new} /\ seen' = seen \cup mem'.devices
  BY <1>2, Written
<1> HIDE DEF new
<1>5. UNCHANGED <<profile, hand, grant, answered, held, asked, gone, guesses>>
  BY DEF CreateLink, ApproveLink, DenyLink, ghosts
<1>6. drawn \subseteq drawn' /\ drawn' \subseteq Device \cup Code \cup Link
  BY <1>1, <1>2
<1>7. PairOK(new, drawn', guesses', SpentNow)
  <2>1. new.link[l] = s /\ \A k \in Link : k # l => new.link[k] = mem.link[k]
    BY <1>1, <1>3 DEF Registry
  <2>2. /\ l \in drawn' /\ guesses[l] <= mem.linkMisses[l]
        /\ mem.linkMisses[l] <= MaxMisses /\ mem.linkMisses[l] < MaxMisses
    <3>1. CASE s = "pending" /\ l \notin drawn /\ drawn' = drawn \cup {l}
      <4>1. mem.link[l] = "absent" /\ mem.linkMisses[l] = 0  BY <1>1, <3>1 DEF PairNow, PairOK
      <4>2. guesses[l] = 0  BY <1>1, <3>1 DEF Outside
      <4> QED  BY <3>1, <4>1, <4>2, MissAssumption
    <3>2. CASE drawn' = drawn /\ mem.link[l] # "absent" /\ mem.link[l] # "denied"
      BY <1>1, <3>2 DEF PairNow, PairOK
    <3> QED  BY <1>2, <3>1, <3>2
  <2>3. l \notin SpentNow
    <3>1. SpentNow \subseteq drawn  BY <1>1 DEF Outside, SpentNow
    <3>2. l \in SpentNow => mem.link[l] = "absent"  BY <1>1 DEF PairNow, PairOK
    <3> QED  BY <1>2, <3>1, <3>2
  <2>4. /\ new.code \in drawn' \cup {NoCode}
        /\ new.code # NoCode => guesses'[new.code] <= new.misses /\ new.misses < MaxMisses
        /\ \A x \in SpentNow : new.code # x
    BY <1>1, <1>3, <1>5, <1>6 DEF PairNow, PairOK
  <2>5. \A k \in Link :
          IF new.link[k] = "absent" THEN new.linkMisses[k] = 0
          ELSE /\ k \in drawn'
               /\ guesses'[k] <= new.linkMisses[k] /\ new.linkMisses[k] <= MaxMisses
               /\ new.link[k] # "denied" => new.linkMisses[k] < MaxMisses
    <3> SUFFICES ASSUME NEW k \in Link
                 PROVE  IF new.link[k] = "absent" THEN new.linkMisses[k] = 0
                        ELSE /\ k \in drawn'
                             /\ guesses'[k] <= new.linkMisses[k] /\ new.linkMisses[k] <= MaxMisses
                             /\ new.link[k] # "denied" => new.linkMisses[k] < MaxMisses
      OBVIOUS
    <3>1. CASE k = l  BY <1>2, <1>3, <1>5, <2>1, <2>2, <3>1
    <3>2. CASE k # l  BY <1>1, <1>3, <1>5, <1>6, <2>1, <3>2 DEF PairNow, PairOK
    <3> QED  BY <3>1, <3>2
  <2>6. \A x \in SpentNow : x \in Link => new.link[x] = "absent"
    BY <1>1, <2>1, <2>3 DEF PairNow, PairOK
  <2> QED  BY <2>4, <2>5, <2>6 DEF PairOK
<1>8. GuessesBounded' /\ \A x \in Code \cup Link : x \notin drawn' => guesses'[x] = 0
  BY <1>1, <1>5, <1>6 DEF Outside, GuessesBounded
<1> QED  BY <1>1, <1>3, <1>4, <1>5, <1>6, <1>7, <1>8, StoreWrites

LEMMA TokenGuessed ==
    ASSUME RegistryInvariant, NEW out \in Outcome, NEW l \in Link, WrongToken(l, out)
    PROVE  RegistryInvariant'
<1>1. /\ TypeOK /\ PairNow(mem) /\ Outside /\ mem \in Registry
      /\ guesses \in [Code \cup Link -> Nat] /\ drawn \subseteq Device \cup Code \cup Link
  BY Parts DEF TypeOK
<1> DEFINE new == LinkMissed(mem, l)
<1>2. /\ Swap(new, out) /\ mem.link[l] \in {"pending", "approved"}
      /\ UNCHANGED <<profile, hand, grant, answered, held, asked, gone, drawn>>
      /\ guesses' = IF out = "ok" THEN [guesses EXCEPT ![l] = @ + 1] ELSE guesses
  BY DEF WrongToken
<1>3. /\ new \in Registry /\ SameDevices(new, mem) /\ new.code = mem.code
      /\ new.misses = mem.misses
      /\ new.link = [mem.link EXCEPT ![l] =
                        IF mem.linkMisses[l] + 1 >= MaxMisses THEN "denied" ELSE @]
      /\ new.linkMisses = [mem.linkMisses EXCEPT ![l] = @ + 1]
  BY <1>1, LinkMissedIs
<1>4. mem' \in {mem, new} /\ disk' \in {disk, new} /\ seen' = seen \cup mem'.devices
  BY <1>2, Written
<1>5. guesses' = guesses \/ (mem' = new /\ disk' = new)
  BY <1>2 DEF Swap, Write
<1> HIDE DEF new
<1>6. /\ l \in drawn /\ guesses[l] \in Nat /\ mem.linkMisses[l] \in Nat
      /\ guesses[l] <= mem.linkMisses[l] /\ mem.linkMisses[l] < MaxMisses
  BY <1>1, <1>2 DEF PairNow, PairOK, Registry
<1>7. /\ guesses' \in [Code \cup Link -> Nat]
      /\ \A x \in Code \cup Link : x # l => guesses'[x] = guesses[x]
      /\ guesses'[l] \in {guesses[l], guesses[l] + 1}
  BY <1>1, <1>2, <1>6
<1>8. PairOK(new, drawn', guesses', SpentNow)
  <2>1. /\ \A k \in Link : k # l =>
              new.link[k] = mem.link[k] /\ new.linkMisses[k] = mem.linkMisses[k]
        /\ new.linkMisses[l] = mem.linkMisses[l] + 1
        /\ new.link[l] # "absent"
        /\ new.link[l] # "denied" => ~(mem.linkMisses[l] + 1 >= MaxMisses)
    BY <1>1, <1>2, <1>3 DEF Registry
  <2>2. /\ guesses'[l] <= new.linkMisses[l] /\ new.linkMisses[l] <= MaxMisses
        /\ new.link[l] # "denied" => new.linkMisses[l] < MaxMisses
    BY <1>6, <1>7, <2>1, MissAssumption
  <2>3. l \notin SpentNow  BY <1>1, <1>2 DEF PairNow, PairOK
  <2>4. /\ new.code \in drawn' \cup {NoCode}
        /\ new.code # NoCode => guesses'[new.code] <= new.misses /\ new.misses < MaxMisses
        /\ \A x \in SpentNow : new.code # x
    <3>1. new.code # NoCode => new.code \in Code \cup Link /\ new.code # l
      BY <1>1, <1>3, ApprovalAssumption DEF Registry
    <3> QED  BY <1>1, <1>2, <1>3, <1>7, <3>1 DEF PairNow, PairOK
  <2>5. ASSUME NEW k \in Link
        PROVE  IF new.link[k] = "absent" THEN new.linkMisses[k] = 0
               ELSE /\ k \in drawn'
                    /\ guesses'[k] <= new.linkMisses[k] /\ new.linkMisses[k] <= MaxMisses
                    /\ new.link[k] # "denied" => new.linkMisses[k] < MaxMisses
    <3>1. CASE k = l  BY <1>2, <1>6, <2>1, <2>2, <3>1
    <3>2. CASE k # l  BY <1>1, <1>2, <1>7, <2>1, <3>2 DEF PairNow, PairOK
    <3> QED  BY <3>1, <3>2
  <2>6. \A x \in SpentNow : x \in Link => new.link[x] = "absent"
    BY <1>1, <2>1, <2>3 DEF PairNow, PairOK
  <2> QED  BY <2>4, <2>5, <2>6 DEF PairOK
<1>9. GuessesBounded' /\ \A x \in Code \cup Link : x \notin drawn' => guesses'[x] = 0
  <2>1. guesses'[l] <= MaxMisses  BY <1>6, <1>7, MissAssumption
  <2> QED  BY <1>1, <1>2, <1>6, <1>7, <2>1 DEF Outside, GuessesBounded
<1> QED  BY <1>1, <1>2, <1>3, <1>4, <1>5, <1>7, <1>8, <1>9, StoreWrites

LEMMA TimeSteps ==
    ASSUME RegistryInvariant, TimeStep
    PROVE  RegistryInvariant'
<1>1. /\ TypeOK /\ Outside /\ mem \in Registry /\ disk \in Registry
      /\ PairNow(mem) /\ PairNow(disk) /\ guesses \in [Code \cup Link -> Nat]
      /\ drawn \subseteq Device \cup Code \cup Link
  BY Parts DEF TypeOK
<1>2. UNCHANGED <<profile, hand, seen, grant, answered, held, asked, gone, drawn, guesses>>
  BY DEF TimeStep, CodeExpires, LinkExpires, GraceEnds, ghosts
<1> DEFINE Fine(n, q) == n \in Registry /\ SameDevices(n, q) /\ PairOK(n, drawn, guesses, SpentNow)
<1>3. ASSUME NEW q \in Registry, PairNow(q)
      PROVE  /\ Fine(q, q) /\ Fine(NoPairing(q), q)
             /\ \A l \in Link : Fine([q EXCEPT !.link[l] = "absent", !.linkMisses[l] = 0], q)
             /\ \A d \in Device : Fine([q EXCEPT !.prev = @ \ {d}], q)
  <2>1. Fine(q, q)  BY <1>3 DEF SameDevices, PairNow
  <2>2. Fine(NoPairing(q), q)
    <3> DEFINE n == NoPairing(q)
    <3>1. /\ n \in Registry /\ SameDevices(n, q)
          /\ n.code = NoCode /\ n.link = q.link /\ n.linkMisses = q.linkMisses
      BY CodeIs DEF NoPairing
    <3> HIDE DEF n
    <3>2. NoCode \notin SpentNow  BY NoneAssumption DEF SpentNow, SpentOn
    <3>3. PairOK(n, drawn, guesses, SpentNow)  BY <1>3, <3>1, <3>2 DEF PairNow, PairOK
    <3> QED  BY <3>1, <3>3 DEF n
  <2>3. ASSUME NEW l \in Link
        PROVE  Fine([q EXCEPT !.link[l] = "absent", !.linkMisses[l] = 0], q)
    <3> DEFINE n == [q EXCEPT !.link[l] = "absent", !.linkMisses[l] = 0]
    <3>1. /\ n \in Registry /\ n.code = q.code /\ n.misses = q.misses
          /\ n.link = [q.link EXCEPT ![l] = "absent"]
          /\ n.linkMisses = [q.linkMisses EXCEPT ![l] = 0]
          /\ n.devices = q.devices /\ n.review = q.review /\ n.token = q.token
          /\ n.prev = q.prev
      BY LinkOverIs
    <3> HIDE DEF n
    <3>2. /\ n.link[l] = "absent" /\ n.linkMisses[l] = 0
          /\ \A k \in Link : k # l =>
                n.link[k] = q.link[k] /\ n.linkMisses[k] = q.linkMisses[k]
      BY <3>1 DEF Registry
    <3>3. PairOK(n, drawn, guesses, SpentNow)  BY <1>3, <3>1, <3>2 DEF PairNow, PairOK
    <3> QED  BY <3>1, <3>3 DEF n, SameDevices
  <2>4. ASSUME NEW d \in Device PROVE Fine([q EXCEPT !.prev = @ \ {d}], q)
    <3> DEFINE n == [q EXCEPT !.prev = @ \ {d}]
    <3>1. n \in Registry /\ SamePairing(n, q) /\ SameDevices(n, q)  BY GraceIs
    <3> HIDE DEF n
    <3>2. PairOK(n, drawn, guesses, SpentNow)  BY <1>3, <3>1 DEF PairNow, PairOK, SamePairing
    <3> QED  BY <3>1, <3>2 DEF n
  <2> QED  BY <2>1, <2>2, <2>3, <2>4
<1> HIDE DEF Fine
<1>4. Fine(mem', mem) /\ Fine(disk', disk)
  <2>1. ASSUME NEW c \in Code, CodeExpires(c) PROVE Fine(mem', mem) /\ Fine(disk', disk)
    BY <1>1, <1>3, <2>1 DEF CodeExpires
  <2>2. ASSUME NEW l \in Link, LinkExpires(l) PROVE Fine(mem', mem) /\ Fine(disk', disk)
    BY <1>1, <1>3, <2>2 DEF LinkExpires
  <2>3. ASSUME NEW d \in Device, GraceEnds(d) PROVE Fine(mem', mem) /\ Fine(disk', disk)
    BY <1>1, <1>3, <2>3 DEF GraceEnds
  <2> QED  BY <2>1, <2>2, <2>3 DEF TimeStep
<1>5. SpentNow' \subseteq SpentNow => PairNext(mem') /\ PairNext(disk')
  BY <1>2, <1>4 DEF Fine, PairNext, PairOK
<1>6. GuessesBounded' /\ \A x \in Code \cup Link : x \notin drawn' => guesses'[x] = 0
  BY <1>1, <1>2 DEF Outside, GuessesBounded
<1> QED  BY <1>1, <1>2, <1>4, <1>5, <1>6, StoreKeeps DEF Fine

-----------------------------------------------------------------------------
(* Refresh tokens.                                                         *)

LEMMA FamilyKeeps ==
    ASSUME RegistryInvariant,
           UNCHANGED <<profile, hand, drawn, seen, grant, answered, asked, gone, guesses>>,
           mem' \in Registry, disk' \in Registry, mem'.devices = mem.devices,
           SamePairing(mem', mem), SamePairing(disk', disk) \/ SamePairing(disk', mem),
           held' \in [Device -> Nat], \A d \in Device : held'[d] > 0 => d \in answered,
           Must' \subseteq Must => DevNext(mem') /\ DevNext(disk'), Agree(mem', disk', seen')
    PROVE  RegistryInvariant'
<1>1. TypeOK /\ Outside /\ PairNow(mem) /\ PairNow(disk)  BY Parts
<1>2. \A q \in Request : HandOK(q)'
  BY HandStill
<1>3. /\ Must' \subseteq Must /\ SpentNow' \subseteq SpentNow
      /\ \A d \in SpentOn' :
            grant'[d] \in drawn' /\ \A e \in SpentOn' : grant'[e] = grant'[d] => e = d
  <2>1. \A d \in Device : Live(d)' => Live(d)  BY LiveStill
  <2>2. \A d \in Device : Live(d)' => Live(d) \/ (d \in drawn /\ grant[d] = "review")
    BY <2>1
  <2>3. asked \subseteq asked' /\ \A d \in Device \cap drawn : grant'[d] = grant[d]
    OBVIOUS
  <2> QED  BY <2>2, <2>3, ApprovalsKept
<1>4. PairNext(mem') /\ PairNext(disk')
  <2>1. ASSUME NEW q, NEW n, PairNow(q), SamePairing(n, q)
        PROVE  PairOK(n, drawn, guesses, SpentNow')
    BY <1>3, <2>1 DEF PairNow, PairOK, SamePairing
  <2> QED  BY <1>1, <2>1 DEF PairNext
<1>5. TypeOK'
  BY <1>1 DEF TypeOK
<1>6. Outside'
  BY <1>1, <1>3 DEF Outside, GuessesBounded
<1> QED  BY <1>2, <1>3, <1>4, <1>5, <1>6, Assembled

LEMMA RefreshSteps ==
    ASSUME RegistryInvariant, NEW d \in Device, NEW t \in 1 .. MaxToken,
           \/ \E out \in Outcome : Rotate(d, t, out)
           \/ Replay(d, t)
    PROVE  RegistryInvariant'
<1>1. /\ TypeOK /\ Outside /\ mem \in Registry /\ disk \in Registry
      /\ DevNow(mem) /\ DevNow(disk) /\ Agree(mem, disk, seen)
      /\ held \in [Device -> Nat] /\ t \in Nat /\ t >= 1
  BY Parts, MissAssumption DEF TypeOK
<1>2. /\ d \in mem.devices /\ t <= held[d] /\ held[d] \in Nat /\ d \in answered
      /\ mem.token[d] \in {held[d], held[d] + 1} /\ mem.token[d] \in Nat
  <2>1. d \in mem.devices /\ t <= held[d]  BY <1>1 DEF Rotate, Replay
  <2> QED  BY <1>1, <2>1 DEF Outside, DevNow, DevOK, Registry
<1>3. ASSUME NEW out \in Outcome, Rotate(d, t, out) PROVE RegistryInvariant'
  <2> DEFINE new == Rotated(mem, d)
  <2>1. /\ new \in Registry /\ SamePairing(new, mem)
        /\ new.devices = mem.devices /\ new.review = mem.review
        /\ new.prev = mem.prev \cup {d} /\ new.token = [mem.token EXCEPT ![d] = @ + 1]
    BY <1>1, RotatedIs
  <2>2. /\ UNCHANGED <<profile, hand, drawn, grant, answered, asked, gone, guesses>>
        /\ t = mem.token[d] /\ Swap(new, out)
        /\ IF out = "ok" THEN Receive(d, t + 1) ELSE held' = held
    BY <1>3 DEF Rotate, RotateWrite
  <2>3. /\ out = "ok" => mem' = new /\ disk' = new
        /\ out # "ok" => mem' = mem /\ disk' \in {disk, new}
        /\ seen' = seen \cup mem'.devices
    BY <2>2 DEF Swap, Write
  <2> HIDE DEF new
  <2>4. seen' = seen /\ mem'.devices = mem.devices
    BY <1>1, <2>1, <2>3 DEF Agree
  <2>5. /\ new.token[d] = mem.token[d] + 1 /\ \A e \in Device : e # d => new.token[e] = mem.token[e]
        /\ \A e \in Device : mem.token[e] <= new.token[e] /\ new.token[e] <= new.token[e]
                                 /\ mem.token[e] \in Nat
    BY <1>1, <1>2, <2>1 DEF Registry
  <2>6. /\ held' \in [Device -> Nat] /\ \A e \in Device : e # d => held'[e] = held[e]
        /\ held[d] = t /\ held'[d] \in {held[d], held[d] + 1}
        /\ out # "ok" => held' = held
    <3>1. held[d] = t  BY <1>1, <1>2, <2>2
    <3> QED  BY <1>1, <2>2, <3>1 DEF Receive
  <2>7. ASSUME Must' \subseteq Must PROVE DevNext(mem') /\ DevNext(disk')
    <3>1. Bounded(new)  BY <1>1, <2>1, Fewer DEF DevNow, DevOK
    <3>2. \A e \in new.devices : new.token[e] \in {held'[e], held'[e] + 1} \ {0}
      <4>1. \A e \in new.devices : e # d => new.token[e] \in {held'[e], held'[e] + 1} \ {0}
        BY <1>1, <2>1, <2>5, <2>6 DEF DevNow, DevOK, Registry
      <4>2. new.token[d] \in {held'[d], held'[d] + 1} \ {0}
        BY <1>1, <1>2, <2>2, <2>5, <2>6
      <4> QED  BY <4>1, <4>2
    <3>3. DevOK(new, drawn, grant, held', gone, Must')
      BY <1>1, <1>2, <2>1, <2>7, <3>1, <3>2 DEF DevNow, DevOK
    <3>4. out # "ok" => \A q \in {mem, disk} : DevOK(q, drawn, grant, held', gone, Must')
      BY <1>1, <2>6, <2>7 DEF DevNow, DevOK
    <3> QED  BY <2>2, <2>3, <3>3, <3>4 DEF DevNext
  <2>8. Agree(mem', disk', seen')
    <3>1. CASE mem' = new /\ disk' = new
      BY <1>1, <2>1, <2>4, <2>5, <3>1 DEF Agree, Registry
    <3>2. CASE mem' = mem /\ disk' = disk
      BY <1>1, <2>4, <3>2
    <3>3. CASE mem' = mem /\ disk' = new
      BY <1>1, <2>1, <2>4, <2>5, <3>3 DEF Agree, Registry
    <3> QED  BY <2>3, <3>1, <3>2, <3>3
  <2>9. \A e \in Device : held'[e] > 0 => e \in answered
    BY <1>1, <1>2, <2>6 DEF Outside
  <2>10. /\ SamePairing(mem', mem) /\ (SamePairing(disk', disk) \/ SamePairing(disk', mem))
         /\ mem' \in Registry /\ disk' \in Registry
    BY <1>1, <2>1, <2>3 DEF SamePairing
  <2> QED  BY <2>2, <2>4, <2>6, <2>7, <2>8, <2>9, <2>10, FamilyKeeps
<1>4. ASSUME Replay(d, t) PROVE RegistryInvariant'
  <2>1. /\ UNCHANGED <<mem, disk, drawn, seen, profile, hand, grant, answered, asked, gone, guesses>>
        /\ t + 1 = mem.token[d] /\ Receive(d, t + 1)
    BY <1>4 DEF Replay, registry
  <2>2. /\ held' \in [Device -> Nat] /\ \A e \in Device : e # d => held'[e] = held[e]
        /\ held'[d] \in {held[d], mem.token[d]} /\ held'[d] >= held[d]
    BY <1>1, <1>2, <2>1 DEF Receive
  <2>3. /\ mem.token[d] \in {held'[d], held'[d] + 1} \ {0}
        /\ d \in disk.devices => disk.token[d] \in {held'[d], held'[d] + 1} \ {0}
    <3>1. mem.token[d] \in {held'[d], held'[d] + 1} \ {0}
      BY <1>1, <1>2, <2>1, <2>2
    <3>2. ASSUME d \in disk.devices PROVE disk.token[d] \in {held'[d], held'[d] + 1} \ {0}
      <4>1. /\ mem.token[d] <= disk.token[d] /\ disk.token[d] \in {held[d], held[d] + 1}
        BY <1>1, <1>2, <3>2 DEF Agree, DevNow, DevOK
      <4> QED  BY <1>1, <1>2, <2>1, <2>2, <4>1
    <3> QED  BY <3>1, <3>2
  <2>4. ASSUME Must' \subseteq Must PROVE DevNext(mem') /\ DevNext(disk')
    <3>1. \A q \in {mem, disk} : DevOK(q, drawn, grant, held', gone, Must')
      BY <1>1, <2>2, <2>3, <2>4 DEF DevNow, DevOK, Registry
    <3> QED  BY <2>1, <3>1 DEF DevNext
  <2>5. \A e \in Device : held'[e] > 0 => e \in answered
    BY <1>1, <1>2, <2>2 DEF Outside
  <2>6. SamePairing(mem', mem) /\ SamePairing(disk', disk)
    BY <2>1 DEF SamePairing
  <2>7. mem' \in Registry /\ disk' \in Registry /\ Agree(mem', disk', seen')
            /\ mem'.devices = mem.devices
    BY <1>1, <2>1
  <2> QED  BY <2>1, <2>2, <2>4, <2>5, <2>6, <2>7, FamilyKeeps
<1> QED  BY <1>3, <1>4

-----------------------------------------------------------------------------
(* A device leaves the registry.                                           *)

LEMMA RemoveKeeps ==
    ASSUME RegistryInvariant, NEW r \in Request, NEW v \in Local,
           hand' = [hand EXCEPT ![r] = v], MoveOK(r, v),
           NEW d \in Device, NEW out \in Outcome, Swap(Without(mem, d), out),
           UNCHANGED <<profile, drawn, grant, answered, held, gone, guesses>>,
           asked \subseteq asked', asked' \subseteq Device, d \notin Must',
           v.pc \in {"evict", "ensure", "profile"} =>
               Creating(r, v.dev) \/ (v.dev \in drawn /\ grant[v.dev] = "review")
    PROVE  RegistryInvariant'
<1>1. /\ TypeOK /\ Outside /\ PairNow(mem) /\ PairNow(disk) /\ DevNow(mem) /\ DevNow(disk)
      /\ Agree(mem, disk, seen) /\ mem \in Registry /\ disk \in Registry
  BY Parts DEF TypeOK
<1> DEFINE new == Without(mem, d)
<1>2. /\ new \in Registry /\ SamePairing(new, mem) /\ new.token = mem.token
      /\ new.devices = mem.devices \ {d} /\ new.review = mem.review \ {d}
      /\ new.prev = mem.prev \ {d}
  BY <1>1, WithoutIs
<1>3. /\ \/ mem' = new /\ disk' = new
         \/ mem' = mem /\ disk' = disk
         \/ mem' = mem /\ disk' = new
      /\ seen' = seen \cup mem'.devices
  BY DEF Swap, Write, Outcome
<1> HIDE DEF new
<1>4. seen' = seen /\ mem'.devices \cap seen \subseteq mem.devices
  BY <1>1, <1>2, <1>3 DEF Agree
<1>5. \A q \in Request : HandOK(q)'
  <2>1. OthersMayRely(r)  BY <1>4 DEF OthersMayRely
  <2> QED  BY <2>1, HandMoved
<1>6. /\ Must' \subseteq Must \ {d} /\ SpentNow' \subseteq SpentNow
      /\ \A e \in SpentOn' :
            grant'[e] \in drawn' /\ \A f \in SpentOn' : grant'[f] = grant'[e] => f = e
  <2>1. \A e \in Device : Live(e)' => Live(e) \/ (e \in drawn /\ grant[e] = "review")
    BY LiveMoved
  <2> QED  BY <2>1, ApprovalsKept
<1>7. DevNext(mem') /\ DevNext(disk')
  <2>1. DevOK(new, drawn, grant, held, gone, Must')
    BY <1>1, <1>2, <1>6, DevRemoved DEF DevNow
  <2>2. \A q \in {mem, disk} : DevOK(q, drawn, grant, held, gone, Must')
    BY <1>1, <1>6 DEF DevNow, DevOK
  <2> QED  BY <1>3, <2>1, <2>2 DEF DevNext
<1>8. PairNext(mem') /\ PairNext(disk')
  <2>1. \A q \in {mem, disk, new} : PairOK(q, drawn, guesses, SpentNow')
    BY <1>1, <1>2, <1>6 DEF PairNow, PairOK, SamePairing
  <2> QED  BY <1>3, <2>1 DEF PairNext
<1>9. Agree(mem', disk', seen')
  <2>1. \A e \in Device : mem.token[e] <= mem.token[e]  BY <1>1 DEF Registry
  <2> QED  BY <1>1, <1>2, <1>3, <1>4, <2>1 DEF Agree, Registry
<1>10. TypeOK'
  <2>1. hand' \in [Request -> Local]  BY <1>1 DEF TypeOK
  <2>2. mem' \in Registry /\ disk' \in Registry  BY <1>1, <1>2, <1>3
  <2> QED  BY <1>1, <1>4, <2>1, <2>2 DEF TypeOK
<1>11. Outside'
  BY <1>1, <1>4, <1>6 DEF Outside, GuessesBounded
<1> QED  BY <1>5, <1>7, <1>8, <1>9, <1>10, <1>11, Assembled

\* Removing a device, whether memory has it or not.
LEMMA RevokerKeeps ==
    ASSUME RegistryInvariant, NEW r \in Request, NEW v \in Local,
           hand' = [hand EXCEPT ![r] = v], MoveOK(r, v),
           NEW d \in Device, NEW out \in Outcome, Remove(d, out),
           UNCHANGED <<profile, drawn, grant, answered, held, gone, guesses>>,
           asked \subseteq asked', asked' \subseteq Device, d \notin Must',
           v.pc \notin {"evict", "ensure", "profile"} \/ Creating(r, v.dev)
    PROVE  RegistryInvariant'
<1>1. CASE d \in mem.devices
  BY <1>1, RemoveKeeps DEF Remove
<1>2. CASE d \notin mem.devices
  <2>1. UNCHANGED <<mem, disk, seen>>  BY <1>2 DEF Remove
  <2>2. profile' \subseteq Device /\ profile' \cap gone = {}
    BY Parts DEF TypeOK, Outside
  <2> QED  BY <2>1, <2>2, RequestKeeps
<1> QED  BY <1>1, <1>2

-----------------------------------------------------------------------------
(* The steps of requests.                                                  *)

LEMMA RestIs == AtRest \in Local
BY DEF AtRest, Local, Pc

LEMMA MoveToRest ==
    ASSUME NEW r \in Request
    PROVE  MoveOK(r, AtRest)
BY DEF MoveOK, AtRest

\* The answer, an error, or the end of the clean-up after it.
LEMMA ReturnSteps ==
    ASSUME RegistryInvariant, NEW r \in Request,
           \/ RedeemLinkRefused(r) \/ Unprofile(r) \/ RenameProfile(r)
    PROVE  RegistryInvariant'
<1>1. /\ TypeOK /\ HandOK(r) /\ Outside /\ hand[r] \in Local  BY Parts DEF TypeOK
<1>2. /\ hand' = [hand EXCEPT ![r] = AtRest] /\ UNCHANGED <<mem, disk, drawn, seen>>
      /\ UNCHANGED <<grant, answered, held, asked, gone, guesses>>
  BY DEF RedeemLinkRefused, Unprofile, RenameProfile, Return, registry, ghosts
<1>3. profile' \subseteq Device /\ profile' \cap gone = {}
  <2>1. CASE RedeemLinkRefused(r)  BY <1>1, <2>1 DEF RedeemLinkRefused, TypeOK, Outside
  <2>2. CASE Unprofile(r)  BY <1>1, <2>2 DEF Unprofile, TypeOK, Outside
  <2>3. CASE RenameProfile(r)
    <3>1. hand[r].dev \in Device /\ hand[r].dev \notin gone
      BY <1>1, <2>3 DEF RenameProfile, HandOK
    <3> QED  BY <1>1, <2>3, <3>1 DEF RenameProfile, TypeOK, Outside
  <2> QED  BY <2>1, <2>2, <2>3
<1>4. asked \subseteq asked' /\ asked' \subseteq Device  BY <1>1, <1>2 DEF TypeOK
<1>5. AtRest.pc = "idle"  BY DEF AtRest
<1> QED  BY <1>2, <1>3, <1>4, <1>5, RestIs, MoveToRest, RequestKeeps

LEMMA PollSteps ==
    ASSUME RegistryInvariant, NEW r \in Request, NEW l \in Link, PollLink(r, l)
    PROVE  RegistryInvariant'
<1> DEFINE v == [AtRest EXCEPT !.pc = "approved", !.link = l]
<1>1. v.pc = "approved" /\ v.link = l /\ v.dev = NoDevice /\ v \in Local
  BY DEF AtRest, Local, Pc
<1>2. hand' = [hand EXCEPT ![r] = v] /\ UNCHANGED <<mem, disk, drawn, seen>>
      /\ UNCHANGED <<profile, grant, answered, held, asked, gone, guesses>>
  BY DEF PollLink, registry, ghosts
<1> HIDE DEF v
<1>3. MoveOK(r, v)  BY <1>1 DEF MoveOK
<1>4. /\ asked \subseteq asked' /\ asked' \subseteq Device
      /\ profile' \subseteq Device /\ profile' \cap gone = {}
  BY <1>2, Parts DEF TypeOK, Outside
<1> QED  BY <1>1, <1>2, <1>3, <1>4, RequestKeeps

LEMMA EnsureSteps ==
    ASSUME RegistryInvariant, NEW r \in Request, EnsureDevice(r) \/ EnsureFails(r)
    PROVE  RegistryInvariant'
<1>1. /\ TypeOK /\ HandOK(r) /\ Outside /\ DevNow(mem) /\ hand \in [Request -> Local]
      /\ hand[r] \in Local
  BY Parts DEF TypeOK
<1>2. PICK p \in {"profile", "undo"} :
          /\ hand' = [hand EXCEPT ![r].pc = p] /\ hand[r].pc \in {"ensure", "profile"}
          /\ p = "profile" => hand[r].dev \in mem.devices /\ GateOpen(hand[r].dev)
  BY DEF EnsureDevice, EnsureFails, Goto
<1> DEFINE v == [hand[r] EXCEPT !.pc = p]
<1>3. /\ v.pc = p /\ v.dev = hand[r].dev /\ v \in Local
      /\ hand' = [hand EXCEPT ![r] = v]
  BY <1>1, <1>2 DEF Local, Pc
<1>4. /\ UNCHANGED <<mem, disk, drawn, seen, grant, answered, held, asked, gone, guesses>>
      /\ profile' \subseteq profile \cup {hand[r].dev}
      /\ profile' = profile \/ hand[r].pc = "profile"
  BY DEF EnsureDevice, EnsureFails, registry, ghosts
<1> HIDE DEF v
<1>5. hand[r].dev \in Device \cap drawn /\ hand[r].dev \notin answered
  BY <1>1, <1>2 DEF HandOK
<1>6. MoveOK(r, v)
  <2>1. p = "profile" => hand[r].dev \notin gone  BY <1>1, <1>2 DEF DevNow, DevOK
  <2> QED  BY <1>2, <1>3, <1>4, <1>5, <2>1 DEF MoveOK
<1>7. profile' \subseteq Device /\ profile' \cap gone = {}
  <2>1. hand[r].pc = "profile" => hand[r].dev \notin gone  BY <1>1 DEF HandOK
  <2> QED  BY <1>1, <1>4, <1>5, <2>1 DEF TypeOK, Outside
<1>8. asked \subseteq asked' /\ asked' \subseteq Device  BY <1>1, <1>4 DEF TypeOK
<1>9. Creating(r, v.dev)  BY <1>2, <1>3 DEF Creating
<1> QED  BY <1>3, <1>4, <1>6, <1>7, <1>8, <1>9, RequestKeeps

LEMMA RenameSteps ==
    ASSUME RegistryInvariant, NEW r \in Request, NEW d \in Device, Rename(r, d)
    PROVE  RegistryInvariant'
<1>1. /\ TypeOK /\ Outside /\ DevNow(mem) /\ Agree(mem, disk, seen)
  BY Parts
<1>2. /\ UNCHANGED <<profile, drawn, grant, answered, held, asked, gone, guesses>>
      /\ d \in mem.devices /\ GateOpen(d) /\ hand[r].pc = "idle"
  BY DEF Rename, Idle, ghosts
<1>3. mem' = mem /\ disk' \in {disk, mem} /\ seen' = seen
  <2>1. mem' = mem /\ disk' \in {disk, mem} /\ seen' \in {seen, seen \cup mem.devices}
    BY DEF Rename, Swap, Write
  <2> QED  BY <1>1, <2>1 DEF Agree
<1> DEFINE v == [AtRest EXCEPT !.pc = "renamed", !.dev = d]
<1>4. v.pc = "renamed" /\ v.dev = d /\ v \in Local
  BY DEF AtRest, Local, Pc
<1>5. hand' = [hand EXCEPT ![r] = v] \/ hand' = [hand EXCEPT ![r] = AtRest]
  BY DEF Rename, Return
<1> HIDE DEF v
<1>6. MoveOK(r, v)
  <2>1. d \in drawn /\ d \notin gone  BY <1>1, <1>2 DEF DevNow, DevOK
  <2> QED  BY <1>2, <1>4, <2>1 DEF MoveOK
<1>7. /\ asked \subseteq asked' /\ asked' \subseteq Device
      /\ profile' \subseteq Device /\ profile' \cap gone = {}
  BY <1>1, <1>2 DEF TypeOK, Outside
<1>8. AtRest.pc = "idle"  BY DEF AtRest
<1>9. CASE hand' = [hand EXCEPT ![r] = v]
  BY <1>2, <1>3, <1>4, <1>6, <1>7, <1>9, RequestKeeps
<1>10. CASE hand' = [hand EXCEPT ![r] = AtRest]
  BY <1>2, <1>3, <1>7, <1>8, <1>10, RestIs, MoveToRest, RequestKeeps
<1> QED  BY <1>5, <1>9, <1>10

\* The device of a request that failed is taken back.
LEMMA UndoSteps ==
    ASSUME RegistryInvariant, NEW r \in Request, NEW out \in Outcome, Undo(r, out)
    PROVE  RegistryInvariant'
<1>1. /\ TypeOK /\ \A q \in Request : HandOK(q) /\ hand \in [Request -> Local]
      /\ hand[r] \in Local
  BY Parts DEF TypeOK
<1> DEFINE v == [hand[r] EXCEPT !.pc = "unprofile"]
<1>2. /\ v.pc = "unprofile" /\ v.dev = hand[r].dev /\ v \in Local
      /\ hand' = [hand EXCEPT ![r] = v]
  BY <1>1 DEF Undo, Goto, Local, Pc
<1>3. /\ UNCHANGED <<profile, drawn, grant, answered, held, asked, gone, guesses>>
      /\ Remove(hand[r].dev, out) /\ hand[r].pc = "undo"
  BY DEF Undo, ghosts
<1> HIDE DEF v
<1>4. hand[r].dev \in Device \cap drawn /\ hand[r].dev \notin answered
  BY <1>1, <1>3 DEF HandOK
<1>5. MoveOK(r, v)  BY <1>2, <1>3, <1>4 DEF MoveOK
<1>6. PICK d \in Device : d = hand[r].dev  BY <1>4
<1>7. d \notin Must'
  <2>1. hand'[r] = v /\ \A q \in Request \ {r} : hand'[q] = hand[q]  BY <1>1, <1>2
  <2>2. ASSUME NEW q \in Request \ {r}, Creating(q, d)' PROVE FALSE
    <3>1. hand[q].pc \in {"evict", "ensure", "profile"} /\ hand[q].dev = d
      BY <2>1, <2>2 DEF Creating
    <3> QED  BY <1>1, <1>3, <1>6, <3>1, NoneAssumption DEF HandOK
  <2>3. ~Creating(r, d)'  BY <1>2, <2>1 DEF Creating
  <2>4. \A q \in Request : ~Creating(q, d)'  BY <2>2, <2>3
  <2>5. d \notin answered'  BY <1>3, <1>4, <1>6
  <2> QED  BY <2>4, <2>5 DEF Must, Live
<1>8. asked \subseteq asked' /\ asked' \subseteq Device  BY <1>1, <1>3 DEF TypeOK
<1> QED  BY <1>2, <1>3, <1>5, <1>6, <1>7, <1>8, RevokerKeeps

LEMMA RevokeSteps ==
    ASSUME RegistryInvariant, NEW r \in Request, NEW d \in Device, NEW out \in Outcome,
           Revoke(r, d, out)
    PROVE  RegistryInvariant'
<1>1. /\ TypeOK /\ Outside /\ Agree(mem, disk, seen) /\ HandOK(r)
  BY Parts
<1>2. /\ UNCHANGED <<profile, drawn, grant, answered, held, gone, guesses>>
      /\ asked' = asked \cup {d} /\ Remove(d, out) /\ d \in seen /\ GateFree(d)
      /\ hand[r].pc = "idle"
  BY DEF Revoke, Idle
<1> DEFINE v == [AtRest EXCEPT !.pc = "revoked", !.old = d]
<1>3. v.pc = "revoked" /\ v.dev = NoDevice /\ v.old = d /\ v \in Local
  BY DEF AtRest, Local, Pc
<1>4. \/ hand' = [hand EXCEPT ![r] = v] /\ (out = "ok" \/ d \notin mem.devices)
      \/ hand' = [hand EXCEPT ![r] = AtRest]
  BY DEF Revoke, Return
<1> HIDE DEF v
<1>5. d \notin Must' /\ asked \subseteq asked' /\ asked' \subseteq Device
  BY <1>1, <1>2 DEF Must, TypeOK
<1>6. CASE hand' = [hand EXCEPT ![r] = v] /\ (out = "ok" \/ d \notin mem.devices)
  <2>1. d \notin mem'.devices /\ d \in seen'
    BY <1>1, <1>2, <1>6, WithoutIs DEF Remove, Swap, TypeOK
  <2>2. MoveOK(r, v)
    BY <1>2, <1>3, <2>1 DEF MoveOK, GateFree
  <2> QED  BY <1>2, <1>3, <1>5, <1>6, <2>2, RevokerKeeps
<1>7. CASE hand' = [hand EXCEPT ![r] = AtRest]
  <2>1. AtRest.pc = "idle"  BY DEF AtRest
  <2> QED  BY <1>2, <1>5, <1>7, <2>1, RestIs, MoveToRest, RevokerKeeps
<1> QED  BY <1>4, <1>6, <1>7

LEMMA EvictedSteps ==
    ASSUME RegistryInvariant, NEW r \in Request, NEW out \in Outcome, RevokeEvicted(r, out)
    PROVE  RegistryInvariant'
<1>1. /\ TypeOK /\ Outside /\ HandOK(r) /\ hand \in [Request -> Local] /\ hand[r] \in Local
      /\ mem \in Registry
  BY Parts DEF TypeOK
<1>2. /\ UNCHANGED <<profile, drawn, grant, answered, held, asked, gone, guesses>>
      /\ Remove(hand[r].old, out) /\ GateFree(hand[r].old) /\ hand[r].pc = "evict"
  BY DEF RevokeEvicted, ghosts
<1>3. /\ hand[r].dev \in Device \cap drawn /\ hand[r].dev \notin answered
      /\ hand[r].old \in seen /\ grant[hand[r].old] = "review" /\ grant[hand[r].dev] = "review"
  BY <1>1, <1>2 DEF HandOK
<1>4. PICK d \in Device : d = hand[r].old  BY <1>1, <1>3 DEF TypeOK
<1>5. PICK p \in {"revoked", "ensure"} :
          /\ hand' = [hand EXCEPT ![r].pc = p]
          /\ p = "revoked" => out = "ok" \/ d \notin mem.devices
  BY <1>4 DEF RevokeEvicted, Goto
<1> DEFINE v == [hand[r] EXCEPT !.pc = p]
<1>6. /\ v.pc = p /\ v.dev = hand[r].dev /\ v.old = d /\ v \in Local
      /\ hand' = [hand EXCEPT ![r] = v]
  BY <1>1, <1>4, <1>5 DEF Local, Pc
<1> HIDE DEF v
<1>7. MoveOK(r, v)
  <2>1. d \in seen'  BY <1>2, <1>3, <1>4 DEF Remove, Swap
  <2>2. p = "revoked" => d \notin mem'.devices
    BY <1>1, <1>2, <1>4, <1>5, WithoutIs DEF Remove, Swap
  <2>3. \A q \in Request \ {r} :
          ~(hand[q].pc \in {"profile", "renamed"} /\ hand[q].dev = d)
    BY <1>2, <1>4 DEF GateFree
  <2> QED  BY <1>2, <1>3, <1>5, <1>6, <2>1, <2>2, <2>3 DEF MoveOK
<1>8. d \notin Must'  BY <1>2, <1>3, <1>4 DEF Must
<1>9. Creating(r, v.dev)  BY <1>2, <1>6 DEF Creating
<1>10. asked \subseteq asked' /\ asked' \subseteq Device  BY <1>1, <1>2 DEF TypeOK
<1> QED  BY <1>2, <1>4, <1>6, <1>7, <1>8, <1>9, <1>10, RevokerKeeps

\* The revocation is over, and the request it made room for goes on.
LEMMA LeaveSteps ==
    ASSUME RegistryInvariant, NEW r \in Request, RevokeProfile(r) \/ RevokeFails(r)
    PROVE  RegistryInvariant'
<1>1. /\ TypeOK /\ Outside /\ HandOK(r) /\ hand \in [Request -> Local] /\ hand[r] \in Local
      /\ DevNow(mem) /\ DevNow(disk) /\ PairNow(mem) /\ PairNow(disk)
      /\ Agree(mem, disk, seen) /\ mem \in Registry /\ disk \in Registry
  BY Parts DEF TypeOK
<1>2. /\ UNCHANGED <<mem, disk, drawn, seen, grant, answered, held, asked, guesses>>
      /\ hand[r].pc = "revoked" /\ Leave(r)
      /\ \/ UNCHANGED <<profile, gone>>
         \/ profile' = profile \ {hand[r].old} /\ gone' = gone \cup {hand[r].old}
  BY DEF RevokeProfile, RevokeFails, registry, ghosts
<1>3. /\ hand[r].old \in Device /\ hand[r].old \in seen /\ hand[r].old \notin mem.devices
      /\ hand[r].dev # NoDevice =>
            /\ hand[r].dev \in Device /\ hand[r].dev \in drawn /\ hand[r].dev \notin answered
            /\ grant[hand[r].dev] = "review"
  BY <1>1, <1>2 DEF HandOK, Local, TypeOK
<1> DEFINE v == IF hand[r].dev = NoDevice THEN AtRest
                ELSE [hand[r] EXCEPT !.pc = "ensure", !.old = NoDevice]
<1>4. /\ hand' = [hand EXCEPT ![r] = v]
      /\ v \in Local
      /\ \/ v.pc = "idle" /\ v.dev = NoDevice
         \/ v.pc = "ensure" /\ v.dev = hand[r].dev /\ hand[r].dev # NoDevice
  <2>1. CASE hand[r].dev = NoDevice
    BY <1>2, <2>1, RestIs DEF Leave, Return, AtRest
  <2>2. CASE hand[r].dev # NoDevice
    BY <1>1, <1>2, <2>2 DEF Leave, Local, Pc
  <2> QED  BY <2>1, <2>2
<1> HIDE DEF v
<1>5. MoveOK(r, v)  BY <1>2, <1>3, <1>4 DEF MoveOK
<1>6. \A q \in Request : HandOK(q)'
  <2>1. OthersMayRely(r)  BY <1>2 DEF OthersMayRely
  <2> QED  BY <1>4, <1>5, <2>1, HandMoved
<1>7. /\ Must' \subseteq Must /\ SpentNow' \subseteq SpentNow
      /\ \A e \in SpentOn' :
            grant'[e] \in drawn' /\ \A f \in SpentOn' : grant'[f] = grant'[e] => f = e
  <2>1. v.pc \in {"evict", "ensure", "profile"} =>
            Creating(r, v.dev) \/ (v.dev \in drawn /\ grant[v.dev] = "review")
    BY <1>3, <1>4
  <2>2. \A e \in Device : Live(e)' => Live(e) \/ (e \in drawn /\ grant[e] = "review")
    BY <1>2, <1>4, <2>1, LiveMoved
  <2> QED  BY <1>2, <2>2, ApprovalsKept
<1>8. DevNext(mem') /\ DevNext(disk')
  <2>1. hand[r].old \notin disk.devices  BY <1>1, <1>3 DEF Agree
  <2>2. \A q \in {mem, disk} : gone' \cap q.devices = {}
    BY <1>1, <1>2, <1>3, <2>1 DEF DevNow, DevOK
  <2>3. \A q \in {mem, disk} : DevOK(q, drawn, grant, held, gone', Must')
    BY <1>1, <1>7, <2>2 DEF DevNow, DevOK
  <2> QED  BY <1>2, <2>3 DEF DevNext
<1>9. PairNext(mem') /\ PairNext(disk')
  <2>1. \A q \in {mem, disk} : PairOK(q, drawn, guesses, SpentNow')
    BY <1>1, <1>7 DEF PairNow, PairOK
  <2> QED  BY <1>2, <2>1 DEF PairNext
<1>10. TypeOK'
  <2>1. hand' \in [Request -> Local]  BY <1>1, <1>4
  <2> QED  BY <1>1, <1>2, <1>3, <2>1 DEF TypeOK
<1>11. Outside'
  BY <1>1, <1>2, <1>3, <1>7 DEF Outside, GuessesBounded
<1>12. Agree(mem', disk', seen')  BY <1>1, <1>2
<1> QED  BY <1>6, <1>8, <1>9, <1>10, <1>11, <1>12, Assembled

\* The session of a new device is answered.
LEMMA AnswerSteps ==
    ASSUME RegistryInvariant, NEW r \in Request, EnsureProfile(r)
    PROVE  RegistryInvariant'
<1>1. /\ TypeOK /\ Outside /\ HandOK(r) /\ hand \in [Request -> Local]
      /\ DevNow(mem) /\ DevNow(disk) /\ PairNow(mem) /\ PairNow(disk)
      /\ Agree(mem, disk, seen) /\ mem \in Registry /\ disk \in Registry
      /\ held \in [Device -> Nat]
  BY Parts DEF TypeOK
<1>2. /\ UNCHANGED <<mem, disk, drawn, seen, grant, asked, gone, guesses>>
      /\ hand[r].pc = "profile" /\ hand' = [hand EXCEPT ![r] = AtRest]
      /\ profile' = profile \cup {hand[r].dev} /\ answered' = answered \cup {hand[r].dev}
      /\ held' = [held EXCEPT ![hand[r].dev] = 1] \/ held' = held
  BY DEF EnsureProfile, Return, registry
<1>3. /\ hand[r].dev \in Device /\ hand[r].dev \in drawn /\ hand[r].dev \notin answered
      /\ hand[r].dev \notin gone
  BY <1>1, <1>2 DEF HandOK
<1>4. AtRest.pc = "idle"  BY DEF AtRest
<1>5. \A q \in Request : HandOK(q)'
  <2>1. OthersMayRely(r)  BY <1>2 DEF OthersMayRely
  <2> QED  BY <1>2, <2>1, RestIs, MoveToRest, HandMoved
<1>6. /\ Must' \subseteq Must /\ SpentNow' \subseteq SpentNow
      /\ \A e \in SpentOn' :
            grant'[e] \in drawn' /\ \A f \in SpentOn' : grant'[f] = grant'[e] => f = e
  <2>1. \A e \in Device : Live(e)' => Live(e) \/ (e \in drawn /\ grant[e] = "review")
    BY <1>2, <1>4, RestIs, LiveMoved
  <2> QED  BY <1>2, <2>1, ApprovalsKept
<1>7. /\ held[hand[r].dev] = 0 /\ held' \in [Device -> Nat]
      /\ held'[hand[r].dev] \in {0, 1}
      /\ \A e \in Device : e # hand[r].dev => held'[e] = held[e]
  BY <1>1, <1>2, <1>3 DEF Outside
<1>8. DevNext(mem') /\ DevNext(disk')
  <2>1. ASSUME NEW q \in Registry, DevNow(q) PROVE DevOK(q, drawn, grant, held', gone, Must')
    <3>1. ASSUME NEW e \in q.devices PROVE q.token[e] \in {held'[e], held'[e] + 1} \ {0}
      <4>1. q.token[e] \in {held[e], held[e] + 1} \ {0} /\ e \in Device
        BY <2>1 DEF DevNow, DevOK, Registry
      <4>2. CASE e = hand[r].dev  BY <1>7, <4>1, <4>2
      <4>3. CASE e # hand[r].dev  BY <1>7, <4>1, <4>3
      <4> QED  BY <4>2, <4>3
    <3> QED  BY <1>6, <2>1, <3>1 DEF DevNow, DevOK
  <2> QED  BY <1>1, <1>2, <2>1 DEF DevNext
<1>9. PairNext(mem') /\ PairNext(disk')
  <2>1. \A q \in {mem, disk} : PairOK(q, drawn, guesses, SpentNow')
    BY <1>1, <1>6 DEF PairNow, PairOK
  <2> QED  BY <1>2, <2>1 DEF PairNext
<1>10. TypeOK'
  <2>1. hand' \in [Request -> Local]  BY <1>1, <1>2, RestIs
  <2> QED  BY <1>1, <1>2, <1>3, <1>7, <2>1 DEF TypeOK
<1>11. Outside'
  <2>1. \A d \in Device : held'[d] > 0 => d \in answered'
    BY <1>1, <1>2, <1>7 DEF Outside
  <2> QED  BY <1>1, <1>2, <1>3, <1>6, <2>1 DEF Outside, GuessesBounded
<1>12. Agree(mem', disk', seen')  BY <1>1, <1>2
<1> QED  BY <1>5, <1>8, <1>9, <1>10, <1>11, <1>12, Assembled

\* The process dies and comes back with the file.
LEMMA CrashStep ==
    ASSUME RegistryInvariant, Crash
    PROVE  RegistryInvariant'
<1>1. /\ TypeOK /\ Outside /\ DevNow(disk) /\ PairNow(disk) /\ disk \in Registry
  BY Parts DEF TypeOK
<1>2. /\ mem' = disk /\ disk' = disk /\ hand' = [q \in Request |-> AtRest]
      /\ seen' = seen \cup disk.devices
      /\ UNCHANGED <<drawn, profile, grant, answered, held, asked, gone, guesses>>
  BY DEF Crash, Restarted, ghosts
<1>3. \A q \in Request : HandOK(q)'
  BY <1>2 DEF HandOK, AtRest
<1>4. /\ Must' \subseteq Must /\ SpentNow' \subseteq SpentNow
      /\ \A e \in SpentOn' :
            grant'[e] \in drawn' /\ \A f \in SpentOn' : grant'[f] = grant'[e] => f = e
  <2>1. \A e \in Device, q \in Request : ~Creating(q, e)'
    BY <1>2 DEF Creating, AtRest
  <2>2. \A e \in Device : Live(e)' => Live(e) \/ (e \in drawn /\ grant[e] = "review")
    BY <1>2, <2>1 DEF Live
  <2> QED  BY <1>2, <2>2, ApprovalsKept
<1>5. DevNext(mem') /\ DevNext(disk')
  <2>1. DevOK(disk, drawn, grant, held, gone, Must')
    BY <1>1, <1>4 DEF DevNow, DevOK
  <2> QED  BY <1>2, <2>1 DEF DevNext
<1>6. PairNext(mem') /\ PairNext(disk')
  <2>1. PairOK(disk, drawn, guesses, SpentNow')
    BY <1>1, <1>4 DEF PairNow, PairOK
  <2> QED  BY <1>2, <2>1 DEF PairNext
<1>7. Agree(mem', disk', seen')
  BY <1>1, <1>2 DEF Agree, Registry
<1>8. TypeOK'
  <2>1. disk.devices \subseteq Device  BY <1>1 DEF Registry
  <2> QED  BY <1>1, <1>2, <2>1, RestIs DEF TypeOK
<1>9. Outside'
  <2>1. seen' \subseteq drawn  BY <1>1, <1>2 DEF Outside, DevNow, DevOK
  <2> QED  BY <1>1, <1>2, <1>4, <2>1 DEF Outside, GuessesBounded
<1> QED  BY <1>3, <1>5, <1>6, <1>7, <1>8, <1>9, Assembled

-----------------------------------------------------------------------------
(* A device is created.                                                    *)

\* A device is added, as an ordinary or as a review device.
LEMMA DevAdded ==
    ASSUME RegistryInvariant, NEW r \in Registry, NEW n \in Registry, DevNow(r),
           NEW d \in Device, d \notin drawn, drawn' = drawn \cup {d},
           NEW a \in Approval, grant' = [grant EXCEPT ![d] = a],
           n.devices = r.devices \cup {d}, n.prev = r.prev,
           n.token = [r.token EXCEPT ![d] = 1], HasRoom(r),
           \/ n.review = r.review
           \/ /\ n.review = r.review \cup {d} /\ a = "review"
              /\ DeviceLimit > 1 => Cardinality(r.review) + 1 < DeviceLimit
    PROVE  DevOK(n, drawn', grant', held, gone, Must \cup {d})
<1>0. /\ held[d] = 0 /\ gone \subseteq drawn /\ grant'[d] = a
      /\ \A e \in r.devices : e # d /\ grant'[e] = grant[e]
  <2>1. TypeOK /\ Outside  BY Parts
  <2>2. grant'[d] = a /\ \A e \in Device : e # d => grant'[e] = grant[e]  BY <2>1 DEF TypeOK
  <2>3. d \notin answered /\ held[d] = 0 /\ gone \subseteq drawn
    BY <2>1 DEF Outside, TypeOK
  <2>4. r.devices \subseteq Device /\ d \notin r.devices  BY DEF DevNow, DevOK, Registry
  <2> QED  BY <2>2, <2>3, <2>4
<1>1. /\ Cardinality(n.devices) = Cardinality(r.devices) + 1 /\ Cardinality(r.devices) \in Nat
      /\ Cardinality(r.review) <= Cardinality(r.devices) /\ Cardinality(r.review) \in Nat
      /\ Cardinality(r.review \cup {d}) = Cardinality(r.review) + 1
  <2>1. d \notin r.devices /\ d \notin r.review /\ r.devices \in SUBSET Device
            /\ r.review \in SUBSET r.devices
    BY DEF DevNow, DevOK, Registry
  <2>2. /\ IsFiniteSet(r.devices) /\ IsFiniteSet(r.review) /\ Cardinality(r.devices) \in Nat
        /\ Cardinality(r.review) \in Nat /\ Cardinality(r.review) <= Cardinality(r.devices)
    BY <2>1, Subsets
  <2>3. r.review \in SUBSET Device  BY <2>1
  <2> QED  BY <2>1, <2>2, <2>3, OneMore
<1>2. Bounded(n)
  <2>1. Cardinality(r.devices) < DeviceLimit
    BY DEF HasRoom
  <2>2. ASSUME DeviceLimit > 1 PROVE Cardinality(n.review) < DeviceLimit
    <3>1. CASE n.review = r.review  BY <2>2, <3>1 DEF DevNow, DevOK, Bounded
    <3>2. CASE n.review = r.review \cup {d} /\ Cardinality(r.review) + 1 < DeviceLimit
      BY <1>1, <3>2
    <3> QED  BY <2>2, <3>1, <3>2
  <2> QED  BY <1>1, <2>1, <2>2, LimitAssumption DEF Bounded
<1>3. \A e \in n.devices : n.token[e] \in {held[e], held[e] + 1} \ {0}
  <2>1. n.token[d] = 1  BY DEF Registry
  <2>2. \A e \in r.devices : n.token[e] = r.token[e]  BY <1>0 DEF Registry
  <2> QED  BY <1>0, <2>1, <2>2 DEF DevNow, DevOK
<1>4. /\ n.devices \subseteq drawn' /\ n.review \subseteq n.devices /\ n.prev \subseteq n.devices
      /\ \A e \in n.review : grant'[e] = "review"
      /\ n.devices \cap gone = {} /\ (Must \cup {d}) \subseteq n.devices
  BY <1>0 DEF DevNow, DevOK
<1> QED  BY <1>2, <1>3, <1>4 DEF DevOK

\* a is an approval nobody used, or no approval that is used once.
Unused(a) == a \in Code \cup Link => a \in drawn /\ a \notin SpentNow

Spends(a, out) == IF out = "ok" THEN {a} \cap (Code \cup Link) ELSE {}
\* r creates d for a: new is written, and r goes on at v when that went well.
Admits(r, d, a, new, v, out) ==
    /\ d \notin drawn /\ Unused(a) /\ hand[r].pc \in {"idle", "approved"}
    /\ drawn' = drawn \cup {d} /\ grant' = [grant EXCEPT ![d] = a]
    /\ UNCHANGED <<profile, answered, held, asked, gone, guesses>>
    /\ hand' = [hand EXCEPT ![r] = IF out = "ok" THEN v ELSE AtRest]
    /\ v.dev = d /\ v.pc \in {"ensure", "evict"}
    /\ v.pc = "evict" => v.old \in seen /\ grant[v.old] = "review" /\ a = "review"
    /\ \/ Swap(new, out)
       \/ InPlace(new, out) /\ mem.devices \subseteq new.devices
    /\ new.devices \subseteq mem.devices \cup {d}
    /\ \A e \in Device : e # d => new.token[e] = mem.token[e]
    /\ DevOK(new, drawn', grant', held, gone, Must \cup {d})
    /\ PairOK(new, drawn', guesses, SpentNow \cup Spends(a, out))

LEMMA AdmitKeeps ==
    ASSUME RegistryInvariant, NEW r \in Request, NEW v \in Local, NEW out \in Outcome,
           NEW d \in Device, NEW a \in Approval, NEW new \in Registry,
           Admits(r, d, a, new, v, out)
    PROVE  RegistryInvariant'
<1> USE DEF Admits
<1>1. /\ TypeOK /\ Outside /\ hand \in [Request -> Local] /\ grant \in [Device -> Approval]
      /\ DevNow(mem) /\ DevNow(disk) /\ PairNow(mem) /\ PairNow(disk)
      /\ Agree(mem, disk, seen) /\ mem \in Registry /\ disk \in Registry
  BY Parts DEF TypeOK
<1>2. /\ out = "ok" => mem' = new /\ disk' = new
      /\ mem' \in {mem, new} /\ disk' \in {disk, new} /\ seen' = seen \cup mem'.devices
      /\ mem' = new => disk' = new \/ (disk' = disk /\ mem.devices \subseteq new.devices)
      /\ mem' = mem \/ mem' = new
  BY DEF Swap, InPlace, Write, Outcome
<1>3. grant'[d] = a /\ \A e \in Device : e # d => grant'[e] = grant[e]
  BY <1>1
<1>4. mem'.devices \cap seen \subseteq mem.devices
  BY <1>1, <1>2 DEF Outside
<1>5. DEFINE w == IF out = "ok" THEN v ELSE AtRest
<1>6. w \in Local /\ hand' = [hand EXCEPT ![r] = w]  BY RestIs
<1>7. MoveOK(r, w)
  <2>1. CASE out = "ok"
    <3>1. v.pc = "evict" => v.old \in Device /\ v.old # d  BY <1>1 DEF Outside, TypeOK
    <3>2. d \notin answered  BY <1>1 DEF Outside
    <3>3. v.pc = "evict" => v.old \in seen' /\ grant'[v.old] = "review" /\ grant'[v.dev] = "review"
      BY <1>2, <1>3, <3>1
    <3>4. MoveOK(r, v)  BY <3>2, <3>3 DEF MoveOK
    <3> QED  BY <2>1, <3>4
  <2>2. CASE out # "ok"  BY <2>2, MoveToRest
  <2> QED  BY <2>1, <2>2
<1>8. \A q \in Request : HandOK(q)'
  <2>1. OthersMayRely(r)  BY <1>2, <1>3, <1>4 DEF OthersMayRely
  <2> HIDE DEF w
  <2> QED  BY <1>6, <1>7, <2>1, HandMoved
<1>9. ASSUME NEW e \in Device, Live(e)' PROVE Live(e) \/ (out = "ok" /\ e = d)
  <2> HIDE DEF w
  <2>1. hand'[r] = w /\ \A q \in Request \ {r} : hand'[q] = hand[q]  BY <1>1, <1>6
  <2>2. CASE e \in answered'  BY <2>2 DEF Live
  <2>3. ASSUME NEW q \in Request, Creating(q, e)' PROVE Live(e) \/ (out = "ok" /\ e = d)
    <3>1. CASE q = r
      BY <2>1, <2>3, <3>1 DEF Creating, w, AtRest
    <3>2. CASE q # r
      <4>1. Creating(q, e)  BY <2>1, <2>3, <3>2 DEF Creating
      <4> QED  BY <4>1 DEF Live
    <3> QED  BY <3>1, <3>2
  <2> QED  BY <1>9, <2>2, <2>3 DEF Live
<1>10. /\ Must' \subseteq Must \cup (IF out = "ok" THEN {d} ELSE {})
       /\ SpentNow' \subseteq SpentNow \cup Spends(a, out)
       /\ \A e \in SpentOn' :
             grant'[e] \in drawn' /\ \A f \in SpentOn' : grant'[f] = grant'[e] => f = e
  <2>1. \A e \in Device : Live(e) => e # d /\ grant'[e] = grant[e]
    BY <1>3, LiveDrawn
  <2>2. Must' \subseteq Must \cup (IF out = "ok" THEN {d} ELSE {})
    BY <1>9, <2>1 DEF Must
  <2>3. \A e \in SpentOn' : \/ e \in SpentOn /\ grant'[e] = grant[e]
                            \/ out = "ok" /\ e = d /\ grant'[e] = a /\ a \in Code \cup Link
    BY <1>3, <1>9, <2>1 DEF SpentOn
  <2>4. SpentNow' \subseteq SpentNow \cup Spends(a, out)
    BY <2>3 DEF SpentNow, Spends
  <2>5. ASSUME NEW e \in SpentOn'
        PROVE  grant'[e] \in drawn' /\ \A f \in SpentOn' : grant'[f] = grant'[e] => f = e
    <3>1. \A f \in SpentOn : grant[f] \in drawn /\ grant[f] \in SpentNow
      BY <1>1 DEF Outside, SpentNow
    <3>2. \A f \in SpentOn : \A g \in SpentOn : grant[g] = grant[f] => g = f
      BY <1>1 DEF Outside
    <3>3. a \in Code \cup Link => a \in drawn /\ a \notin SpentNow  BY DEF Unused
    <3> QED  BY <2>3, <2>5, <3>1, <3>2, <3>3
  <2> QED  BY <2>2, <2>4, <2>5
<1>11. DevNext(mem') /\ DevNext(disk')
  <2>1. DevOK(new, drawn', grant', held, gone, Must')
    BY <1>10 DEF DevOK
  <2>2. ASSUME out # "ok", NEW q \in Registry, DevNow(q)
        PROVE  DevOK(q, drawn', grant', held, gone, Must')
    <3>1. \A e \in q.devices : grant'[e] = grant[e]
      BY <1>3, <2>2 DEF DevNow, DevOK, Registry
    <3> QED  BY <1>10, <2>2, <3>1 DEF DevNow, DevOK
  <2> QED  BY <1>1, <1>2, <2>1, <2>2 DEF DevNext
<1>12. PairNext(mem') /\ PairNext(disk')
  <2>1. PairOK(new, drawn', guesses, SpentNow')
    BY <1>10 DEF PairOK
  <2>2. ASSUME out # "ok", NEW q \in Registry, PairNow(q)
        PROVE  PairOK(q, drawn', guesses, SpentNow')
    BY <1>10, <2>2 DEF PairNow, PairOK, Spends
  <2> QED  BY <1>1, <1>2, <2>1, <2>2 DEF PairNext
<1>13. Agree(mem', disk', seen')
  <2>1. \A e \in Device : /\ mem.token[e] <= mem.token[e]
                          /\ new.token[e] <= new.token[e]
    BY <1>1 DEF Registry
  <2>2. d \notin mem.devices /\ d \notin disk.devices /\ d \notin seen
    BY <1>1 DEF Outside, DevNow, DevOK
  <2>3. mem.devices \subseteq Device /\ disk.devices \subseteq Device /\ new.devices \subseteq Device
    BY <1>1 DEF Registry
  <2>4. CASE mem' = new /\ disk' = new  BY <1>2, <2>1, <2>3, <2>4 DEF Agree
  <2>5. CASE mem' = new /\ disk' = disk /\ mem.devices \subseteq new.devices
    BY <1>1, <1>2, <2>2, <2>3, <2>5 DEF Agree
  <2>6. CASE mem' = mem /\ disk' = disk  BY <1>1, <1>2, <2>6 DEF Agree
  <2>7. CASE mem' = mem /\ disk' = new
    BY <1>1, <1>2, <2>1, <2>2, <2>3, <2>7 DEF Agree
  <2> QED  BY <1>2, <2>4, <2>5, <2>6, <2>7
<1>14. TypeOK'
  <2>1. hand' \in [Request -> Local]  BY <1>1, <1>6
  <2>2. mem' \in Registry /\ disk' \in Registry  BY <1>1, <1>2
  <2>3. seen' \subseteq Device  BY <1>1, <1>2, <2>2 DEF TypeOK, Registry
  <2>4. grant' \in [Device -> Approval]  BY <1>1
  <2> QED  BY <1>1, <2>1, <2>2, <2>3, <2>4 DEF TypeOK
<1>15. Outside'
  <2>1. seen' \subseteq drawn'
    BY <1>1, <1>2, <1>11 DEF Outside, DevNext, DevOK
  <2> QED  BY <1>1, <1>10, <2>1 DEF Outside, GuessesBounded
<1> QED  BY <1>8, <1>11, <1>12, <1>13, <1>14, <1>15, Assembled


LEMMA RedeemPairingKeeps ==
    ASSUME RegistryInvariant, NEW r \in Request, NEW d \in Device, NEW out \in Outcome,
           RedeemPairing(r, d, out)
    PROVE  RegistryInvariant'
<1>1. /\ TypeOK /\ DevNow(mem) /\ PairNow(mem) /\ mem \in Registry
  BY Parts DEF TypeOK
<1>2. PICK a \in Approval : a = mem.code /\ a \in Code /\ a # NoCode
  BY <1>1 DEF RedeemPairing, Registry, Approval
<1> DEFINE base == With(mem, d)
           new == NoPairing(base)
           v == [AtRest EXCEPT !.pc = "ensure", !.dev = d]
<1>3. /\ hand[r].pc = "idle" /\ d \notin drawn /\ HasRoom(mem)
      /\ InPlace(new, out) /\ drawn' = drawn \cup {d} /\ grant' = [grant EXCEPT ![d] = a]
      /\ hand' = [hand EXCEPT ![r] = IF out = "ok" THEN v ELSE AtRest]
      /\ UNCHANGED <<profile, answered, held, asked, gone, guesses>>
  BY <1>2 DEF RedeemPairing, Admit, Idle, Fresh, Return
<1>4. v \in Local /\ v.pc = "ensure" /\ v.dev = d  BY DEF AtRest, Local, Pc
<1>5. /\ base \in Registry /\ SamePairing(base, mem)
      /\ base.devices = mem.devices \cup {d} /\ base.review = mem.review /\ base.prev = mem.prev
      /\ base.token = [mem.token EXCEPT ![d] = 1]
  BY <1>1, WithIs
<1> HIDE DEF base
<1>6. /\ new \in Registry /\ SameDevices(new, base)
      /\ new.code = NoCode /\ new.link = mem.link /\ new.linkMisses = mem.linkMisses
  <2>1. new = [base EXCEPT !.code = NoCode, !.misses = 0]  BY DEF NoPairing
  <2> HIDE DEF new
  <2> QED  BY <1>5, <2>1, CodeIs DEF SamePairing
<1> HIDE DEF new, v
<1>7. Unused(a)  BY <1>1, <1>2 DEF Unused, PairNow, PairOK
<1>8. DevOK(base, drawn', grant', held, gone, Must \cup {d})
  BY <1>1, <1>3, <1>5, DevAdded
<1>9. DevOK(new, drawn', grant', held, gone, Must \cup {d})
  <2>1. Bounded(new)  BY <1>5, <1>6, <1>8, Fewer DEF DevOK, SameDevices
  <2> QED  BY <1>6, <1>8, <2>1 DEF DevOK, SameDevices
<1>10. PairOK(new, drawn', guesses, SpentNow \cup Spends(a, out))
  <2>1. a \notin Link /\ NoCode \notin SpentNow \cup {a}
    BY <1>2, ApprovalAssumption, NoneAssumption DEF SpentNow, SpentOn
  <2> QED  BY <1>1, <1>3, <1>6, <2>1 DEF PairNow, PairOK, Spends
<1>11. /\ new.devices \subseteq mem.devices \cup {d} /\ mem.devices \subseteq new.devices
       /\ \A e \in Device : e # d => new.token[e] = mem.token[e]
  BY <1>1, <1>5, <1>6 DEF SameDevices, Registry
<1>12. Admits(r, d, a, new, v, out)
  BY <1>3, <1>4, <1>7, <1>9, <1>10, <1>11 DEF Admits
<1> QED  BY <1>4, <1>6, <1>12, AdmitKeeps

LEMMA RedeemLinkKeeps ==
    ASSUME RegistryInvariant, NEW r \in Request, NEW d \in Device, NEW out \in Outcome,
           RedeemLink(r, d, out)
    PROVE  RegistryInvariant'
<1>1. /\ TypeOK /\ DevNow(mem) /\ PairNow(mem) /\ mem \in Registry /\ HandOK(r)
  BY Parts DEF TypeOK
<1>2. PICK l \in Link : l = hand[r].link
  BY <1>1 DEF RedeemLink, HandOK
<1> DEFINE base == With(mem, d)
           new == [base EXCEPT !.link[l] = "absent", !.linkMisses[l] = 0]
           v == [AtRest EXCEPT !.pc = "ensure", !.dev = d]
<1>3. /\ hand[r].pc = "approved" /\ d \notin drawn /\ HasRoom(mem) /\ mem.link[l] = "approved"
      /\ Swap(new, out) /\ drawn' = drawn \cup {d} /\ grant' = [grant EXCEPT ![d] = l]
      /\ hand' = [hand EXCEPT ![r] = IF out = "ok" THEN v ELSE AtRest]
      /\ UNCHANGED <<profile, answered, held, asked, gone, guesses>>
  BY <1>2 DEF RedeemLink, Admit, Fresh, Return
<1>4. v \in Local /\ v.pc = "ensure" /\ v.dev = d  BY DEF AtRest, Local, Pc
<1>5. /\ base \in Registry /\ SamePairing(base, mem)
      /\ base.devices = mem.devices \cup {d} /\ base.review = mem.review /\ base.prev = mem.prev
      /\ base.token = [mem.token EXCEPT ![d] = 1]
  BY <1>1, WithIs
<1> HIDE DEF base
<1>6. /\ new \in Registry /\ new.code = base.code /\ new.misses = base.misses
      /\ new.link = [base.link EXCEPT ![l] = "absent"]
      /\ new.linkMisses = [base.linkMisses EXCEPT ![l] = 0]
      /\ new.devices = base.devices /\ new.review = base.review /\ new.token = base.token
      /\ new.prev = base.prev
  BY <1>5, LinkOverIs
<1> HIDE DEF new, v
<1>7. Unused(l) /\ l \in Approval
  BY <1>1, <1>3 DEF PairNow, PairOK, Approval, Unused
<1>8. DevOK(new, drawn', grant', held, gone, Must \cup {d})
  BY <1>1, <1>3, <1>5, <1>6, <1>7, DevAdded
<1>9. PairOK(new, drawn', guesses, SpentNow \cup Spends(l, out))
  <2>1. /\ new.link[l] = "absent" /\ new.linkMisses[l] = 0
        /\ \A k \in Link : k # l => new.link[k] = mem.link[k] /\ new.linkMisses[k] = mem.linkMisses[k]
        /\ new.code = mem.code /\ new.misses = mem.misses
    BY <1>1, <1>5, <1>6 DEF Registry, SamePairing
  <2>2. new.code # l  BY <1>1, <2>1, ApprovalAssumption, NoneAssumption DEF Registry
  <2> QED  BY <1>1, <1>3, <2>1, <2>2 DEF PairNow, PairOK, Spends
<1>10. /\ new.devices \subseteq mem.devices \cup {d}
       /\ \A e \in Device : e # d => new.token[e] = mem.token[e]
  BY <1>1, <1>5, <1>6 DEF Registry
<1>11. Admits(r, d, l, new, v, out)
  BY <1>3, <1>4, <1>7, <1>8, <1>9, <1>10 DEF Admits
<1> QED  BY <1>4, <1>6, <1>7, <1>11, AdmitKeeps

LEMMA CreateHostedKeeps ==
    ASSUME RegistryInvariant, NEW r \in Request, NEW d \in Device, NEW out \in Outcome,
           CreateHosted(r, d, out)
    PROVE  RegistryInvariant'
<1>1. /\ TypeOK /\ DevNow(mem) /\ PairNow(mem) /\ mem \in Registry
  BY Parts DEF TypeOK
<1> DEFINE new == With(mem, d)
           v == [AtRest EXCEPT !.pc = "ensure", !.dev = d]
<1>2. /\ hand[r].pc = "idle" /\ d \notin drawn /\ HasRoom(mem)
      /\ InPlace(new, out) /\ drawn' = drawn \cup {d} /\ grant' = [grant EXCEPT ![d] = "hosted"]
      /\ hand' = [hand EXCEPT ![r] = IF out = "ok" THEN v ELSE AtRest]
      /\ UNCHANGED <<profile, answered, held, asked, gone, guesses>>
  BY DEF CreateHosted, Admit, Idle, Fresh, Return
<1>3. v \in Local /\ v.pc = "ensure" /\ v.dev = d  BY DEF AtRest, Local, Pc
<1>4. /\ new \in Registry /\ SamePairing(new, mem)
      /\ new.devices = mem.devices \cup {d} /\ new.review = mem.review /\ new.prev = mem.prev
      /\ new.token = [mem.token EXCEPT ![d] = 1]
  BY <1>1, WithIs
<1> HIDE DEF new, v
<1>5. "hosted" \in Approval /\ "hosted" \notin Code \cup Link
  BY ApprovalAssumption DEF Approval
<1>6. DevOK(new, drawn', grant', held, gone, Must \cup {d})
  BY <1>1, <1>2, <1>4, <1>5, DevAdded
<1>7. PairOK(new, drawn', guesses, SpentNow \cup Spends("hosted", out))
  <2>1. Spends("hosted", out) = {}  BY <1>5 DEF Spends
  <2> QED  BY <1>1, <1>2, <1>4, <2>1 DEF PairNow, PairOK, SamePairing
<1>8. /\ new.devices \subseteq mem.devices \cup {d} /\ mem.devices \subseteq new.devices
      /\ \A e \in Device : e # d => new.token[e] = mem.token[e]
  BY <1>1, <1>4 DEF Registry
<1>9. Admits(r, d, "hosted", new, v, out)
  <2>1. Unused("hosted")  BY <1>5 DEF Unused
  <2> QED  BY <1>2, <1>3, <1>6, <1>7, <1>8, <2>1 DEF Admits
<1> QED  BY <1>3, <1>4, <1>5, <1>9, AdmitKeeps

LEMMA CreateReviewKeeps ==
    ASSUME RegistryInvariant, NEW r \in Request, NEW d \in Device, NEW out \in Outcome,
           CreateReview(r, d, out)
    PROVE  RegistryInvariant'
<1>1. /\ TypeOK /\ Outside /\ DevNow(mem) /\ PairNow(mem) /\ mem \in Registry
      /\ Agree(mem, disk, seen)
  BY Parts DEF TypeOK
<1>2. /\ Cardinality(mem.devices) \in Nat /\ Cardinality(mem.review) \in Nat
      /\ Cardinality(mem.review) <= Cardinality(mem.devices)
      /\ IsFiniteSet(mem.devices) /\ IsFiniteSet(mem.review)
  BY <1>1, Subsets DEF DevNow, DevOK, Registry
<1>3. "review" \in Approval /\ Unused("review") /\ Spends("review", out) = {}
  BY ApprovalAssumption DEF Approval, Unused, Spends
<1> DEFINE added(base) == [With(base, d) EXCEPT !.review = @ \cup {d}]
<1>4. ASSUME NEW base \in Registry, DevNow(base), PairNow(base), HasRoom(base),
             DeviceLimit > 1 => Cardinality(base.review) + 1 < DeviceLimit,
             base.devices \subseteq mem.devices, base.token = mem.token,
             NEW v \in Local, v.dev = d, v.pc \in {"ensure", "evict"},
             v.pc = "evict" => v.old \in seen /\ grant[v.old] = "review",
             hand[r].pc = "idle", d \notin drawn, Swap(added(base), out),
             drawn' = drawn \cup {d}, grant' = [grant EXCEPT ![d] = "review"],
             hand' = [hand EXCEPT ![r] = IF out = "ok" THEN v ELSE AtRest],
             UNCHANGED <<profile, answered, held, asked, gone, guesses>>
      PROVE  RegistryInvariant'
  <2> DEFINE with == With(base, d)
             new == added(base)
  <2>1. /\ with \in Registry /\ SamePairing(with, base)
        /\ with.devices = base.devices \cup {d} /\ with.review = base.review
        /\ with.prev = base.prev /\ with.token = [base.token EXCEPT ![d] = 1]
    BY <1>4, WithIs
  <2> HIDE DEF with
  <2>2. /\ new \in Registry /\ SamePairing(new, with)
        /\ new.devices = with.devices /\ new.review = with.review \cup {d}
        /\ new.prev = with.prev /\ new.token = with.token
    <3>1. new = [with EXCEPT !.review = @ \cup {d}]  BY DEF with
    <3> HIDE DEF new
    <3> QED  BY <2>1, <3>1, ReviewIs
  <2>3. Swap(new, out)  BY <1>4
  <2> HIDE DEF new
  <2>4. DevOK(new, drawn', grant', held, gone, Must \cup {d})
    BY <1>3, <1>4, <2>1, <2>2, DevAdded
  <2>5. PairOK(new, drawn', guesses, SpentNow \cup Spends("review", out))
    BY <1>3, <1>4, <2>1, <2>2 DEF PairNow, PairOK, SamePairing
  <2>6. /\ new.devices \subseteq mem.devices \cup {d}
        /\ \A e \in Device : e # d => new.token[e] = mem.token[e]
    BY <1>1, <1>4, <2>1, <2>2 DEF Registry
  <2>7. Admits(r, d, "review", new, v, out)
    BY <1>3, <1>4, <2>3, <2>4, <2>5, <2>6 DEF Admits
  <2> QED  BY <1>3, <1>4, <2>2, <2>7, AdmitKeeps
<1>5. hand[r].pc = "idle" /\ d \notin drawn  BY DEF CreateReview, Idle, Fresh
<1>6. CASE /\ Cardinality(mem.devices) < ReviewCapacity
           /\ Swap(added(mem), out) /\ Admit(r, d, "review", out)
  <2> DEFINE v == [AtRest EXCEPT !.pc = "ensure", !.dev = d]
  <2>1. v \in Local /\ v.pc = "ensure" /\ v.dev = d  BY DEF AtRest, Local, Pc
  <2>2. /\ drawn' = drawn \cup {d} /\ grant' = [grant EXCEPT ![d] = "review"]
        /\ hand' = [hand EXCEPT ![r] = IF out = "ok" THEN v ELSE AtRest]
        /\ UNCHANGED <<profile, answered, held, asked, gone, guesses>>
    BY <1>6 DEF Admit, Return
  <2> HIDE DEF v
  <2>3. HasRoom(mem) /\ (DeviceLimit > 1 => Cardinality(mem.review) + 1 < DeviceLimit)
    BY <1>2, <1>6, LimitAssumption DEF HasRoom, ReviewCapacity
  <2> HIDE DEF added
  <2> QED  BY <1>1, <1>4, <1>5, <1>6, <2>1, <2>2, <2>3
<1>7. ASSUME NEW e \in Evictable(mem), Swap(added(Without(mem, e)), out),
             drawn' = drawn \cup {d}, grant' = [grant EXCEPT ![d] = "review"],
             IF out = "ok"
             THEN hand' = [hand EXCEPT ![r] = [AtRest EXCEPT !.pc = "evict", !.dev = d, !.old = e]]
             ELSE Return(r),
             UNCHANGED <<profile, answered, held, asked, gone, guesses>>
      PROVE  RegistryInvariant'
  <2> DEFINE v == [AtRest EXCEPT !.pc = "evict", !.dev = d, !.old = e]
             base == Without(mem, e)
  <2>1. /\ e \in mem.review /\ e \in mem.devices /\ e \in Device /\ e \in seen
        /\ grant[e] = "review"
    BY <1>1, <1>7 DEF Evictable, DevNow, DevOK, Registry, Agree
  <2>2. v \in Local /\ v.pc = "evict" /\ v.dev = d /\ v.old = e
    BY <2>1 DEF AtRest, Local, Pc
  <2>3. hand' = [hand EXCEPT ![r] = IF out = "ok" THEN v ELSE AtRest]
    BY <1>7 DEF Return
  <2>4. /\ base \in Registry /\ SamePairing(base, mem) /\ base.token = mem.token
        /\ base.devices = mem.devices \ {e} /\ base.review = mem.review \ {e}
        /\ base.prev = mem.prev \ {e}
    BY <1>1, <2>1, WithoutIs
  <2>5. Swap(added(base), out)  BY <1>7
  <2> HIDE DEF v, base, added
  <2>6. Must \subseteq Must \ {e}  BY <2>1 DEF Must
  <2>7. DevNow(base)
    BY <1>1, <2>1, <2>4, <2>6, DevRemoved DEF DevNow
  <2>8. PairNow(base)  BY <1>1, <2>4 DEF PairNow, PairOK, SamePairing
  <2>9. HasRoom(base) /\ (DeviceLimit > 1 => Cardinality(base.review) + 1 < DeviceLimit)
    <3>1. /\ Cardinality(base.devices) = Cardinality(mem.devices) - 1
          /\ Cardinality(base.review) = Cardinality(mem.review) - 1
      <4>1. mem.devices \in SUBSET Device /\ mem.review \in SUBSET Device
        BY <1>1 DEF Registry
      <4> QED  BY <2>1, <2>4, <4>1, OneLess
    <3>2. /\ Cardinality(mem.devices) <= DeviceLimit
          /\ DeviceLimit > 1 => Cardinality(mem.review) < DeviceLimit
      BY <1>1 DEF DevNow, DevOK, Bounded
    <3> QED  BY <1>2, <3>1, <3>2, LimitAssumption DEF HasRoom
  <2>10. base.devices \subseteq mem.devices  BY <2>4
  <2> QED
    BY <1>4, <1>5, <1>7, <2>1, <2>2, <2>3, <2>4, <2>5, <2>7, <2>8, <2>9, <2>10
<1> HIDE DEF added
<1> QED
  <2>1. \/ /\ Cardinality(mem.devices) < ReviewCapacity
           /\ Swap(added(mem), out) /\ Admit(r, d, "review", out)
        \/ \E e \in Evictable(mem) :
              /\ Swap(added(Without(mem, e)), out)
              /\ drawn' = drawn \cup {d} /\ grant' = [grant EXCEPT ![d] = "review"]
              /\ IF out = "ok"
                 THEN hand' = [hand EXCEPT ![r] =
                          [AtRest EXCEPT !.pc = "evict", !.dev = d, !.old = e]]
                 ELSE Return(r)
              /\ UNCHANGED <<profile, answered, held, asked, gone, guesses>>
    <3>1. Cardinality(mem.devices) >= ReviewCapacity
              \/ Cardinality(mem.devices) < ReviewCapacity
      BY <1>2, LimitAssumption DEF ReviewCapacity
    <3> QED  BY <3>1 DEF CreateReview, added
  <2> QED  BY <1>6, <1>7, <2>1

-----------------------------------------------------------------------------
(* The theorems.                                                           *)

LEMMA RegistryInit ==
    ASSUME Init
    PROVE  RegistryInvariant
<1>1. /\ mem = Empty /\ disk = Empty /\ profile = {}
      /\ hand = [r \in Request |-> AtRest] /\ drawn = {} /\ seen = {}
      /\ grant = [d \in Device |-> "hosted"] /\ answered = {}
      /\ held = [d \in Device |-> 0] /\ asked = {} /\ gone = {}
      /\ guesses = [x \in Code \cup Link |-> 0]
  BY DEF Init
<1>2. Empty \in Registry  BY DEF Empty, Registry, LinkStatus
<1>3. /\ Empty.devices = {} /\ Empty.review = {} /\ Empty.prev = {} /\ Empty.code = NoCode
      /\ \A l \in Link : Empty.link[l] = "absent" /\ Empty.linkMisses[l] = 0
  BY DEF Empty
<1>4. TypeOK
  <2>1. hand \in [Request -> Local]  BY <1>1, RestIs
  <2>2. grant \in [Device -> Approval]  BY <1>1 DEF Approval
  <2> QED  BY <1>1, <1>2, <2>1, <2>2 DEF TypeOK
<1>5. \A d \in Device : ~Live(d)
  BY <1>1 DEF Live, Creating, AtRest
<1>6. Known /\ ApprovalsOK /\ OrdinaryOK /\ RevokedForGood /\ TokensOK
  BY <1>1, <1>3, <1>5 DEF Known, ApprovalsOK, OrdinaryOK, RevokedForGood, TokensOK
<1>7. \A r \in Request : HandOK(r)
  BY <1>1 DEF HandOK, AtRest
<1>8. GuessesOK /\ GuessesBounded
  BY <1>1, <1>3, MissAssumption DEF GuessesOK, GuessesBounded
<1>9. WithinLimit
  <2>1. Cardinality({}) = 0  BY FS_EmptySet
  <2> QED  BY <1>1, <1>3, <2>1, LimitAssumption DEF WithinLimit, Bounded
<1> QED  BY <1>4, <1>6, <1>7, <1>8, <1>9 DEF RegistryInvariant

LEMMA RegistryUnchanged ==
    ASSUME RegistryInvariant, UNCHANGED vars
    PROVE  RegistryInvariant'
<1>1. UNCHANGED <<mem, disk, profile, hand, drawn, seen, grant, answered, held, asked, gone, guesses>>
  BY DEF vars, registry, ghosts
<1>2. TypeOK /\ Outside  BY Parts
<1>3. /\ mem' \in Registry /\ disk' \in Registry
      /\ SameDevices(mem', mem) /\ SameDevices(disk', disk)
  BY <1>1, <1>2 DEF TypeOK, SameDevices
<1>4. SpentNow' \subseteq SpentNow => PairNext(mem') /\ PairNext(disk')
  <2>1. PairNow(mem) /\ PairNow(disk)  BY Parts
  <2> QED  BY <1>1, <2>1 DEF PairNow, PairNext, PairOK
<1> QED  BY <1>1, <1>2, <1>3, <1>4, StoreKeeps DEF TypeOK, Outside, GuessesBounded

LEMMA RegistryNext ==
    ASSUME RegistryInvariant, [Next]_vars
    PROVE  RegistryInvariant'
<1>1. ASSUME NEW r \in Request, AppStep(r) PROVE RegistryInvariant'
  <2>1. ASSUME NEW d \in Device, NEW out \in Outcome, Creates(r, d, out)
        PROVE  RegistryInvariant'
    BY <2>1, RedeemPairingKeeps, RedeemLinkKeeps, CreateHostedKeeps, CreateReviewKeeps DEF Creates
  <2>2. ASSUME NEW l \in Link, PollLink(r, l) PROVE RegistryInvariant'
    BY <2>2, PollSteps
  <2>3. CASE RedeemLinkRefused(r) \/ Unprofile(r)  BY <2>3, ReturnSteps
  <2>4. CASE EnsureDevice(r) \/ EnsureFails(r)  BY <2>4, EnsureSteps
  <2>5. CASE EnsureProfile(r)  BY <2>5, AnswerSteps
  <2>6. ASSUME NEW out \in Outcome, RevokeEvicted(r, out) \/ Undo(r, out)
        PROVE  RegistryInvariant'
    BY <2>6, EvictedSteps, UndoSteps
  <2> QED  BY <1>1, <2>1, <2>2, <2>3, <2>4, <2>5, <2>6 DEF AppStep
<1>2. ASSUME NEW r \in Request, AdminStep(r) PROVE RegistryInvariant'
  <2>1. ASSUME NEW d \in Device, Rename(r, d) PROVE RegistryInvariant'
    BY <2>1, RenameSteps
  <2>2. ASSUME NEW d \in Device, NEW out \in Outcome, Revoke(r, d, out) PROVE RegistryInvariant'
    BY <2>2, RevokeSteps
  <2>3. CASE RenameProfile(r)  BY <2>3, ReturnSteps
  <2>4. CASE RevokeProfile(r) \/ RevokeFails(r)  BY <2>4, LeaveSteps
  <2> QED  BY <1>2, <2>1, <2>2, <2>3, <2>4 DEF AdminStep
<1>3. CASE StoreStep
  <2>1. ASSUME NEW c \in Code, NEW out \in Outcome, CreatePairing(c, out) PROVE RegistryInvariant'
    BY <2>1, PairSteps
  <2>2. ASSUME NEW out \in Outcome, WrongCode(out) PROVE RegistryInvariant'
    BY <2>2, PairSteps
  <2>3. ASSUME NEW l \in Link, NEW out \in Outcome,
               CreateLink(l, out) \/ ApproveLink(l, out) \/ DenyLink(l, out) \/ WrongToken(l, out)
        PROVE  RegistryInvariant'
    BY <2>3, LinkSteps, TokenGuessed
  <2>4. ASSUME NEW d \in Device, NEW t \in 1 .. MaxToken, NEW out \in Outcome, Rotate(d, t, out)
        PROVE  RegistryInvariant'
    BY <2>4, RefreshSteps
  <2>5. ASSUME NEW d \in Device, NEW t \in 1 .. MaxToken, Replay(d, t) PROVE RegistryInvariant'
    BY <2>5, RefreshSteps
  <2> QED  BY <1>3, <2>1, <2>2, <2>3, <2>4, <2>5 DEF StoreStep
<1>4. CASE TimeStep  BY <1>4, TimeSteps
<1>5. CASE Crash  BY <1>5, CrashStep
<1>6. CASE UNCHANGED vars  BY <1>6, RegistryUnchanged
<1> QED  BY <1>1, <1>2, <1>3, <1>4, <1>5, <1>6 DEF Next

\* The invariant holds in every state of the registry, for any number of
\* devices, codes, links and requests: memory, file and requests agree whatever
\* writes of device-registry.json fail and wherever the agent restarts.
THEOREM RegistrySound == Spec => []RegistryInvariant
<1>1. Init => RegistryInvariant  BY RegistryInit
<1>2. RegistryInvariant /\ [Next]_vars => RegistryInvariant'  BY RegistryNext
<1> QED  BY <1>1, <1>2, PTL DEF Spec

\* The limit of devices and the slot kept for ordinary pairing hold in memory
\* and in every file a restart may load.
THEOREM LimitKept == Spec => []WithinLimit
<1>1. RegistryInvariant => WithinLimit  BY DEF RegistryInvariant
<1> QED  BY <1>1, RegistrySound, PTL

\* A pairing code and an approved Nearby Link are worth one answered session,
\* however many polls and redemptions race.
THEOREM ApprovalSpentOnce == Spec => []OneSessionPerApproval
<1>1. RegistryInvariant => OneSessionPerApproval
  BY DEF RegistryInvariant, TypeOK, ApprovalsOK, Live, OneSessionPerApproval
<1> QED  BY <1>1, RegistrySound, PTL

\* App and registry are never two rotations apart (RotateRefreshToken).
THEOREM TokensAgree == Spec => []TokensTogether
<1>1. RegistryInvariant => TokensTogether
  BY DEF RegistryInvariant, TokensOK, TokensTogether
<1> QED  BY <1>1, RegistrySound, PTL

\* A revoked device stays away, from the registry and from the profiles.
THEOREM RevocationFinal == Spec => []RevokedForGood
<1>1. RegistryInvariant => RevokedForGood  BY DEF RegistryInvariant
<1> QED  BY <1>1, RegistrySound, PTL

\* Wrong guesses at a code or a link are bounded across restarts.
THEOREM GuessesLimited == Spec => []GuessesBounded
<1>1. RegistryInvariant => GuessesBounded  BY DEF RegistryInvariant
<1> QED  BY <1>1, RegistrySound, PTL

\* Nothing but an administrator takes an ordinary device that was answered.
THEOREM OrdinaryKept == Spec => []OrdinaryStays
<1>1. RegistryInvariant => OrdinaryStays
  BY DEF RegistryInvariant, TypeOK, OrdinaryOK, Live, OrdinaryStays
<1> QED  BY <1>1, RegistrySound, PTL
=============================================================================
