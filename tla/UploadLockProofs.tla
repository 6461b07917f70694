------------------------- MODULE UploadLockProofs -------------------------
(***************************************************************************)
(* Proofs about UploadLocks: the table has one lock object per identity,   *)
(* counted by those who refer to it, and is a reader-writer lock per       *)
(* identity as KeyedLock promises it.                                      *)
(*                                                                         *)
(* A process says something of a lock object by where it is in its plan    *)
(* (Uses, Shares, Excludes, Awaits, Drains); LockInvariant says that the   *)
(* table, the counts and the lock objects say the same.  A step is one at  *)
(* a lock object, which leaves all others alone (MoveInvariant), or one at *)
(* the table, which leaves all lock objects alone (LocksStill, TableMoves).*)
(***************************************************************************)
EXTENDS UploadLocks, FiniteSetTheorems, SequenceTheorems, TLAPS

(* What a process makes of a lock object. *)
Depth(p) == Len(proc[p].own)
Firm(p, i) == i < Depth(p) \/ proc[p].pc \in {"ref", "work", "unlock"}
Uses(p, e) == \E i \in 1 .. Depth(p) : proc[p].own[i] = e
Shares(p, e) ==
    \E i \in 1 .. Depth(p) :
        proc[p].own[i] = e /\ proc[p].plan[i].shared /\ Firm(p, i)
Excludes(p, e) ==
    \E i \in 1 .. Depth(p) :
        proc[p].own[i] = e /\ ~proc[p].plan[i].shared /\ Firm(p, i)
Awaits(p, e) == proc[p].pc = "blocked" /\ Top(p) = e
Drains(p, e) == proc[p].pc = "drain" /\ Top(p) = e
Users(e) == {p \in Proc : Uses(p, e)}

\* A process is somewhere in its plan, and the lock objects it refers to are
\* those the table has.
ProcOK(p) ==
    /\ proc[p].pc = "idle" => proc[p].own = <<>>
    /\ proc[p].pc # "idle" => proc[p].plan \in Plan /\ Depth(p) <= Len(proc[p].plan)
    /\ proc[p].pc = "ref" => Depth(p) < Len(proc[p].plan)
    /\ proc[p].pc \notin {"idle", "ref"} => Depth(p) > 0
    /\ proc[p].pc = "blocked" => Step(p).shared
    /\ proc[p].pc = "drain" => ~Step(p).shared
    /\ \A i \in 1 .. Depth(p) : proc[p].own[i] = table[proc[p].plan[i].key]

\* A lock object says of itself what the processes say of it.
CountOK(e) == refs[e] = Cardinality(Users(e))
Agrees(q, e) ==
    /\ Shares(q, e) => q \in readers[e]
    /\ q \in readers[e] => Shares(q, e) \/ Awaits(q, e)
    /\ Excludes(q, e) \/ Drains(q, e) => writer[e] = q
    /\ writer[e] = q => Excludes(q, e) \/ Drains(q, e)
    /\ q \in waiting[e] => Awaits(q, e) /\ q \notin readers[e]
    /\ Excludes(q, e) => readers[e] = {}
LockOK(e) == \A q \in Proc : Agrees(q, e)

\* No two identities have the same lock object, and none is kept in vain.
TableOK ==
    /\ \A k, l \in Key : table[k] # None /\ table[k] = table[l] => k = l
    /\ \A k \in Key : table[k] # None => Users(table[k]) # {}

LockInvariant ==
    /\ TypeOK
    /\ \A p \in Proc : ProcOK(p)
    /\ \A e \in Entry : CountOK(e) /\ LockOK(e)
    /\ TableOK

-----------------------------------------------------------------------------
(* What a process says of a lock object before and after a step. *)

Keeps(q, e) ==
    /\ Uses(q, e)' <=> Uses(q, e)
    /\ Shares(q, e)' <=> Shares(q, e)
    /\ Excludes(q, e)' <=> Excludes(q, e)
Unmoved(q, e) ==
    Keeps(q, e) /\ (Awaits(q, e)' <=> Awaits(q, e)) /\ (Drains(q, e)' <=> Drains(q, e))

\* A lock is firmly held while its process does something else.
Settled == {"ref", "work", "unlock"}

LEMMA BystanderUnmoved ==
    ASSUME NEW q \in Proc, NEW e \in Entry, proc'[q] = proc[q]
    PROVE  Unmoved(q, e)
BY DEF Unmoved, Keeps, Uses, Shares, Excludes, Awaits, Drains, Depth, Firm, Top

\* Everything a program counter changes by itself.
LEMMA GotoMoves ==
    ASSUME TypeOK, NEW p \in Proc, NEW pc, Goto(p, pc)
    PROVE  /\ proc'[p].pc = pc
           /\ proc'[p].own = proc[p].own /\ proc'[p].plan = proc[p].plan
           /\ \A q \in Proc \ {p} : proc'[q] = proc[q]
BY DEF TypeOK, Goto

LEMMA GotoTyped ==
    ASSUME TypeOK, NEW p \in Proc,
           NEW pc \in Taking \cup {"idle", "ref", "work", "unlock", "unref"},
           Goto(p, pc)
    PROVE  proc' \in [Proc -> [pc : Taking \cup {"idle", "ref", "work", "unlock", "unref"},
                               plan : Plan \cup {<<>>}, own : Seq(Entry)]]
BY DEF TypeOK, Goto

LEMMA MoveKeeps ==
    ASSUME NEW p \in Proc, NEW e \in Entry,
           proc'[p].own = proc[p].own, proc'[p].plan = proc[p].plan,
           proc'[p].pc \in Settled <=> proc[p].pc \in Settled
    PROVE  Keeps(p, e)
BY DEF Settled, Keeps, Uses, Shares, Excludes, Depth, Firm

LEMMA MoveGains ==
    ASSUME TypeOK, NEW p \in Proc, NEW e \in Entry, Depth(p) > 0,
           proc'[p].own = proc[p].own, proc'[p].plan = proc[p].plan,
           proc'[p].pc \in Settled, proc[p].pc \notin Settled
    PROVE  /\ Uses(p, e)' <=> Uses(p, e)
           /\ Shares(p, e)' <=> Shares(p, e) \/ (e = Top(p) /\ Step(p).shared)
           /\ Excludes(p, e)' <=> Excludes(p, e) \/ (e = Top(p) /\ ~Step(p).shared)
<1>1. Depth(p) \in Nat /\ Depth(p) \in 1 .. Depth(p)
  BY DEF TypeOK, Depth
<1>2. \A i \in 1 .. Depth(p) : Firm(p, i)' /\ (Firm(p, i) <=> i # Depth(p))
  BY <1>1 DEF Firm, Settled, Depth
<1>3. Depth(p)' = Depth(p)
  BY DEF Depth
<1>4. Top(p) = proc[p].own[Depth(p)] /\ Step(p) = proc[p].plan[Depth(p)]
  BY DEF Top, Step, Depth
<1>5. Uses(p, e)' <=> Uses(p, e)
  BY <1>3 DEF Uses
<1>6. Shares(p, e)' <=> Shares(p, e) \/ (e = Top(p) /\ Step(p).shared)
  BY <1>1, <1>2, <1>3, <1>4 DEF Shares
<1>7. Excludes(p, e)' <=> Excludes(p, e) \/ (e = Top(p) /\ ~Step(p).shared)
  BY <1>1, <1>2, <1>3, <1>4 DEF Excludes
<1> QED BY <1>5, <1>6, <1>7

LEMMA MoveLoses ==
    ASSUME TypeOK, NEW p \in Proc, NEW e \in Entry, Depth(p) > 0,
           \A i, j \in 1 .. Depth(p) : proc[p].own[i] = proc[p].own[j] => i = j,
           proc'[p].own = proc[p].own, proc'[p].plan = proc[p].plan,
           proc'[p].pc \notin Settled, proc[p].pc \in Settled
    PROVE  /\ Uses(p, e)' <=> Uses(p, e)
           /\ Shares(p, e)' <=> Shares(p, e) /\ e # Top(p)
           /\ Excludes(p, e)' <=> Excludes(p, e) /\ e # Top(p)
<1>1. Depth(p) \in Nat /\ Depth(p) \in 1 .. Depth(p)
  BY DEF TypeOK, Depth
<1>2. \A i \in 1 .. Depth(p) : Firm(p, i) /\ (Firm(p, i)' <=> i # Depth(p))
  BY <1>1 DEF Firm, Settled, Depth
<1>3. Depth(p)' = Depth(p)
  BY DEF Depth
<1>4. Top(p) = proc[p].own[Depth(p)]
  BY DEF Top, Depth
<1>5. Uses(p, e)' <=> Uses(p, e)
  BY <1>3 DEF Uses
<1>6. \A i \in 1 .. Depth(p) : proc[p].own[i] # Top(p) <=> i # Depth(p)
  BY <1>1, <1>4
<1>7. Shares(p, e)' <=> Shares(p, e) /\ e # Top(p)
  BY <1>2, <1>3, <1>6 DEF Shares
<1>8. Excludes(p, e)' <=> Excludes(p, e) /\ e # Top(p)
  BY <1>2, <1>3, <1>6 DEF Excludes
<1> QED BY <1>5, <1>7, <1>8

LEMMA PushAdds ==
    ASSUME TypeOK, NEW p \in Proc, NEW e \in Entry, NEW x \in Entry,
           proc'[p].own = Append(proc[p].own, x), proc'[p].plan = proc[p].plan,
           proc[p].pc = "ref", proc'[p].pc = "lock"
    PROVE  /\ Uses(p, e)' <=> Uses(p, e) \/ e = x
           /\ Shares(p, e)' <=> Shares(p, e)
           /\ Excludes(p, e)' <=> Excludes(p, e)
<1>1. Depth(p) \in Nat /\ Depth(p)' = Depth(p) + 1
  BY DEF TypeOK, Depth
<1>2. /\ \A i \in 1 .. Depth(p) : proc'[p].own[i] = proc[p].own[i]
      /\ proc'[p].own[Depth(p)'] = x
  BY <1>1 DEF TypeOK, Depth
<1>3. /\ \A i \in 1 .. Depth(p) : Firm(p, i) /\ Firm(p, i)'
      /\ ~Firm(p, Depth(p))'
  BY <1>1 DEF Firm
<1>4. 1 .. Depth(p)' = (1 .. Depth(p)) \cup {Depth(p)'}
  BY <1>1
<1>5. Uses(p, e)' <=> Uses(p, e) \/ e = x
  BY <1>2, <1>4 DEF Uses
<1>6. Shares(p, e)' <=> Shares(p, e)
  BY <1>2, <1>3, <1>4 DEF Shares
<1>7. Excludes(p, e)' <=> Excludes(p, e)
  BY <1>2, <1>3, <1>4 DEF Excludes
<1> QED BY <1>5, <1>6, <1>7

LEMMA PopDrops ==
    ASSUME TypeOK, NEW p \in Proc, NEW e \in Entry, Depth(p) > 0,
           \A i, j \in 1 .. Depth(p) : proc[p].own[i] = proc[p].own[j] => i = j,
           proc[p].pc = "unref",
           proc'[p].own = SubSeq(proc[p].own, 1, Depth(p) - 1),
           proc'[p].own = <<>>
               \/ (proc'[p].plan = proc[p].plan /\ proc'[p].pc = "unlock")
    PROVE  /\ Uses(p, e)' <=> Uses(p, e) /\ e # Top(p)
           /\ Shares(p, e)' <=> Shares(p, e)
           /\ Excludes(p, e)' <=> Excludes(p, e)
<1>1. Depth(p) \in Nat /\ Depth(p)' = Depth(p) - 1
  BY DEF TypeOK, Depth
<1>2. \A i \in 1 .. Depth(p)' : proc'[p].own[i] = proc[p].own[i]
  BY <1>1 DEF TypeOK, Depth
<1>3. /\ \A i \in 1 .. Depth(p)' : Firm(p, i)
      /\ ~Firm(p, Depth(p))
  BY <1>1 DEF Firm
<1>4. 1 .. Depth(p) = (1 .. Depth(p)') \cup {Depth(p)}
  BY <1>1
<1>5. Top(p) = proc[p].own[Depth(p)]
  BY DEF Top, Depth
<1>6. \A i \in 1 .. Depth(p) : proc[p].own[i] # Top(p) <=> i # Depth(p)
  BY <1>1, <1>5
<1>7. Depth(p) \notin 1 .. Depth(p)'
  BY <1>1
<1>8. \A i \in 1 .. Depth(p)' : proc'[p].plan = proc[p].plan /\ Firm(p, i)'
  <2>1. CASE proc'[p].own = <<>>
    BY <2>1, <1>1 DEF Depth
  <2>2. CASE proc'[p].plan = proc[p].plan /\ proc'[p].pc = "unlock"
    BY <2>2 DEF Firm
  <2> QED BY <2>1, <2>2
<1>9. Uses(p, e)' <=> Uses(p, e) /\ e # Top(p)
  BY <1>2, <1>4, <1>6, <1>7 DEF Uses
<1>10. Shares(p, e)' <=> Shares(p, e)
  BY <1>2, <1>3, <1>4, <1>8 DEF Shares
<1>11. Excludes(p, e)' <=> Excludes(p, e)
  BY <1>2, <1>3, <1>4, <1>8 DEF Excludes
<1> QED BY <1>9, <1>10, <1>11

-----------------------------------------------------------------------------
(* What the invariant says of a process at its lock object. *)

LEMMA AtLock ==
    ASSUME TypeOK, NEW p \in Proc, ProcOK(p), TableOK, proc[p].pc \notin {"idle", "ref"}
    PROVE  /\ Depth(p) \in Nat /\ Depth(p) > 0 /\ Depth(p) <= Len(proc[p].plan)
           /\ proc[p].plan \in Plan
           /\ Top(p) \in Entry /\ Step(p).key \in Key
           /\ Step(p).shared \in BOOLEAN /\ Step(p).try \in BOOLEAN
           /\ table[Step(p).key] = Top(p)
           /\ Uses(p, Top(p))
<1>1. Depth(p) \in Nat /\ Depth(p) > 0 /\ Depth(p) <= Len(proc[p].plan)
  BY DEF TypeOK, ProcOK, Depth
<1>2. proc[p].plan \in Plan
  BY DEF ProcOK
<1>3. Step(p) \in [key : Key, shared : BOOLEAN, try : BOOLEAN]
  <2>1. proc[p].plan \in Seq([key : Key, shared : BOOLEAN, try : BOOLEAN])
    BY <1>2, PlanAssumption
  <2>2. Step(p) = proc[p].plan[Depth(p)]
    BY DEF Step, Depth
  <2>3. Depth(p) \in 1 .. Len(proc[p].plan)
    BY <1>1, <2>1
  <2>4. proc[p].plan[Depth(p)] \in [key : Key, shared : BOOLEAN, try : BOOLEAN]
    BY <2>1, <2>3, ElementOfSeq
  <2> QED BY <2>2, <2>4
<1>4. Top(p) \in Entry /\ Top(p) = proc[p].own[Depth(p)]
  BY <1>1 DEF Top, TypeOK, Depth
<1>5. table[Step(p).key] = Top(p)
  BY <1>1, <1>4 DEF ProcOK, Step, Depth
<1>6. Uses(p, Top(p))
  BY <1>1, <1>4 DEF Uses
<1> QED BY <1>1, <1>2, <1>3, <1>4, <1>5, <1>6

\* A plan takes no lock twice, and so no lock object.
LEMMA OwnDistinct ==
    ASSUME TypeOK, NEW p \in Proc, ProcOK(p), TableOK, proc[p].pc # "idle"
    PROVE  /\ \A i \in 1 .. Depth(p) :
                  /\ proc[p].own[i] \in Entry /\ proc[p].plan[i].key \in Key
                  /\ proc[p].plan[i].shared \in BOOLEAN
           /\ \A i, j \in 1 .. Depth(p) : proc[p].own[i] = proc[p].own[j] => i = j
<1>1. proc[p].plan \in Plan /\ Depth(p) <= Len(proc[p].plan) /\ Depth(p) \in Nat
  BY DEF ProcOK, TypeOK, Depth
<1>2. proc[p].plan \in Seq([key : Key, shared : BOOLEAN, try : BOOLEAN])
  BY <1>1, PlanAssumption
<1>3. \A i \in 1 .. Depth(p) :
          i \in 1 .. Len(proc[p].plan)
  BY <1>1, <1>2
<1>4. \A i \in 1 .. Depth(p) :
          proc[p].plan[i].key \in Key /\ proc[p].plan[i].shared \in BOOLEAN
  <2>1. \A i \in 1 .. Depth(p) :
            proc[p].plan[i] \in [key : Key, shared : BOOLEAN, try : BOOLEAN]
    BY <1>2, <1>3, ElementOfSeq
  <2> QED BY <2>1
<1>5. \A i \in 1 .. Depth(p) : proc[p].own[i] \in Entry
  BY DEF TypeOK, Depth
<1>6. ASSUME NEW i \in 1 .. Depth(p), NEW j \in 1 .. Depth(p),
             proc[p].own[i] = proc[p].own[j]
      PROVE  i = j
  <2>1. table[proc[p].plan[i].key] = table[proc[p].plan[j].key]
    BY <1>6 DEF ProcOK
  <2>2. table[proc[p].plan[i].key] # None
    BY <1>5, NoneAssumption DEF ProcOK
  <2>3. proc[p].plan[i].key = proc[p].plan[j].key
    BY <2>1, <2>2, <1>4 DEF TableOK
  <2> QED BY <2>3, <1>1, <1>3, PlanAssumption
<1> QED BY <1>4, <1>5, <1>6

\* Before its first lock a process says nothing of any.
LEMMA IdleUsesNothing ==
    ASSUME NEW p \in Proc, NEW e, proc[p].own = <<>>
    PROVE  ~Uses(p, e) /\ ~Shares(p, e) /\ ~Excludes(p, e)
BY DEF Uses, Shares, Excludes, Depth

\* Who holds or waits for a lock object refers to it.
LEMMA ClaimsAreUses ==
    ASSUME TypeOK, NEW p \in Proc, NEW e \in Entry, ProcOK(p), TableOK
    PROVE  Shares(p, e) \/ Excludes(p, e) \/ Awaits(p, e) \/ Drains(p, e) => Uses(p, e)
<1>1. Shares(p, e) \/ Excludes(p, e) => Uses(p, e)
  BY DEF Shares, Excludes, Uses
<1>2. Awaits(p, e) \/ Drains(p, e) => Uses(p, e)
  BY AtLock DEF Awaits, Drains
<1> QED BY <1>1, <1>2

\* Only the lock object a process is at can be the one it waits for.
LEMMA OneAtATime ==
    ASSUME TypeOK, NEW p \in Proc, ProcOK(p), TableOK, NEW e \in Entry,
           proc[p].pc \notin Settled, proc[p].pc \notin {"idle"}
    PROVE  ~Shares(p, Top(p)) /\ ~Excludes(p, Top(p))
<1>1. /\ Depth(p) \in Nat /\ Depth(p) > 0
      /\ \A i, j \in 1 .. Depth(p) : proc[p].own[i] = proc[p].own[j] => i = j
  BY AtLock, OwnDistinct DEF Settled
<1>2. Top(p) = proc[p].own[Depth(p)] /\ ~Firm(p, Depth(p))
  BY <1>1 DEF Top, Depth, Firm, Settled
<1> QED BY <1>1, <1>2 DEF Shares, Excludes
\* A process past its try or its wait has what it took.
LEMMA SettledHas ==
    ASSUME TypeOK, NEW p \in Proc, ProcOK(p), TableOK,
           proc[p].pc \in {"work", "unlock"}
    PROVE  /\ Shares(p, Top(p)) <=> Step(p).shared
           /\ Excludes(p, Top(p)) <=> ~Step(p).shared
<1>1. /\ Depth(p) \in Nat /\ Depth(p) > 0
      /\ \A i, j \in 1 .. Depth(p) : proc[p].own[i] = proc[p].own[j] => i = j
  BY AtLock, OwnDistinct
<1>2. /\ Top(p) = proc[p].own[Depth(p)] /\ Step(p) = proc[p].plan[Depth(p)]
      /\ Firm(p, Depth(p)) /\ Depth(p) \in 1 .. Depth(p)
  BY <1>1 DEF Top, Step, Depth, Firm
<1> QED BY <1>1, <1>2 DEF Shares, Excludes

-----------------------------------------------------------------------------
(* Steps at a lock object: they leave the table and the references alone. *)

\* The lock objects a step is not about.
LEMMA MoveElsewhere ==
    ASSUME TypeOK, NEW p \in Proc, ProcOK(p), TableOK, NEW pc, Goto(p, pc),
           proc[p].pc \notin {"idle", "ref"}, NEW e \in Entry, e # Top(p)
    PROVE  \A q \in Proc : Unmoved(q, e)
<1>1. /\ proc'[p].pc = pc
      /\ proc'[p].own = proc[p].own /\ proc'[p].plan = proc[p].plan
      /\ \A q \in Proc \ {p} : proc'[q] = proc[q]
  BY GotoMoves
<1>2. /\ Depth(p) > 0
      /\ \A i, j \in 1 .. Depth(p) : proc[p].own[i] = proc[p].own[j] => i = j
  BY AtLock, OwnDistinct
<1>3. Keeps(p, e)
  <2>1. CASE proc'[p].pc \in Settled <=> proc[p].pc \in Settled
    BY <2>1, <1>1, MoveKeeps
  <2>2. CASE proc'[p].pc \in Settled /\ proc[p].pc \notin Settled
    BY <2>2, <1>1, <1>2, MoveGains DEF Keeps
  <2>3. CASE proc'[p].pc \notin Settled /\ proc[p].pc \in Settled
    BY <2>3, <1>1, <1>2, MoveLoses DEF Keeps
  <2> QED BY <2>1, <2>2, <2>3
<1>4. Top(p)' = Top(p)
  BY <1>1 DEF Top
<1>5. Unmoved(p, e)
  BY <1>3, <1>4 DEF Unmoved, Awaits, Drains
<1> QED BY <1>1, <1>5, BystanderUnmoved

LEMMA StillOK ==
    ASSUME NEW e \in Entry, LockOK(e), \A q \in Proc : Unmoved(q, e),
           readers'[e] = readers[e], waiting'[e] = waiting[e], writer'[e] = writer[e]
    PROVE  LockOK(e)'
<1> SUFFICES ASSUME NEW q \in Proc
             PROVE  Agrees(q, e)'
  BY DEF LockOK
<1>1. Unmoved(q, e)
  OBVIOUS
<1> QED BY <1>1 DEF LockOK, Agrees, Unmoved, Keeps

\* What a step at a lock object leaves as it is.
LEMMA MoveRest ==
    ASSUME LockInvariant, NEW p \in Proc,
           NEW pc \in Taking \cup {"ref", "work", "unlock", "unref"}, Goto(p, pc),
           proc[p].pc \notin {"idle", "ref"},
           pc = "ref" => Depth(p) < Len(proc[p].plan),
           pc = "blocked" => Step(p).shared, pc = "drain" => ~Step(p).shared,
           table' = table, refs' = refs
    PROVE  /\ proc' \in [Proc -> [pc : Taking \cup {"idle", "ref", "work", "unlock", "unref"},
                                  plan : Plan \cup {<<>>}, own : Seq(Entry)]]
           /\ \A q \in Proc : ProcOK(q)'
           /\ \A e \in Entry : CountOK(e)'
           /\ TableOK'
<1>0. TypeOK /\ TableOK /\ \A q \in Proc : ProcOK(q)
  BY DEF LockInvariant
<1>1. /\ proc'[p].pc = pc
      /\ proc'[p].own = proc[p].own /\ proc'[p].plan = proc[p].plan
      /\ \A q \in Proc \ {p} : proc'[q] = proc[q]
  BY <1>0, GotoMoves
<1>2. ProcOK(p)'
  <2>1. ProcOK(p)
    BY <1>0
  <2>2. Depth(p)' = Depth(p) /\ Step(p)' = Step(p)
    BY <1>1 DEF Depth, Step
  <2>3. Depth(p) > 0 /\ Depth(p) <= Len(proc[p].plan) /\ proc[p].plan \in Plan
    BY <1>0, AtLock
  <2>4. pc # "idle"
    BY DEF Taking
  <2> QED BY <1>1, <2>1, <2>2, <2>3, <2>4 DEF ProcOK
<1>3. ASSUME NEW q \in Proc \ {p}
      PROVE  ProcOK(q)'
  <2>1. ProcOK(q)
    BY <1>0
  <2>2. Depth(q)' = Depth(q) /\ Step(q)' = Step(q) /\ proc'[q] = proc[q]
    BY <1>1 DEF Depth, Step
  <2> QED BY <2>1, <2>2 DEF ProcOK
<1>4. \A q \in Proc : proc'[q].own = proc[q].own
  BY <1>1
<1>5. ASSUME NEW e
      PROVE  Users(e)' = Users(e)
  BY <1>4 DEF Users, Uses, Depth
<1>6. \A e \in Entry : CountOK(e)'
  BY <1>5 DEF LockInvariant, CountOK
<1>7. \A k \in Key : Users(table[k])' = Users(table[k])
  BY <1>5
<1>8. TableOK'
  BY <1>0, <1>7 DEF TableOK
<1>9. proc' \in [Proc -> [pc : Taking \cup {"idle", "ref", "work", "unlock", "unref"},
                          plan : Plan \cup {<<>>}, own : Seq(Entry)]]
  BY <1>0, GotoTyped
<1> QED BY <1>2, <1>3, <1>6, <1>8, <1>9
\* The step changes one lock object, and no reference to any.
OnlyAt(x) ==
    /\ readers' \in [Entry -> SUBSET Proc] /\ waiting' \in [Entry -> SUBSET Proc]
    /\ writer' \in [Entry -> Proc \cup {None}]
    /\ \A e \in Entry \ {x} :
          readers'[e] = readers[e] /\ waiting'[e] = waiting[e] /\ writer'[e] = writer[e]
    /\ table' = table /\ refs' = refs

\* It is enough to look at the lock object of the step.
LEMMA MoveInvariant ==
    ASSUME LockInvariant, NEW p \in Proc, proc[p].pc \notin {"idle", "ref"},
           NEW pc \in Taking \cup {"ref", "work", "unlock", "unref"}, Goto(p, pc),
           pc = "ref" => Depth(p) < Len(proc[p].plan),
           pc = "blocked" => Step(p).shared, pc = "drain" => ~Step(p).shared,
           NEW x \in Entry, x = Top(p), OnlyAt(x), LockOK(x)'
    PROVE  LockInvariant'
<1>0. /\ TypeOK /\ TableOK /\ \A q \in Proc : ProcOK(q)
      /\ \A e \in Entry : LockOK(e)
  BY DEF LockInvariant
<1>1. /\ proc' \in [Proc -> [pc : Taking \cup {"idle", "ref", "work", "unlock", "unref"},
                             plan : Plan \cup {<<>>}, own : Seq(Entry)]]
      /\ \A q \in Proc : ProcOK(q)'
      /\ \A e \in Entry : CountOK(e)'
      /\ TableOK'
  BY MoveRest DEF OnlyAt
<1>2. TypeOK'
  BY <1>0, <1>1 DEF TypeOK, OnlyAt
<1>3. ASSUME NEW e \in Entry, e # x
      PROVE  LockOK(e)'
  <2>1. \A q \in Proc : Unmoved(q, e)
    BY <1>0, <1>3, MoveElsewhere
  <2> QED BY <1>0, <1>3, <2>1, StillOK DEF OnlyAt
<1>4. \A e \in Entry : LockOK(e)'
  <2> SUFFICES ASSUME NEW e \in Entry
               PROVE  LockOK(e)'
    OBVIOUS
  <2>1. CASE e # x
    BY <2>1, <1>3
  <2>2. CASE e = x
    BY <2>2
  <2> QED BY <2>1, <2>2
<1> QED BY <1>1, <1>2, <1>4 DEF LockInvariant

\* The others and their lock objects while a process takes a step at its own.
LEMMA OthersUnmoved ==
    ASSUME TypeOK, NEW p \in Proc, NEW pc, Goto(p, pc), NEW e \in Entry
    PROVE  \A q \in Proc \ {p} : Unmoved(q, e)
BY GotoMoves, BystanderUnmoved

\* A process that has taken the lock it waited for.
LEMMA TakenAt ==
    ASSUME TypeOK, NEW p \in Proc, ProcOK(p), TableOK,
           proc[p].pc \in Taking, Advance(p),
           NEW e \in Entry, e = Top(p)
    PROVE  /\ Shares(p, e)' <=> Step(p).shared
           /\ Excludes(p, e)' <=> ~Step(p).shared
           /\ ~Awaits(p, e)' /\ ~Drains(p, e)'
           /\ ~Shares(p, e) /\ ~Excludes(p, e)
           /\ \A q \in Proc \ {p} : Unmoved(q, e)
<1>0. PICK pc \in {"work", "ref"} : Goto(p, pc)
  BY DEF Advance
<1>1. proc[p].pc \notin Settled /\ proc[p].pc \notin {"idle", "ref"} /\ pc \in Settled
  BY DEF Settled, Taking
<1>2. Depth(p) > 0
  BY <1>1, AtLock
<1>3. ~Shares(p, e) /\ ~Excludes(p, e)
  BY <1>1, OneAtATime
<1>4. /\ proc'[p].pc = pc
      /\ proc'[p].own = proc[p].own /\ proc'[p].plan = proc[p].plan
  BY <1>0, GotoMoves
<1>5. /\ Shares(p, e)' <=> Shares(p, e) \/ (e = Top(p) /\ Step(p).shared)
      /\ Excludes(p, e)' <=> Excludes(p, e) \/ (e = Top(p) /\ ~Step(p).shared)
  BY <1>1, <1>2, <1>4, MoveGains
<1>6. ~Awaits(p, e)' /\ ~Drains(p, e)'
  BY <1>4 DEF Awaits, Drains
<1>7. \A q \in Proc \ {p} : Unmoved(q, e)
  BY <1>0, OthersUnmoved
<1> QED BY <1>3, <1>5, <1>6, <1>7

LEMMA TakenInvariant ==
    ASSUME LockInvariant, NEW p \in Proc, proc[p].pc \in Taking, Advance(p),
           NEW x \in Entry, x = Top(p), OnlyAt(x), LockOK(x)'
    PROVE  LockInvariant'
<1>1. proc[p].pc \notin {"idle", "ref"}
  BY DEF Taking
<1>2. /\ Depth(p) \in Nat /\ Depth(p) <= Len(proc[p].plan)
      /\ Len(proc[p].plan) \in Nat
  BY <1>1, AtLock, PlanAssumption DEF LockInvariant
<1> DEFINE pc == IF Depth(p) = Len(proc[p].plan) THEN "work" ELSE "ref"
<1>3. Goto(p, pc)
  BY DEF Advance, Depth
<1>4. /\ pc \in Taking \cup {"ref", "work", "unlock", "unref"}
      /\ pc = "ref" => Depth(p) < Len(proc[p].plan)
      /\ pc # "blocked" /\ pc # "drain"
  BY <1>2
<1> HIDE DEF pc
<1> QED BY <1>1, <1>3, <1>4, MoveInvariant

\* A process that goes on waiting, or gives up.
LEMMA UntakenAt ==
    ASSUME TypeOK, NEW p \in Proc, ProcOK(p), TableOK,
           proc[p].pc = "lock", NEW pc \in {"blocked", "drain", "unref"}, Goto(p, pc),
           NEW e \in Entry, e = Top(p)
    PROVE  /\ ~Shares(p, e)' /\ ~Excludes(p, e)'
           /\ Awaits(p, e)' <=> pc = "blocked"
           /\ Drains(p, e)' <=> pc = "drain"
           /\ ~Shares(p, e) /\ ~Excludes(p, e)
           /\ \A q \in Proc \ {p} : Unmoved(q, e)
<1>1. proc[p].pc \notin Settled /\ proc[p].pc # "idle" /\ pc \notin Settled
  BY DEF Settled
<1>2. ~Shares(p, e) /\ ~Excludes(p, e)
  BY <1>1, OneAtATime
<1>3. /\ proc'[p].pc = pc
      /\ proc'[p].own = proc[p].own /\ proc'[p].plan = proc[p].plan
  BY GotoMoves
<1>4. Keeps(p, e)
  BY <1>1, <1>3, MoveKeeps
<1>5. Top(p)' = e
  BY <1>3 DEF Top
<1>6. (Awaits(p, e)' <=> pc = "blocked") /\ (Drains(p, e)' <=> pc = "drain")
  BY <1>3, <1>5 DEF Awaits, Drains
<1>7. \A q \in Proc \ {p} : Unmoved(q, e)
  BY OthersUnmoved
<1> QED BY <1>2, <1>4, <1>6, <1>7 DEF Keeps

\* A process that gives its lock back.
LEMMA GivenAt ==
    ASSUME TypeOK, NEW p \in Proc, ProcOK(p), TableOK,
           proc[p].pc = "unlock", Goto(p, "unref"), NEW e \in Entry, e = Top(p)
    PROVE  /\ ~Shares(p, e)' /\ ~Excludes(p, e)' /\ ~Awaits(p, e)' /\ ~Drains(p, e)'
           /\ Shares(p, e) <=> Step(p).shared
           /\ Excludes(p, e) <=> ~Step(p).shared
           /\ \A q \in Proc \ {p} : Unmoved(q, e)
<1>1. /\ proc'[p].pc = "unref"
      /\ proc'[p].own = proc[p].own /\ proc'[p].plan = proc[p].plan
  BY GotoMoves
<1>2. /\ Depth(p) > 0
      /\ \A i, j \in 1 .. Depth(p) : proc[p].own[i] = proc[p].own[j] => i = j
  BY AtLock, OwnDistinct
<1>3. ~Shares(p, e)' /\ ~Excludes(p, e)'
  BY <1>1, <1>2, MoveLoses DEF Settled
<1>4. ~Awaits(p, e)' /\ ~Drains(p, e)'
  BY <1>1 DEF Awaits, Drains
<1>5. (Shares(p, e) <=> Step(p).shared) /\ (Excludes(p, e) <=> ~Step(p).shared)
  BY SettledHas
<1>6. \A q \in Proc \ {p} : Unmoved(q, e)
  BY OthersUnmoved
<1> QED BY <1>3, <1>4, <1>5, <1>6

-----------------------------------------------------------------------------
(* The steps at a lock object. *)

LEMMA RLockKeeps ==
    ASSUME LockInvariant, NEW p \in Proc, RLock(p)
    PROVE  LockInvariant'
<1>0. TypeOK /\ TableOK /\ ProcOK(p) /\ \A e \in Entry : LockOK(e)
  BY DEF LockInvariant
<1>1. proc[p].pc = "lock" /\ Step(p).shared
  BY DEF RLock
<1>2. Top(p) \in Entry
  BY <1>0, <1>1, AtLock
<1>3. PICK e \in Entry : e = Top(p)
  BY <1>2
<1>4. LockOK(e) /\ ~Awaits(p, e) /\ ~Drains(p, e)
  BY <1>0, <1>1 DEF Awaits, Drains
<1>5. CASE /\ ReaderMayEnter(e)
           /\ readers' = [readers EXCEPT ![e] = @ \cup {p}]
           /\ Advance(p)
           /\ UNCHANGED waiting
  <2>1. /\ Shares(p, e)' /\ ~Excludes(p, e)' /\ ~Awaits(p, e)' /\ ~Drains(p, e)'
        /\ ~Shares(p, e) /\ ~Excludes(p, e)
        /\ \A q \in Proc \ {p} : Unmoved(q, e)
    BY <1>0, <1>1, <1>3, <1>5, TakenAt DEF Taking
  <2>2. /\ writer[e] = None /\ writer' = writer /\ waiting' = waiting
        /\ readers'[e] = readers[e] \cup {p}
    BY <1>0, <1>5 DEF ReaderMayEnter, RLock, TypeOK
  <2>3. LockOK(e)'
    <3> SUFFICES ASSUME NEW q \in Proc
                 PROVE  Agrees(q, e)'
      BY DEF LockOK
    <3>1. CASE q = p
      BY <1>4, <2>1, <2>2, <3>1, NoneAssumption DEF LockOK, Agrees
    <3>2. CASE q # p
      BY <1>4, <2>1, <2>2, <3>2, NoneAssumption DEF LockOK, Agrees, Unmoved, Keeps
    <3> QED BY <3>1, <3>2
  <2>4. OnlyAt(e)
    BY <1>0, <1>5 DEF OnlyAt, TypeOK, RLock
  <2> QED BY <1>1, <1>3, <1>5, <2>3, <2>4, TakenInvariant DEF Taking
<1>6. CASE /\ waiting' = [waiting EXCEPT ![e] = @ \cup {p}]
           /\ Goto(p, "blocked")
           /\ UNCHANGED readers
  <2>1. /\ ~Shares(p, e)' /\ ~Excludes(p, e)' /\ Awaits(p, e)' /\ ~Drains(p, e)'
        /\ ~Shares(p, e) /\ ~Excludes(p, e)
        /\ \A q \in Proc \ {p} : Unmoved(q, e)
    BY <1>0, <1>1, <1>3, <1>6, UntakenAt
  <2>2. /\ readers' = readers /\ writer' = writer
        /\ waiting'[e] = waiting[e] \cup {p}
    BY <1>0, <1>6 DEF RLock, TypeOK
  <2>3. LockOK(e)'
    <3> SUFFICES ASSUME NEW q \in Proc
                 PROVE  Agrees(q, e)'
      BY DEF LockOK
    <3>1. CASE q = p
      BY <1>4, <2>1, <2>2, <3>1 DEF LockOK, Agrees
    <3>2. CASE q # p
      BY <1>4, <2>1, <2>2, <3>2 DEF LockOK, Agrees, Unmoved, Keeps
    <3> QED BY <3>1, <3>2
  <2>4. OnlyAt(e)
    BY <1>0, <1>6 DEF OnlyAt, TypeOK, RLock
  <2>5. "blocked" \in Taking \cup {"ref", "work", "unlock", "unref"}
    BY DEF Taking
  <2> QED BY <1>1, <1>3, <1>6, <2>3, <2>4, <2>5, MoveInvariant
<1> QED BY <1>3, <1>5, <1>6 DEF RLock

LEMMA WokenKeeps ==
    ASSUME LockInvariant, NEW p \in Proc, Woken(p)
    PROVE  LockInvariant'
<1>0. TypeOK /\ TableOK /\ ProcOK(p) /\ \A e \in Entry : LockOK(e)
  BY DEF LockInvariant
<1>1. proc[p].pc = "blocked" /\ p \in readers[Top(p)] /\ Advance(p)
  BY DEF Woken
<1>2. Top(p) \in Entry
  BY <1>0, <1>1, AtLock
<1>3. PICK e \in Entry : e = Top(p)
  BY <1>2
<1>4. LockOK(e)
  BY <1>0
<1>5. /\ Shares(p, e)' <=> Step(p).shared
      /\ Excludes(p, e)' <=> ~Step(p).shared
      /\ ~Awaits(p, e)' /\ ~Drains(p, e)'
      /\ ~Shares(p, e) /\ ~Excludes(p, e)
      /\ \A q \in Proc \ {p} : Unmoved(q, e)
  BY <1>0, <1>1, <1>3, TakenAt DEF Taking
<1>6. /\ Awaits(p, e) /\ ~Drains(p, e) /\ Step(p).shared /\ p \in readers[e]
      /\ readers' = readers /\ waiting' = waiting /\ writer' = writer
  BY <1>0, <1>1, <1>3 DEF Woken, Awaits, Drains, LockIsFree, TypeOK, ProcOK
<1>7. LockOK(e)'
  <2> SUFFICES ASSUME NEW q \in Proc
               PROVE  Agrees(q, e)'
    BY DEF LockOK
  <2>1. CASE q = p
    BY <1>1, <1>4, <1>5, <1>6, <2>1 DEF LockOK, Agrees
  <2>2. CASE q # p
    BY <1>1, <1>4, <1>5, <1>6, <2>2 DEF LockOK, Agrees, Unmoved, Keeps
  <2> QED BY <2>1, <2>2
<1>8. OnlyAt(e)
  BY <1>0, <1>3 DEF OnlyAt, TypeOK, Woken
<1> QED BY <1>1, <1>3, <1>7, <1>8, TakenInvariant DEF Taking

LEMMA DrainedKeeps ==
    ASSUME LockInvariant, NEW p \in Proc, Drained(p)
    PROVE  LockInvariant'
<1>0. TypeOK /\ TableOK /\ ProcOK(p) /\ \A e \in Entry : LockOK(e)
  BY DEF LockInvariant
<1>1. proc[p].pc = "drain" /\ readers[Top(p)] = {} /\ Advance(p)
  BY DEF Drained
<1>2. Top(p) \in Entry
  BY <1>0, <1>1, AtLock
<1>3. PICK e \in Entry : e = Top(p)
  BY <1>2
<1>4. LockOK(e)
  BY <1>0
<1>5. /\ Shares(p, e)' <=> Step(p).shared
      /\ Excludes(p, e)' <=> ~Step(p).shared
      /\ ~Awaits(p, e)' /\ ~Drains(p, e)'
      /\ ~Shares(p, e) /\ ~Excludes(p, e)
      /\ \A q \in Proc \ {p} : Unmoved(q, e)
  BY <1>0, <1>1, <1>3, TakenAt DEF Taking
<1>6. /\ ~Awaits(p, e) /\ Drains(p, e) /\ ~Step(p).shared /\ readers[e] = {}
      /\ readers' = readers /\ waiting' = waiting /\ writer' = writer
  BY <1>0, <1>1, <1>3 DEF Drained, Awaits, Drains, LockIsFree, TypeOK, ProcOK
<1>7. LockOK(e)'
  <2> SUFFICES ASSUME NEW q \in Proc
               PROVE  Agrees(q, e)'
    BY DEF LockOK
  <2>1. CASE q = p
    BY <1>1, <1>4, <1>5, <1>6, <2>1 DEF LockOK, Agrees
  <2>2. CASE q # p
    BY <1>1, <1>4, <1>5, <1>6, <2>2 DEF LockOK, Agrees, Unmoved, Keeps
  <2> QED BY <2>1, <2>2
<1>8. OnlyAt(e)
  BY <1>0, <1>3 DEF OnlyAt, TypeOK, Drained
<1> QED BY <1>1, <1>3, <1>7, <1>8, TakenInvariant DEF Taking

LEMMA TryLockKeeps ==
    ASSUME LockInvariant, NEW p \in Proc, TryLock(p)
    PROVE  LockInvariant'
<1>0. TypeOK /\ TableOK /\ ProcOK(p) /\ \A e \in Entry : LockOK(e)
  BY DEF LockInvariant
<1>1. proc[p].pc = "lock" /\ ~Step(p).shared /\ Advance(p)
  BY DEF TryLock
<1>2. Top(p) \in Entry
  BY <1>0, <1>1, AtLock
<1>3. PICK e \in Entry : e = Top(p)
  BY <1>2
<1>4. LockOK(e)
  BY <1>0
<1>5. /\ Shares(p, e)' <=> Step(p).shared
      /\ Excludes(p, e)' <=> ~Step(p).shared
      /\ ~Awaits(p, e)' /\ ~Drains(p, e)'
      /\ ~Shares(p, e) /\ ~Excludes(p, e)
      /\ \A q \in Proc \ {p} : Unmoved(q, e)
  BY <1>0, <1>1, <1>3, TakenAt DEF Taking
<1>6. /\ ~Awaits(p, e) /\ ~Drains(p, e) /\ writer[e] = None /\ readers[e] = {}
      /\ readers' = readers /\ waiting' = waiting /\ writer'[e] = p
  BY <1>0, <1>1, <1>3 DEF TryLock, Awaits, Drains, LockIsFree, TypeOK, ProcOK
<1>7. LockOK(e)'
  <2> SUFFICES ASSUME NEW q \in Proc
               PROVE  Agrees(q, e)'
    BY DEF LockOK
  <2>1. CASE q = p
    BY <1>1, <1>4, <1>5, <1>6, NoneAssumption, <2>1 DEF LockOK, Agrees
  <2>2. CASE q # p
    BY <1>1, <1>4, <1>5, <1>6, NoneAssumption, <2>2 DEF LockOK, Agrees, Unmoved, Keeps
  <2> QED BY <2>1, <2>2
<1>8. OnlyAt(e)
  BY <1>0, <1>3 DEF OnlyAt, TypeOK, TryLock
<1> QED BY <1>1, <1>3, <1>7, <1>8, TakenInvariant DEF Taking

LEMMA AnnounceKeeps ==
    ASSUME LockInvariant, NEW p \in Proc, Announce(p)
    PROVE  LockInvariant'
<1>0. TypeOK /\ TableOK /\ ProcOK(p) /\ \A e \in Entry : LockOK(e)
  BY DEF LockInvariant
<1>1. proc[p].pc = "lock" /\ ~Step(p).shared /\ Goto(p, "drain")
  BY DEF Announce
<1>2. Top(p) \in Entry
  BY <1>0, <1>1, AtLock
<1>3. PICK e \in Entry : e = Top(p)
  BY <1>2
<1>4. LockOK(e)
  BY <1>0
<1>5. /\ ~Shares(p, e)' /\ ~Excludes(p, e)' /\ ~Awaits(p, e)' /\ Drains(p, e)'
      /\ ~Shares(p, e) /\ ~Excludes(p, e)
      /\ \A q \in Proc \ {p} : Unmoved(q, e)
  BY <1>0, <1>1, <1>3, UntakenAt
<1>6. /\ ~Awaits(p, e) /\ ~Drains(p, e) /\ writer[e] = None
      /\ readers' = readers /\ waiting' = waiting /\ writer'[e] = p
  BY <1>0, <1>1, <1>3 DEF Announce, Awaits, Drains, TypeOK
<1>7. LockOK(e)'
  <2> SUFFICES ASSUME NEW q \in Proc
               PROVE  Agrees(q, e)'
    BY DEF LockOK
  <2>1. CASE q = p
    BY <1>1, <1>4, <1>5, <1>6, NoneAssumption, <2>1 DEF LockOK, Agrees
  <2>2. CASE q # p
    BY <1>1, <1>4, <1>5, <1>6, NoneAssumption, <2>2 DEF LockOK, Agrees, Unmoved, Keeps
  <2> QED BY <2>1, <2>2
<1>8. OnlyAt(e)
  BY <1>0, <1>3 DEF OnlyAt, TypeOK, Announce
<1>9. "drain" \in Taking \cup {"ref", "work", "unlock", "unref"}
  BY DEF Taking
<1> QED BY <1>1, <1>3, <1>7, <1>8, <1>9, MoveInvariant

LEMMA TryFailsKeeps ==
    ASSUME LockInvariant, NEW p \in Proc, TryFails(p)
    PROVE  LockInvariant'
<1>0. TypeOK /\ TableOK /\ ProcOK(p) /\ \A e \in Entry : LockOK(e)
  BY DEF LockInvariant
<1>1. proc[p].pc = "lock" /\ Goto(p, "unref")
  BY DEF TryFails
<1>2. Top(p) \in Entry
  BY <1>0, <1>1, AtLock
<1>3. PICK e \in Entry : e = Top(p)
  BY <1>2
<1>4. LockOK(e)
  BY <1>0
<1>5. /\ ~Shares(p, e)' /\ ~Excludes(p, e)' /\ ~Awaits(p, e)' /\ ~Drains(p, e)'
      /\ ~Shares(p, e) /\ ~Excludes(p, e)
      /\ \A q \in Proc \ {p} : Unmoved(q, e)
  BY <1>0, <1>1, <1>3, UntakenAt
<1>6. /\ ~Awaits(p, e) /\ ~Drains(p, e)
      /\ readers' = readers /\ waiting' = waiting /\ writer' = writer
  BY <1>0, <1>1, <1>3 DEF TryFails, Awaits, Drains, TypeOK
<1>7. LockOK(e)'
  <2> SUFFICES ASSUME NEW q \in Proc
               PROVE  Agrees(q, e)'
    BY DEF LockOK
  <2>1. CASE q = p
    BY <1>1, <1>4, <1>5, <1>6, <2>1 DEF LockOK, Agrees
  <2>2. CASE q # p
    BY <1>1, <1>4, <1>5, <1>6, <2>2 DEF LockOK, Agrees, Unmoved, Keeps
  <2> QED BY <2>1, <2>2
<1>8. OnlyAt(e)
  BY <1>0, <1>3 DEF OnlyAt, TypeOK, TryFails
<1>9. "unref" \in Taking \cup {"ref", "work", "unlock", "unref"}
  BY DEF Taking
<1> QED BY <1>1, <1>3, <1>7, <1>8, <1>9, MoveInvariant

LEMMA RUnlockKeeps ==
    ASSUME LockInvariant, NEW p \in Proc, RUnlock(p)
    PROVE  LockInvariant'
<1>0. TypeOK /\ TableOK /\ ProcOK(p) /\ \A e \in Entry : LockOK(e)
  BY DEF LockInvariant
<1>1. proc[p].pc = "unlock" /\ Step(p).shared /\ Goto(p, "unref")
  BY DEF RUnlock
<1>2. Top(p) \in Entry
  BY <1>0, <1>1, AtLock
<1>3. PICK e \in Entry : e = Top(p)
  BY <1>2
<1>4. LockOK(e)
  BY <1>0
<1>5. /\ ~Shares(p, e)' /\ ~Excludes(p, e)' /\ ~Awaits(p, e)' /\ ~Drains(p, e)'
      /\ Shares(p, e) /\ ~Excludes(p, e)
      /\ \A q \in Proc \ {p} : Unmoved(q, e)
  BY <1>0, <1>1, <1>3, GivenAt
<1>6. /\ ~Awaits(p, e) /\ ~Drains(p, e)
      /\ readers'[e] = readers[e] \ {p} /\ waiting' = waiting /\ writer' = writer
  BY <1>0, <1>1, <1>3 DEF RUnlock, Awaits, Drains, TypeOK
<1>7. LockOK(e)'
  <2> SUFFICES ASSUME NEW q \in Proc
               PROVE  Agrees(q, e)'
    BY DEF LockOK
  <2>1. CASE q = p
    BY <1>1, <1>4, <1>5, <1>6, <2>1 DEF LockOK, Agrees
  <2>2. CASE q # p
    BY <1>1, <1>4, <1>5, <1>6, <2>2 DEF LockOK, Agrees, Unmoved, Keeps
  <2> QED BY <2>1, <2>2
<1>8. OnlyAt(e)
  BY <1>0, <1>3 DEF OnlyAt, TypeOK, RUnlock
<1>9. "unref" \in Taking \cup {"ref", "work", "unlock", "unref"}
  BY DEF Taking
<1> QED BY <1>1, <1>3, <1>7, <1>8, <1>9, MoveInvariant

LEMMA UnlockKeeps ==
    ASSUME LockInvariant, NEW p \in Proc, Unlock(p)
    PROVE  LockInvariant'
<1>0. TypeOK /\ TableOK /\ ProcOK(p) /\ \A e \in Entry : LockOK(e)
  BY DEF LockInvariant
<1>1. proc[p].pc = "unlock" /\ ~Step(p).shared /\ Goto(p, "unref")
  BY DEF Unlock
<1>2. Top(p) \in Entry
  BY <1>0, <1>1, AtLock
<1>3. PICK e \in Entry : e = Top(p)
  BY <1>2
<1>4. LockOK(e)
  BY <1>0
<1>5. /\ ~Shares(p, e)' /\ ~Excludes(p, e)' /\ ~Awaits(p, e)' /\ ~Drains(p, e)'
      /\ ~Shares(p, e) /\ Excludes(p, e)
      /\ \A q \in Proc \ {p} : Unmoved(q, e)
  BY <1>0, <1>1, <1>3, GivenAt
<1>6. /\ ~Awaits(p, e) /\ readers'[e] = readers[e] \cup waiting[e]
      /\ waiting'[e] = {} /\ writer'[e] = None
  BY <1>0, <1>1, <1>3 DEF Unlock, Awaits, Drains, TypeOK
<1>7. LockOK(e)'
  <2> SUFFICES ASSUME NEW q \in Proc
               PROVE  Agrees(q, e)'
    BY DEF LockOK
  <2>1. CASE q = p
    BY <1>1, <1>4, <1>5, <1>6, NoneAssumption, <2>1 DEF LockOK, Agrees
  <2>2. CASE q # p
    BY <1>1, <1>4, <1>5, <1>6, NoneAssumption, <2>2 DEF LockOK, Agrees, Unmoved, Keeps
  <2> QED BY <2>1, <2>2
<1>8. OnlyAt(e)
  BY <1>0, <1>3 DEF OnlyAt, TypeOK, Unlock
<1>9. "unref" \in Taking \cup {"ref", "work", "unlock", "unref"}
  BY DEF Taking
<1> QED BY <1>1, <1>3, <1>7, <1>8, <1>9, MoveInvariant

LEMMA FinishKeeps ==
    ASSUME LockInvariant, NEW p \in Proc, Finish(p)
    PROVE  LockInvariant'
<1>0. TypeOK /\ TableOK /\ ProcOK(p) /\ \A e \in Entry : LockOK(e)
  BY DEF LockInvariant
<1>1. proc[p].pc = "work" /\ Goto(p, "unlock")
  BY DEF Finish
<1>2. Top(p) \in Entry
  BY <1>0, <1>1, AtLock
<1>3. PICK e \in Entry : e = Top(p)
  BY <1>2
<1>4. \A q \in Proc : Unmoved(q, e)
  <2>1. proc'[p].own = proc[p].own /\ proc'[p].plan = proc[p].plan /\ proc'[p].pc = "unlock"
    BY <1>0, <1>1, GotoMoves
  <2>2. Keeps(p, e)
    BY <1>1, <2>1, MoveKeeps DEF Settled
  <2>3. Unmoved(p, e)
    BY <1>1, <2>1, <2>2 DEF Unmoved, Awaits, Drains
  <2> QED BY <1>0, <1>1, <2>3, OthersUnmoved
<1>5. readers' = readers /\ waiting' = waiting /\ writer' = writer
  BY DEF Finish
<1>6. LockOK(e)'
  BY <1>0, <1>4, <1>5, StillOK
<1>7. OnlyAt(e)
  BY <1>0, <1>5 DEF OnlyAt, TypeOK, Finish
<1> QED BY <1>1, <1>3, <1>6, <1>7, MoveInvariant

-----------------------------------------------------------------------------
(* Steps at the table: they leave the lock objects alone. *)

\* The lock objects agree with the processes as before if no process changed
\* what it says of any.
LEMMA LocksStill ==
    ASSUME LockInvariant, NEW p \in Proc,
           \A q \in Proc \ {p} : proc'[q] = proc[q],
           \A e \in Entry :
               /\ Shares(p, e)' <=> Shares(p, e)
               /\ Excludes(p, e)' <=> Excludes(p, e),
           proc[p].pc \notin Taking, proc'[p].pc \notin {"blocked", "drain"},
           UNCHANGED <<readers, waiting, writer>>
    PROVE  \A e \in Entry : LockOK(e)'
<1> SUFFICES ASSUME NEW e \in Entry, NEW q \in Proc
             PROVE  Agrees(q, e)'
  BY DEF LockOK
<1>1. Agrees(q, e)
  BY DEF LockInvariant, LockOK
<1>2. CASE q = p
  <2>1. ~Awaits(p, e) /\ ~Drains(p, e) /\ ~Awaits(p, e)' /\ ~Drains(p, e)'
    BY DEF Awaits, Drains, Taking
  <2> QED BY <1>1, <1>2, <2>1 DEF Agrees
<1>3. CASE q # p
  <2>1. Unmoved(q, e)
    BY <1>3, BystanderUnmoved
  <2> QED BY <1>1, <2>1 DEF Agrees, Unmoved, Keeps
<1> QED BY <1>2, <1>3

LEMMA BeginKeeps ==
    ASSUME LockInvariant, NEW p \in Proc, NEW plan \in Plan, Begin(p, plan)
    PROVE  LockInvariant'
<1>0. TypeOK /\ TableOK /\ ProcOK(p)
  BY DEF LockInvariant
<1>1. /\ proc'[p] = [pc |-> "ref", plan |-> plan, own |-> <<>>]
      /\ \A q \in Proc \ {p} : proc'[q] = proc[q]
  BY <1>0 DEF Begin, TypeOK
<1>2. proc[p].pc = "idle" /\ proc[p].own = <<>> /\ proc'[p].own = <<>>
  BY <1>0, <1>1 DEF Begin, ProcOK
<1>3. \A e : /\ ~Uses(p, e) /\ ~Shares(p, e) /\ ~Excludes(p, e)
             /\ ~Uses(p, e)' /\ ~Shares(p, e)' /\ ~Excludes(p, e)'
  BY <1>2 DEF Uses, Shares, Excludes, Depth
<1>4. \A e \in Entry : LockOK(e)'
  BY <1>1, <1>2, <1>3, LocksStill DEF Begin, Taking
<1>5. \A q \in Proc : proc'[q].own = proc[q].own
  BY <1>1, <1>2
<1>6. ASSUME NEW e
      PROVE  Users(e)' = Users(e)
  BY <1>5 DEF Users, Uses, Depth
<1>7. \A e \in Entry : CountOK(e)'
  BY <1>6 DEF LockInvariant, CountOK, Begin
<1>8. TableOK'
  <2>1. table' = table
    BY DEF Begin
  <2>2. \A k \in Key : Users(table[k])' = Users(table[k])
    BY <1>6, <2>1
  <2> QED BY <1>0, <2>1, <2>2 DEF TableOK
<1>9. \A q \in Proc : ProcOK(q)'
  <2>1. ProcOK(p)'
    BY <1>1, PlanAssumption DEF ProcOK, Depth
  <2>2. ASSUME NEW q \in Proc \ {p}
        PROVE  ProcOK(q)'
    <3>1. ProcOK(q) /\ proc'[q] = proc[q] /\ table' = table
      BY <1>1 DEF LockInvariant, Begin
    <3> QED BY <3>1 DEF ProcOK, Depth, Step
  <2> QED BY <2>1, <2>2
<1>10. TypeOK'
  BY <1>0 DEF TypeOK, Begin
<1> QED BY <1>4, <1>7, <1>8, <1>9, <1>10 DEF LockInvariant

\* A lock object the table does not have, nobody has.
LEMMA Unreferenced ==
    ASSUME LockInvariant, NEW e \in Entry, \A k \in Key : table[k] # e
    PROVE  /\ \A q \in Proc : ~Uses(q, e) /\ ~Excludes(q, e)
           /\ refs[e] = 0 /\ readers[e] = {} /\ waiting[e] = {} /\ writer[e] = None
<1>0. TypeOK /\ TableOK /\ \A q \in Proc : ProcOK(q)
  BY DEF LockInvariant
<1>1. ASSUME NEW q \in Proc
      PROVE  ~Uses(q, e)
  <2>1. CASE proc[q].pc = "idle"
    BY <1>0, <2>1, IdleUsesNothing DEF ProcOK
  <2>2. CASE proc[q].pc # "idle"
    <3>1. \A i \in 1 .. Depth(q) : proc[q].plan[i].key \in Key
      BY <1>0, <2>2, OwnDistinct
    <3>2. \A i \in 1 .. Depth(q) : proc[q].own[i] = table[proc[q].plan[i].key]
      BY <1>0 DEF ProcOK
    <3> QED BY <3>1, <3>2 DEF Uses
  <2> QED BY <2>1, <2>2
<1>2. refs[e] = 0
  <2>1. Users(e) = {}
    BY <1>1 DEF Users
  <2> QED BY <2>1, FS_EmptySet DEF LockInvariant, CountOK
<1>3. \A q \in Proc : ~Shares(q, e) /\ ~Excludes(q, e) /\ ~Awaits(q, e) /\ ~Drains(q, e)
  BY <1>0, <1>1, ClaimsAreUses
<1>4. \A q \in Proc : q \notin readers[e] /\ q \notin waiting[e] /\ writer[e] # q
  BY <1>3 DEF LockInvariant, LockOK, Agrees
<1> QED BY <1>0, <1>1, <1>2, <1>3, <1>4 DEF TypeOK

\* There is always a lock object to make.
LEMMA NewEntryIsNew ==
    ASSUME LockInvariant
    PROVE  NewEntry \in Entry /\ \A k \in Key : table[k] # NewEntry
<1>1. \E e \in Entry : \A k \in Key : table[k] # e
  BY EntryAssumption DEF LockInvariant, TypeOK
<1>2. \E e \in Entry :
          refs[e] = 0 /\ (\A k \in Key : table[k] # e) /\ readers[e] = {}
              /\ waiting[e] = {} /\ writer[e] = None
  BY <1>1, Unreferenced
<1> QED BY <1>2 DEF NewEntry

LEMMA UsersFinite == \A e : IsFiniteSet(Users(e))
BY ProcAssumption, FS_Subset DEF Users

LEMMA OneMore ==
    ASSUME NEW S, NEW x, IsFiniteSet(S), x \notin S
    PROVE  Cardinality(S \cup {x}) = Cardinality(S) + 1
BY FS_AddElement

LEMMA OneLess ==
    ASSUME NEW S, NEW x, IsFiniteSet(S), x \in S
    PROVE  Cardinality(S \ {x}) = Cardinality(S) - 1
BY FS_RemoveElement

\* Whoever does not move stays in its plan if the table keeps its entries.
LEMMA BystanderOK ==
    ASSUME LockInvariant, NEW q \in Proc, proc'[q] = proc[q],
           \A k \in Key : table[k] # None /\ Uses(q, table[k]) => table'[k] = table[k]
    PROVE  ProcOK(q)'
<1>0. TypeOK /\ TableOK /\ ProcOK(q)
  BY DEF LockInvariant
<1>1. Depth(q)' = Depth(q) /\ Step(q)' = Step(q)
  BY DEF Depth, Step
<1>2. ASSUME NEW i \in 1 .. Depth(q)
      PROVE  proc[q].own[i] = table'[proc[q].plan[i].key]
  <2>1. proc[q].pc # "idle"
    BY <1>0 DEF ProcOK, Depth
  <2>2. proc[q].own[i] \in Entry /\ proc[q].plan[i].key \in Key
    BY <1>0, <2>1, OwnDistinct
  <2>3. proc[q].own[i] = table[proc[q].plan[i].key]
    BY <1>0 DEF ProcOK
  <2>4. Uses(q, proc[q].own[i])
    BY DEF Uses
  <2> QED BY <2>2, <2>3, <2>4, NoneAssumption
<1> QED BY <1>0, <1>1, <1>2 DEF ProcOK

\* What a step at the table does to those who hold locks: nothing, as it adds or
\* drops only a lock object nobody else has.
TableMoves ==
    /\ readers' = readers
    /\ \A q \in Proc : \A e \in Entry : Excludes(q, e)' <=> Excludes(q, e)
    /\ \A k \in Key :
          \/ table'[k] = table[k]
          \/ table[k] = None /\ \A l \in Key : table[l] # table'[k]
          \/ table'[k] = None /\ \A l \in Key : table'[l] # table[k]

\* The entry a reference is taken to: the one the table has, or a new one.
LEMMA RefKeeps ==
    ASSUME LockInvariant, NEW p \in Proc, Ref(p)
    PROVE  LockInvariant' /\ TableMoves
<1>0. TypeOK /\ TableOK /\ ProcOK(p)
  BY DEF LockInvariant
<1> DEFINE n == Depth(p) + 1
           k == proc[p].plan[n].key
<1>1. proc[p].pc = "ref"
  BY DEF Ref
<1>2. /\ proc[p].plan \in Plan /\ Depth(p) \in Nat /\ n \in 1 .. Len(proc[p].plan)
      /\ \A i \in 1 .. Depth(p) : i \in 1 .. Len(proc[p].plan) /\ i # n
  <2>1. proc[p].plan \in Plan /\ Depth(p) \in Nat /\ Depth(p) < Len(proc[p].plan)
    BY <1>0, <1>1 DEF ProcOK, TypeOK, Depth
  <2>2. Len(proc[p].plan) \in Nat
    BY <2>1, PlanAssumption
  <2> QED BY <2>1, <2>2
<1>3. proc[p].plan \in Seq([key : Key, shared : BOOLEAN, try : BOOLEAN])
  BY <1>2, PlanAssumption
<1>4. k \in Key
  <2>1. proc[p].plan[n] \in [key : Key, shared : BOOLEAN, try : BOOLEAN]
    BY <1>2, <1>3, ElementOfSeq
  <2> QED BY <2>1
<1>5. \A i \in 1 .. Depth(p) : proc[p].plan[i].key # k
  BY <1>2, PlanAssumption
<1>6. PICK e : e = IF table[k] = None THEN NewEntry ELSE table[k]
  OBVIOUS
<1>7. e \in Entry
  BY <1>0, <1>4, <1>6, NewEntryIsNew DEF TypeOK
<1>8. /\ table' = [table EXCEPT ![k] = e]
      /\ refs' = [refs EXCEPT ![e] = @ + 1]
      /\ proc' = [proc EXCEPT ![p].pc = "lock", ![p].own = Append(@, e)]
      /\ UNCHANGED <<readers, waiting, writer>>
  BY <1>6 DEF Ref, Counted, Depth
<1> HIDE DEF n, k
<1>9. /\ proc'[p].pc = "lock" /\ proc'[p].plan = proc[p].plan
      /\ proc'[p].own = Append(proc[p].own, e)
      /\ \A q \in Proc \ {p} : proc'[q] = proc[q]
  BY <1>0, <1>8 DEF TypeOK
<1>10. /\ table[k] = None \/ table[k] = e
       /\ \A l \in Key : l # k => table[l] # e
  <2>1. CASE table[k] = None
    BY <2>1, <1>6, NewEntryIsNew
  <2>2. CASE table[k] # None
    BY <2>2, <1>0, <1>4, <1>6 DEF TableOK
  <2> QED BY <2>1, <2>2
<1>11. \A l \in Key : table'[l] = IF l = k THEN e ELSE table[l]
  BY <1>0, <1>8 DEF TypeOK
<1>12. ~Uses(p, e)
  <2> SUFFICES ASSUME NEW i \in 1 .. Depth(p), proc[p].own[i] = e
               PROVE  FALSE
    BY DEF Uses
  <2>1. proc[p].plan[i].key \in Key /\ table[proc[p].plan[i].key] = e
    BY <1>0, <1>1, OwnDistinct DEF ProcOK
  <2> QED BY <2>1, <1>5, <1>10
<1>13. ASSUME NEW x \in Entry
       PROVE  /\ Uses(p, x)' <=> Uses(p, x) \/ x = e
              /\ Shares(p, x)' <=> Shares(p, x)
              /\ Excludes(p, x)' <=> Excludes(p, x)
  BY <1>0, <1>1, <1>7, <1>9, PushAdds
<1>14. ASSUME NEW q \in Proc \ {p}, NEW x \in Entry
       PROVE  Uses(q, x)' <=> Uses(q, x)
  BY <1>9, BystanderUnmoved DEF Unmoved, Keeps
<1>15. ASSUME NEW x \in Entry
       PROVE  Users(x)' = IF x = e THEN Users(x) \cup {p} ELSE Users(x)
  BY <1>13, <1>14 DEF Users
<1>16. ASSUME NEW x \in Entry
       PROVE  CountOK(x)'
  <2>1. refs[x] = Cardinality(Users(x))
    BY DEF LockInvariant, CountOK
  <2>2. CASE x = e
    <3>1. Cardinality(Users(x) \cup {p}) = Cardinality(Users(x)) + 1
      BY <1>12, <2>2, UsersFinite, OneMore DEF Users
    <3>2. refs'[x] = refs[x] + 1
      BY <1>0, <1>8, <2>2 DEF TypeOK
    <3> QED BY <1>15, <2>1, <2>2, <3>1, <3>2 DEF CountOK
  <2>3. CASE x # e
    BY <1>0, <1>8, <1>15, <2>1, <2>3 DEF CountOK, TypeOK
  <2> QED BY <2>2, <2>3
<1>17. \A x \in Entry : LockOK(x)'
  BY <1>1, <1>8, <1>9, <1>13, LocksStill DEF Taking
<1>18. TableOK'
  <2>1. ASSUME NEW l \in Key, NEW m \in Key, table'[l] # None, table'[l] = table'[m]
        PROVE  l = m
    BY <1>0, <1>10, <1>11, <2>1 DEF TableOK
  <2>2. ASSUME NEW l \in Key, table'[l] # None
        PROVE  Users(table[l])' # {}
    <3>1. PICK x \in Entry : x = table'[l]
      BY <1>0, <1>7, <1>11, <2>2 DEF TypeOK
    <3>2. CASE x = e
      BY <1>15, <3>1, <3>2
    <3>3. CASE x # e
      BY <1>0, <1>11, <1>15, <2>2, <3>1, <3>3 DEF TableOK
    <3> QED BY <3>2, <3>3
  <2> QED BY <2>1, <2>2 DEF TableOK
<1>19. ProcOK(p)'
  <2>1. Depth(p)' = n /\ n = Depth(p) + 1
    BY <1>0, <1>9 DEF Depth, TypeOK, n
  <2>2. n <= Len(proc[p].plan) /\ n > 0 /\ proc[p].plan \in Plan
    BY <1>2, <1>3, <2>1
  <2>3. ASSUME NEW i \in 1 .. n
        PROVE  proc'[p].own[i] = table'[proc[p].plan[i].key]
    <3>1. CASE i = n
      <4>1. proc'[p].own[i] = e
        BY <1>0, <1>9, <2>1, <3>1 DEF TypeOK, Depth
      <4> QED BY <1>4, <1>11, <3>1, <4>1 DEF k
    <3>2. CASE i # n
      <4>1. i \in 1 .. Depth(p)
        BY <1>2, <2>1, <3>2
      <4>2. proc'[p].own[i] = proc[p].own[i]
        BY <1>0, <1>9, <4>1 DEF TypeOK, Depth
      <4>3. proc[p].plan[i].key \in Key /\ proc[p].plan[i].key # k
        BY <1>0, <1>1, <1>5, <4>1, OwnDistinct
      <4> QED BY <1>0, <1>11, <4>1, <4>2, <4>3 DEF ProcOK
    <3> QED BY <3>1, <3>2
  <2> QED BY <1>9, <2>1, <2>2, <2>3 DEF ProcOK
<1>20. ASSUME NEW q \in Proc \ {p}
       PROVE  ProcOK(q)'
  <2>1. \A l \in Key : table[l] # None => table'[l] = table[l]
    BY <1>10, <1>11
  <2> QED BY <1>9, <2>1, BystanderOK
<1>21. TypeOK'
  <2>1. table' \in [Key -> Entry \cup {None}]
    BY <1>0, <1>4, <1>7, <1>8 DEF TypeOK
  <2>2. refs' \in [Entry -> Nat]
    BY <1>0, <1>7, <1>8 DEF TypeOK
  <2>3. proc[p].own \in Seq(Entry) /\ Append(proc[p].own, e) \in Seq(Entry)
    BY <1>0, <1>7 DEF TypeOK
  <2>4. proc' = [proc EXCEPT ![p] =
                    [pc |-> "lock", plan |-> proc[p].plan, own |-> Append(proc[p].own, e)]]
    BY <1>0, <1>8 DEF TypeOK
  <2>5. proc' \in [Proc -> [pc : Taking \cup {"idle", "ref", "work", "unlock", "unref"},
                            plan : Plan \cup {<<>>}, own : Seq(Entry)]]
    BY <1>0, <2>3, <2>4 DEF TypeOK, Taking
  <2> QED BY <1>0, <1>8, <2>1, <2>2, <2>5 DEF TypeOK
<1>22. TableMoves
  <2>1. \A q \in Proc : \A x \in Entry : Excludes(q, x)' <=> Excludes(q, x)
    <3>1. \A q \in Proc \ {p} : \A x \in Entry : Unmoved(q, x)
      BY <1>9, BystanderUnmoved
    <3> QED BY <1>13, <3>1 DEF Unmoved, Keeps
  <2> QED BY <1>8, <1>10, <1>11, <2>1 DEF TableMoves
<1> QED BY <1>16, <1>17, <1>18, <1>19, <1>20, <1>21, <1>22 DEF LockInvariant

\* A reference given back; the last one takes the entry with it.
LEMMA UnrefKeeps ==
    ASSUME LockInvariant, NEW p \in Proc, Unref(p)
    PROVE  LockInvariant' /\ TableMoves
<1>0. TypeOK /\ TableOK /\ ProcOK(p)
  BY DEF LockInvariant
<1>1. proc[p].pc = "unref"
  BY DEF Unref
<1>2. /\ Depth(p) \in Nat /\ Depth(p) > 0 /\ Depth(p) <= Len(proc[p].plan)
      /\ proc[p].plan \in Plan
      /\ Top(p) \in Entry /\ Step(p).key \in Key
      /\ table[Step(p).key] = Top(p) /\ Uses(p, Top(p))
      /\ \A i, j \in 1 .. Depth(p) : proc[p].own[i] = proc[p].own[j] => i = j
  BY <1>0, <1>1, AtLock, OwnDistinct
<1>3. PICK e \in Entry : e = Top(p)
  BY <1>2
<1>4. PICK k \in Key : k = Step(p).key
  BY <1>2
<1>5. PICK rest : rest = SubSeq(proc[p].own, 1, Depth(p) - 1)
  OBVIOUS
<1>6. /\ rest \in Seq(Entry) /\ Len(rest) = Depth(p) - 1
      /\ \A i \in 1 .. (Depth(p) - 1) : rest[i] = proc[p].own[i]
      /\ rest # <<>> => Depth(p) > 1
  <2>1. /\ rest \in Seq(Entry) /\ Len(rest) = Depth(p) - 1
        /\ \A i \in 1 .. (Depth(p) - 1) : rest[i] = proc[p].own[i]
    BY <1>0, <1>2, <1>5 DEF TypeOK, Depth
  <2>2. rest # <<>> => Len(rest) # 0
    BY <2>1, EmptySeq
  <2> QED BY <1>2, <2>1, <2>2
<1>7. /\ refs' = [refs EXCEPT ![e] = @ - 1]
      /\ table' = IF refs[e] = 1 THEN [table EXCEPT ![k] = None] ELSE table
      /\ proc' = [proc EXCEPT ![p] = IF rest = <<>> THEN AtRest
                                     ELSE [@ EXCEPT !.pc = "unlock", !.own = rest]]
      /\ UNCHANGED <<readers, waiting, writer>>
  BY <1>3, <1>4, <1>5 DEF Unref, LastRef, Depth
<1>8. /\ \A q \in Proc \ {p} : proc'[q] = proc[q]
      /\ rest = <<>> => proc'[p] = AtRest
      /\ rest # <<>> => /\ proc'[p].pc = "unlock" /\ proc'[p].plan = proc[p].plan
                        /\ proc'[p].own = rest
  BY <1>0, <1>7 DEF TypeOK
<1>9. proc'[p].own = rest /\ proc'[p].pc \in {"idle", "unlock"}
  BY <1>8 DEF AtRest
<1>10. ASSUME NEW x \in Entry
       PROVE  /\ Uses(p, x)' <=> Uses(p, x) /\ x # e
              /\ Shares(p, x)' <=> Shares(p, x)
              /\ Excludes(p, x)' <=> Excludes(p, x)
  BY <1>0, <1>1, <1>2, <1>3, <1>5, <1>8, <1>9, PopDrops
<1>11. ASSUME NEW q \in Proc \ {p}, NEW x \in Entry
       PROVE  Uses(q, x)' <=> Uses(q, x)
  BY <1>8, BystanderUnmoved DEF Unmoved, Keeps
<1>12. ASSUME NEW x \in Entry
       PROVE  Users(x)' = IF x = e THEN Users(x) \ {p} ELSE Users(x)
  BY <1>10, <1>11 DEF Users
<1>13. /\ IsFiniteSet(Users(e) \ {p}) /\ Cardinality(Users(e) \ {p}) \in Nat
       /\ refs[e] = Cardinality(Users(e) \ {p}) + 1
  <2>1. IsFiniteSet(Users(e)) /\ p \in Users(e)
    BY <1>2, <1>3, UsersFinite DEF Users
  <2>2. Cardinality(Users(e) \ {p}) = Cardinality(Users(e)) - 1
    BY <2>1, OneLess
  <2>3. IsFiniteSet(Users(e) \ {p}) /\ Cardinality(Users(e) \ {p}) \in Nat
    BY <2>1, FS_RemoveElement, FS_CardinalityType
  <2>4. refs[e] = Cardinality(Users(e)) /\ refs[e] \in Nat
    BY <1>0 DEF LockInvariant, CountOK, TypeOK
  <2> QED BY <2>2, <2>3, <2>4
<1>14. refs[e] = 1 <=> Users(e) \ {p} = {}
  <2>1. Cardinality(Users(e) \ {p}) = 0 <=> Users(e) \ {p} = {}
    BY <1>13, FS_EmptySet
  <2> QED BY <1>13, <2>1
<1>15. ASSUME NEW x \in Entry
       PROVE  CountOK(x)'
  <2>1. refs[x] = Cardinality(Users(x))
    BY DEF LockInvariant, CountOK
  <2>2. CASE x = e
    <3>1. refs'[x] = refs[e] - 1
      BY <1>0, <1>7, <2>2 DEF TypeOK
    <3>2. refs'[x] = Cardinality(Users(e) \ {p})
      BY <1>13, <3>1
    <3> QED BY <1>12, <2>2, <3>2 DEF CountOK
  <2>3. CASE x # e
    BY <1>0, <1>7, <1>12, <2>1, <2>3 DEF CountOK, TypeOK
  <2> QED BY <2>2, <2>3
<1>16. \A x \in Entry : LockOK(x)'
  <2>1. proc[p].pc \notin Taking /\ proc'[p].pc \notin {"blocked", "drain"}
    BY <1>1, <1>9 DEF Taking
  <2> QED BY <1>7, <1>8, <1>10, <2>1, LocksStill
<1>17. \A l \in Key : table'[l] = IF l = k /\ refs[e] = 1 THEN None ELSE table[l]
  BY <1>0, <1>7 DEF TypeOK
<1>18. table[k] = e /\ \A l \in Key : l # k => table[l] # e
  BY <1>0, <1>2, <1>3, <1>4, NoneAssumption DEF TableOK
<1>19. TableOK'
  <2>1. ASSUME NEW l \in Key, NEW m \in Key, table'[l] # None, table'[l] = table'[m]
        PROVE  l = m
    BY <1>0, <1>17, <2>1 DEF TableOK
  <2>2. ASSUME NEW l \in Key, table'[l] # None
        PROVE  Users(table[l])' # {}
    <3>1. PICK x \in Entry : x = table'[l] /\ x = table[l]
      BY <1>0, <1>17, <2>2 DEF TypeOK
    <3>2. CASE x = e
      BY <1>12, <1>14, <1>17, <1>18, <2>2, <3>1, <3>2
    <3>3. CASE x # e
      BY <1>0, <1>12, <2>2, <3>1, <3>3 DEF TableOK
    <3> QED BY <3>2, <3>3
  <2> QED BY <2>1, <2>2 DEF TableOK
<1>20. ASSUME NEW q \in Proc \ {p}
       PROVE  ProcOK(q)'
  <2>1. ASSUME NEW l \in Key, table[l] # None, Uses(q, table[l])
        PROVE  table'[l] = table[l]
    <3>1. CASE l = k /\ refs[e] = 1
      <4>1. q \in Users(e) \ {p}
        BY <1>18, <2>1, <3>1 DEF Users
      <4> QED BY <1>14, <3>1, <4>1
    <3>2. CASE ~(l = k /\ refs[e] = 1)
      BY <1>17, <3>2
    <3> QED BY <3>1, <3>2
  <2> QED BY <1>8, <2>1, BystanderOK
<1>21. ProcOK(p)'
  <2>1. CASE rest = <<>>
    <3>1. proc'[p].pc = "idle" /\ proc'[p].own = <<>> /\ Depth(p)' = 0
      BY <1>8, <2>1 DEF AtRest, Depth
    <3> QED BY <3>1 DEF ProcOK
  <2>2. CASE rest # <<>>
    <3>1. Depth(p)' = Depth(p) - 1 /\ Depth(p)' > 0
      BY <1>2, <1>6, <1>9, <2>2 DEF Depth
    <3>2. ASSUME NEW i \in 1 .. Depth(p)'
          PROVE  proc'[p].own[i] = table'[proc[p].plan[i].key]
      <4>1. i \in 1 .. Depth(p) /\ i # Depth(p) /\ Depth(p) \in 1 .. Depth(p)
        BY <1>2, <3>1
      <4>2. proc'[p].own[i] = proc[p].own[i]
        BY <1>2, <1>6, <1>9, <3>1
      <4>3. proc[p].own[i] # e
        BY <1>2, <1>3, <4>1 DEF Top, Depth
      <4>4. proc[p].own[i] = table[proc[p].plan[i].key] /\ proc[p].plan[i].key \in Key
        BY <1>0, <1>1, <4>1, OwnDistinct DEF ProcOK
      <4> QED BY <1>17, <1>18, <4>2, <4>3, <4>4
    <3> QED BY <1>2, <1>8, <2>2, <3>1, <3>2 DEF ProcOK
  <2> QED BY <2>1, <2>2
<1>22. TypeOK'
  <2>1. table' \in [Key -> Entry \cup {None}]
    BY <1>0, <1>7 DEF TypeOK
  <2>2. refs[e] - 1 \in Nat
    BY <1>13
  <2>3. refs' \in [Entry -> Nat]
    BY <1>0, <1>7, <2>2 DEF TypeOK
  <2>4. proc' \in [Proc -> [pc : Taking \cup {"idle", "ref", "work", "unlock", "unref"},
                            plan : Plan \cup {<<>>}, own : Seq(Entry)]]
    <3>1. CASE rest = <<>>
      <4>1. AtRest \in [pc : Taking \cup {"idle", "ref", "work", "unlock", "unref"},
                        plan : Plan \cup {<<>>}, own : Seq(Entry)]
        BY DEF AtRest
      <4> QED BY <1>0, <1>7, <3>1, <4>1 DEF TypeOK
    <3>2. CASE rest # <<>>
      <4>1. [proc[p] EXCEPT !.pc = "unlock", !.own = rest]
                \in [pc : Taking \cup {"idle", "ref", "work", "unlock", "unref"},
                    plan : Plan \cup {<<>>}, own : Seq(Entry)]
        BY <1>0, <1>6 DEF TypeOK
      <4>2. proc' = [proc EXCEPT ![p] = [proc[p] EXCEPT !.pc = "unlock", !.own = rest]]
        BY <1>7, <3>2
      <4> QED BY <1>0, <4>1, <4>2 DEF TypeOK
    <3> QED BY <3>1, <3>2
  <2> QED BY <1>0, <1>7, <2>1, <2>3, <2>4 DEF TypeOK
<1>23. TableMoves
  <2>1. \A q \in Proc : \A x \in Entry : Excludes(q, x)' <=> Excludes(q, x)
    <3>1. \A q \in Proc \ {p} : \A x \in Entry : Unmoved(q, x)
      BY <1>8, BystanderUnmoved
    <3> QED BY <1>10, <3>1 DEF Unmoved, Keeps
  <2>2. refs[e] = 1 => \A l \in Key : table'[l] # table[k]
    BY <1>17, <1>18, NoneAssumption
  <2> QED BY <1>7, <1>17, <2>1, <2>2 DEF TableMoves
<1> QED BY <1>15, <1>16, <1>19, <1>20, <1>21, <1>22, <1>23 DEF LockInvariant

-----------------------------------------------------------------------------
(* The theorems. *)

LEMMA InitInvariant == Init => LockInvariant
<1> SUFFICES ASSUME Init
             PROVE  LockInvariant
  OBVIOUS
<1>1. \A q \in Proc : proc[q].pc = "idle" /\ proc[q].own = <<>> /\ Depth(q) = 0
  BY DEF Init, AtRest, Depth
<1>2. \A q \in Proc : \A e :
          /\ ~Uses(q, e) /\ ~Shares(q, e) /\ ~Excludes(q, e)
          /\ ~Awaits(q, e) /\ ~Drains(q, e)
  BY <1>1, IdleUsesNothing DEF Awaits, Drains
<1>3. TypeOK
  <2>1. AtRest \in [pc : Taking \cup {"idle", "ref", "work", "unlock", "unref"},
                    plan : Plan \cup {<<>>}, own : Seq(Entry)]
    BY DEF AtRest
  <2> QED BY <2>1 DEF TypeOK, Init
<1>4. \A q \in Proc : ProcOK(q)
  BY <1>1 DEF ProcOK
<1>5. \A e \in Entry : CountOK(e)
  <2>1. \A e : Users(e) = {}
    BY <1>2 DEF Users
  <2> QED BY <2>1, FS_EmptySet DEF CountOK, Init
<1>6. \A e \in Entry : LockOK(e)
  BY <1>2, NoneAssumption DEF LockOK, Agrees, Init
<1>7. TableOK
  BY DEF TableOK, Init
<1> QED BY <1>3, <1>4, <1>5, <1>6, <1>7 DEF LockInvariant

LEMMA NextInvariant == LockInvariant /\ [Next]_vars => LockInvariant'
<1> SUFFICES ASSUME LockInvariant, [Next]_vars
             PROVE  LockInvariant'
  OBVIOUS
<1>1. ASSUME NEW p \in Proc, NEW plan \in Plan, Begin(p, plan)
      PROVE  LockInvariant'
  BY <1>1, BeginKeeps
<1>2. ASSUME NEW p \in Proc, Take(p)
      PROVE  LockInvariant'
  BY <1>2, RefKeeps, RLockKeeps, WokenKeeps, AnnounceKeeps, DrainedKeeps, TryLockKeeps,
     TryFailsKeeps DEF Take
<1>3. ASSUME NEW p \in Proc, Release(p)
      PROVE  LockInvariant'
  BY <1>3, FinishKeeps, RUnlockKeeps, UnlockKeeps, UnrefKeeps DEF Release
<1>4. CASE UNCHANGED vars
  <2>1. \A q \in Proc : proc'[q] = proc[q]
    BY <1>4 DEF vars
  <2>2. \A q \in Proc : Depth(q)' = Depth(q) /\ Step(q)' = Step(q)
    BY <2>1 DEF Depth, Step
  <2>3. \A e : Users(e)' = Users(e)
    BY <2>1 DEF Users, Uses, Depth
  <2>4. TypeOK'
    BY <1>4 DEF TypeOK, vars, LockInvariant
  <2>5. \A q \in Proc : ProcOK(q)'
    BY <1>4, <2>2 DEF ProcOK, vars, LockInvariant
  <2>6. \A e \in Entry : CountOK(e)'
    BY <1>4, <2>3 DEF CountOK, vars, LockInvariant
  <2>7. \A e \in Entry : LockOK(e)'
    <3>1. \A e \in Entry : \A q \in Proc : Unmoved(q, e)
      BY <2>1, BystanderUnmoved
    <3> QED BY <1>4, <3>1, StillOK DEF vars, LockInvariant
  <2>8. TableOK'
    <3>1. table' = table
      BY <1>4 DEF vars
    <3>2. \A k \in Key : Users(table[k])' = Users(table[k])
      BY <2>3, <3>1
    <3> QED BY <3>1, <3>2 DEF TableOK, LockInvariant
  <2> QED BY <2>4, <2>5, <2>6, <2>7, <2>8 DEF LockInvariant
<1> QED BY <1>1, <1>2, <1>3, <1>4 DEF Next

\* The locks say of themselves what the processes say of them, and are counted.
THEOREM LocksSound == Spec => []LockInvariant
<1> QED BY InitInvariant, NextInvariant, PTL DEF Spec

-----------------------------------------------------------------------------
(* What the table promises of itself. *)

\* Where a process refers to an identity, it refers to the entry of it.
LEMMA KeyIsEntry ==
    ASSUME LockInvariant, NEW q \in Proc, NEW i \in 1 .. Depth(q), NEW k \in Key
    PROVE  /\ proc[q].plan[i].key = k <=> proc[q].own[i] = table[k]
           /\ proc[q].own[i] # None
<1>0. TypeOK /\ TableOK /\ ProcOK(q)
  BY DEF LockInvariant
<1>1. proc[q].pc # "idle"
  BY <1>0 DEF ProcOK, Depth
<1>2. /\ proc[q].own[i] \in Entry /\ proc[q].plan[i].key \in Key
      /\ proc[q].own[i] = table[proc[q].plan[i].key]
  BY <1>0, <1>1, OwnDistinct DEF ProcOK
<1> QED BY <1>0, <1>2, NoneAssumption DEF TableOK

LEMMA InvariantOneEntry == LockInvariant => OneEntryPerKey
<1> SUFFICES ASSUME LockInvariant, NEW k \in Key
             PROVE  LET users == {p \in Proc : \E i \in 1 .. Len(proc[p].own) :
                                    proc[p].plan[i].key = k}
                    IN
                    /\ users = {} <=> table[k] = None
                    /\ \A p \in users : \A i \in 1 .. Len(proc[p].own) :
                          proc[p].plan[i].key = k => proc[p].own[i] = table[k]
  BY DEF OneEntryPerKey
<1> DEFINE users == {p \in Proc : \E i \in 1 .. Len(proc[p].own) : proc[p].plan[i].key = k}
<1>1. ASSUME NEW p \in Proc, NEW i \in 1 .. Len(proc[p].own)
      PROVE  /\ proc[p].plan[i].key = k <=> proc[p].own[i] = table[k]
             /\ proc[p].own[i] # None
  BY KeyIsEntry DEF Depth
<1>2. users = Users(table[k])
  BY <1>1 DEF Users, Uses, Depth
<1>3. table[k] = None => Users(table[k]) = {}
  BY <1>1 DEF Users, Uses, Depth
<1>4. table[k] # None => Users(table[k]) # {}
  BY DEF LockInvariant, TableOK
<1> QED BY <1>1, <1>2, <1>3, <1>4

\* All who refer to an identity at the same time refer to the same lock object,
\* and the table keeps none that nobody refers to (acquire, releaseRef).
THEOREM EntriesSound == Spec => []OneEntryPerKey
<1> QED BY LocksSound, InvariantOneEntry, PTL

-----------------------------------------------------------------------------
(* The refinement: who holds an identity is what its lock object says. *)

HoldersAt(k) ==
    /\ table[k] = None => Readers(k) = {} /\ Writers(k) = {}
    /\ table[k] # None => /\ Readers(k) = readers[table[k]]
                          /\ Writers(k) = {q \in Proc : Excludes(q, table[k])}

LEMMA HoldersAre == LockInvariant => \A k \in Key : HoldersAt(k)
<1> SUFFICES ASSUME LockInvariant, NEW k \in Key
             PROVE  HoldersAt(k)
  OBVIOUS
<1>0. TypeOK /\ TableOK /\ \A q \in Proc : ProcOK(q)
  BY DEF LockInvariant
<1>1. ASSUME NEW q \in Proc
      PROVE  Holding(q) = {i \in 1 .. Depth(q) : Firm(q, i)
                              \/ (proc[q].pc = "blocked" /\ q \in readers[Top(q)])}
  BY DEF Holding, Depth, Firm
<1>2. ASSUME NEW q \in Proc, NEW i \in 1 .. Depth(q)
      PROVE  /\ proc[q].plan[i].key = k <=> proc[q].own[i] = table[k]
             /\ proc[q].own[i] # None
  BY KeyIsEntry
<1>3. CASE table[k] = None
  BY <1>1, <1>2, <1>3 DEF HoldersAt, Readers, Writers
<1>4. CASE table[k] # None
  <2>1. PICK e \in Entry : e = table[k]
    BY <1>0, <1>4 DEF TypeOK
  <2>2. ASSUME NEW q \in Proc, proc[q].pc = "blocked"
        PROVE  /\ Depth(q) \in 1 .. Depth(q) /\ Top(q) = proc[q].own[Depth(q)]
               /\ proc[q].plan[Depth(q)].shared
               /\ \A i \in 1 .. Depth(q) : i = Depth(q) \/ Firm(q, i)
    <3>1. Depth(q) \in Nat /\ Depth(q) > 0 /\ Step(q).shared
      BY <1>0, <2>2, AtLock DEF ProcOK
    <3> QED BY <3>1 DEF Top, Step, Depth, Firm
  <2>3. ASSUME NEW q \in Proc
        PROVE  q \in Readers(k) <=> q \in readers[e]
    <3>1. q \in Readers(k) <=> \E i \in Holding(q) :
              proc[q].own[i] = e /\ proc[q].plan[i].shared
      BY <1>1, <1>2, <2>1 DEF Readers
    <3>2. Agrees(q, e)
      BY DEF LockInvariant, LockOK
    <3>3. ASSUME NEW i \in Holding(q), proc[q].own[i] = e, proc[q].plan[i].shared
          PROVE  q \in readers[e]
      <4>1. CASE Firm(q, i)
        BY <1>1, <3>2, <3>3, <4>1 DEF Agrees, Shares
      <4>2. CASE ~Firm(q, i)
        BY <1>1, <2>2, <3>3, <4>2
      <4> QED BY <4>1, <4>2
    <3>4. ASSUME q \in readers[e]
          PROVE  \E i \in Holding(q) : proc[q].own[i] = e /\ proc[q].plan[i].shared
      <4>1. CASE Shares(q, e)
        BY <1>1, <4>1 DEF Shares
      <4>2. CASE Awaits(q, e)
        <5>1. proc[q].pc = "blocked" /\ Top(q) = e
          BY <4>2 DEF Awaits
        <5>2. Depth(q) \in Holding(q)
          BY <1>1, <2>2, <3>4, <5>1
        <5> QED BY <2>2, <5>1, <5>2
      <4> QED BY <3>2, <3>4, <4>1, <4>2 DEF Agrees
    <3> QED BY <3>1, <3>3, <3>4
  <2>4. ASSUME NEW q \in Proc
        PROVE  q \in Writers(k) <=> Excludes(q, e)
    <3>1. q \in Writers(k) <=> \E i \in Holding(q) :
              proc[q].own[i] = e /\ ~proc[q].plan[i].shared
      BY <1>1, <1>2, <2>1 DEF Writers
    <3>2. ASSUME NEW i \in Holding(q), ~proc[q].plan[i].shared
          PROVE  Firm(q, i)
      BY <1>1, <2>2, <3>2
    <3> QED BY <1>1, <3>1, <3>2 DEF Excludes
  <2>5. readers[e] \subseteq Proc /\ Readers(k) \subseteq Proc /\ Writers(k) \subseteq Proc
    BY <1>0 DEF TypeOK, Readers, Writers
  <2>6. Readers(k) = readers[e]
    BY <2>3, <2>5
  <2>7. Writers(k) = {q \in Proc : Excludes(q, e)}
    BY <2>4, <2>5
  <2> QED BY <1>4, <2>1, <2>6, <2>7 DEF HoldersAt
<1> QED BY <1>3, <1>4

LEMMA HoldersAreNext == LockInvariant' => \A k \in Key : HoldersAt(k)'
<1>1. LockInvariant' => (\A k \in Key : HoldersAt(k))'
  BY HoldersAre, PTL
<1> QED BY <1>1

\* The steps of KeyedLock, as what changes at one key.
SameHolders(k) == Readers(k)' = Readers(k) /\ Writers(k)' = Writers(k)

LEMMA AbstractStutter ==
    ASSUME \A k \in Key : SameHolders(k)
    PROVE  UNCHANGED Lock!vars
BY DEF SameHolders, Lock!vars

LEMMA AbstractRead ==
    ASSUME NEW k \in Key, NEW ps \in SUBSET Proc, \A l \in Key \ {k} : SameHolders(l),
           Writers(k) = {}, Writers(k)' = {}, Readers(k)' = Readers(k) \cup ps
    PROVE  Lock!Next
<1>1. Lock!Read(k, ps)
  BY DEF Lock!Read, SameHolders
<1> QED BY <1>1 DEF Lock!Next

LEMMA AbstractHand ==
    ASSUME NEW k \in Key, NEW p \in Proc, NEW ps \in SUBSET Proc,
           \A l \in Key \ {k} : SameHolders(l),
           Writers(k) = {p}, Writers(k)' = {}, Readers(k)' = ps
    PROVE  Lock!Next
<1>1. Lock!Hand(k, ps)
  BY DEF Lock!Hand, SameHolders
<1> QED BY <1>1 DEF Lock!Next

LEMMA AbstractLeave ==
    ASSUME NEW k \in Key, NEW p \in Proc, \A l \in Key \ {k} : SameHolders(l),
           Writers(k)' = Writers(k), Readers(k)' = Readers(k) \ {p}
    PROVE  Lock!Next
<1>1. Lock!Leave(k, p)
  BY DEF Lock!Leave, SameHolders
<1> QED BY <1>1 DEF Lock!Next

LEMMA AbstractWrite ==
    ASSUME NEW k \in Key, NEW p \in Proc, \A l \in Key \ {k} : SameHolders(l),
           Readers(k) = {}, Writers(k) = {}, Readers(k)' = {}, Writers(k)' = {p}
    PROVE  Lock!Next
<1>1. Lock!Write(k, p)
  BY DEF Lock!Write, SameHolders
<1> QED BY <1>1 DEF Lock!Next

\* A step at a lock object, as what changes at its key.
LEMMA MoveHolders ==
    ASSUME LockInvariant, LockInvariant', NEW p \in Proc, proc[p].pc \notin {"idle", "ref"},
           NEW pc, Goto(p, pc), NEW e \in Entry, e = Top(p),
           NEW k \in Key, k = Step(p).key, OnlyAt(e)
    PROVE  /\ Readers(k) = readers[e] /\ Readers(k)' = readers'[e]
           /\ Writers(k) = {q \in Proc : Excludes(q, e)}
           /\ Writers(k)' = {q \in Proc : Excludes(q, e)'}
           /\ \A l \in Key \ {k} : SameHolders(l)
<1>0. TypeOK /\ TableOK /\ ProcOK(p)
  BY DEF LockInvariant
<1>1. table[k] = e /\ table' = table /\ e # None
  BY <1>0, AtLock, NoneAssumption DEF OnlyAt
<1>2. Readers(k) = readers[e] /\ Writers(k) = {q \in Proc : Excludes(q, e)}
  BY <1>1, HoldersAre DEF HoldersAt
<1>3. Readers(k)' = readers'[e] /\ Writers(k)' = {q \in Proc : Excludes(q, e)'}
  BY <1>1, HoldersAreNext DEF HoldersAt
<1>4. ASSUME NEW l \in Key, l # k
      PROVE  SameHolders(l)
  <2>1. CASE table[l] = None
    BY <1>1, <2>1, HoldersAre, HoldersAreNext DEF HoldersAt, SameHolders
  <2>2. CASE table[l] # None
    <3>1. PICK x \in Entry : x = table[l]
      BY <1>0, <2>2 DEF TypeOK
    <3>2. x # e
      BY <1>0, <1>1, <1>4, <2>2, <3>1 DEF TableOK
    <3>3. readers'[x] = readers[x]
      BY <3>2 DEF OnlyAt
    <3>4. \A q \in Proc : Excludes(q, x)' <=> Excludes(q, x)
      BY <1>0, <3>2, MoveElsewhere DEF Unmoved, Keeps
    <3>5. Readers(l) = readers[x] /\ Writers(l) = {q \in Proc : Excludes(q, x)}
      BY <2>2, <3>1, HoldersAre DEF HoldersAt
    <3>6. Readers(l)' = readers'[x] /\ Writers(l)' = {q \in Proc : Excludes(q, x)'}
      BY <1>1, <2>2, <3>1, HoldersAreNext DEF HoldersAt
    <3> QED BY <3>3, <3>4, <3>5, <3>6 DEF SameHolders
  <2> QED BY <2>1, <2>2
<1> QED BY <1>2, <1>3, <1>4
LEMMA DrainedMaps ==
    ASSUME LockInvariant, LockInvariant', NEW p \in Proc, Drained(p)
    PROVE  [Lock!Next]_Lock!vars
<1>0. TypeOK /\ TableOK /\ ProcOK(p) /\ \A e \in Entry : LockOK(e)
  BY DEF LockInvariant
<1>1. proc[p].pc = "drain" /\ readers[Top(p)] = {} /\ Advance(p)
  BY DEF Drained
<1>2. Top(p) \in Entry /\ Step(p).key \in Key
  BY <1>0, <1>1, AtLock
<1>3. PICK e \in Entry : e = Top(p)
  BY <1>2
<1>4. PICK k \in Key : k = Step(p).key
  BY <1>2
<1>5. OnlyAt(e) /\ \A q \in Proc : Agrees(q, e)
  BY <1>0, <1>3 DEF OnlyAt, TypeOK, Drained, LockOK
<1>6. PICK pc : Goto(p, pc)
  BY <1>1 DEF Advance
<1>7. /\ Readers(k) = readers[e] /\ Readers(k)' = readers'[e]
      /\ Writers(k) = {q \in Proc : Excludes(q, e)}
      /\ Writers(k)' = {q \in Proc : Excludes(q, e)'}
      /\ \A l \in Key \ {k} : SameHolders(l)
  BY <1>1, <1>6, <1>3, <1>4, <1>5, MoveHolders
<1>8. /\ Excludes(p, e)' /\ ~Excludes(p, e)
      /\ \A q \in Proc \ {p} : Excludes(q, e)' <=> Excludes(q, e)
  BY <1>0, <1>1, <1>3, TakenAt DEF Taking, ProcOK, Unmoved, Keeps
<1>9. readers[e] = {} /\ readers'[e] = {} /\ Drains(p, e)
  BY <1>1, <1>3 DEF Drained, Drains
<1>10. \A q \in Proc : ~Excludes(q, e)
  BY <1>5, <1>8, <1>9 DEF Agrees
<1>11. Writers(k) = {} /\ Writers(k)' = {p}
  BY <1>7, <1>8, <1>10
<1> QED BY <1>7, <1>9, <1>11, AbstractWrite

LEMMA TryLockMaps ==
    ASSUME LockInvariant, LockInvariant', NEW p \in Proc, TryLock(p)
    PROVE  [Lock!Next]_Lock!vars
<1>0. TypeOK /\ TableOK /\ ProcOK(p) /\ \A e \in Entry : LockOK(e)
  BY DEF LockInvariant
<1>1. proc[p].pc = "lock" /\ ~Step(p).shared /\ Advance(p)
  BY DEF TryLock
<1>2. Top(p) \in Entry /\ Step(p).key \in Key
  BY <1>0, <1>1, AtLock
<1>3. PICK e \in Entry : e = Top(p)
  BY <1>2
<1>4. PICK k \in Key : k = Step(p).key
  BY <1>2
<1>5. OnlyAt(e) /\ \A q \in Proc : Agrees(q, e)
  BY <1>0, <1>3 DEF OnlyAt, TypeOK, TryLock, LockOK
<1>6. PICK pc : Goto(p, pc)
  BY <1>1 DEF Advance
<1>7. /\ Readers(k) = readers[e] /\ Readers(k)' = readers'[e]
      /\ Writers(k) = {q \in Proc : Excludes(q, e)}
      /\ Writers(k)' = {q \in Proc : Excludes(q, e)'}
      /\ \A l \in Key \ {k} : SameHolders(l)
  BY <1>1, <1>6, <1>3, <1>4, <1>5, MoveHolders
<1>8. /\ Excludes(p, e)' /\ ~Excludes(p, e)
      /\ \A q \in Proc \ {p} : Excludes(q, e)' <=> Excludes(q, e)
  BY <1>0, <1>1, <1>3, TakenAt DEF Taking, ProcOK, Unmoved, Keeps
<1>9. readers[e] = {} /\ readers'[e] = {} /\ writer[e] = None
  BY <1>1, <1>3 DEF TryLock, LockIsFree
<1>10. \A q \in Proc : ~Excludes(q, e)
  BY <1>5, <1>9, NoneAssumption DEF Agrees
<1>11. Writers(k) = {} /\ Writers(k)' = {p}
  BY <1>7, <1>8, <1>10
<1> QED BY <1>7, <1>9, <1>11, AbstractWrite

LEMMA WokenMaps ==
    ASSUME LockInvariant, LockInvariant', NEW p \in Proc, Woken(p)
    PROVE  [Lock!Next]_Lock!vars
<1>0. TypeOK /\ TableOK /\ ProcOK(p) /\ \A e \in Entry : LockOK(e)
  BY DEF LockInvariant
<1>1. proc[p].pc = "blocked" /\ Advance(p)
  BY DEF Woken
<1>2. Top(p) \in Entry /\ Step(p).key \in Key
  BY <1>0, <1>1, AtLock
<1>3. PICK e \in Entry : e = Top(p)
  BY <1>2
<1>4. PICK k \in Key : k = Step(p).key
  BY <1>2
<1>5. OnlyAt(e) /\ \A q \in Proc : Agrees(q, e)
  BY <1>0, <1>3 DEF OnlyAt, TypeOK, Woken, LockOK
<1>6. PICK pc : Goto(p, pc)
  BY <1>1 DEF Advance
<1>7. /\ Readers(k) = readers[e] /\ Readers(k)' = readers'[e]
      /\ Writers(k) = {q \in Proc : Excludes(q, e)}
      /\ Writers(k)' = {q \in Proc : Excludes(q, e)'}
      /\ \A l \in Key \ {k} : SameHolders(l)
  BY <1>1, <1>6, <1>3, <1>4, <1>5, MoveHolders
<1>8. \A q \in Proc : Excludes(q, e)' <=> Excludes(q, e)
  BY <1>0, <1>1, <1>3, TakenAt DEF Taking, ProcOK, Unmoved, Keeps
<1>9. readers' = readers
  BY DEF Woken
<1>10. SameHolders(k)
  BY <1>7, <1>8, <1>9 DEF SameHolders
<1> QED BY <1>7, <1>10, AbstractStutter

LEMMA AnnounceMaps ==
    ASSUME LockInvariant, LockInvariant', NEW p \in Proc, Announce(p)
    PROVE  [Lock!Next]_Lock!vars
<1>0. TypeOK /\ TableOK /\ ProcOK(p) /\ \A e \in Entry : LockOK(e)
  BY DEF LockInvariant
<1>1. proc[p].pc = "lock" /\ Goto(p, "drain")
  BY DEF Announce
<1>2. Top(p) \in Entry /\ Step(p).key \in Key
  BY <1>0, <1>1, AtLock
<1>3. PICK e \in Entry : e = Top(p)
  BY <1>2
<1>4. PICK k \in Key : k = Step(p).key
  BY <1>2
<1>5. OnlyAt(e) /\ \A q \in Proc : Agrees(q, e)
  BY <1>0, <1>3 DEF OnlyAt, TypeOK, Announce, LockOK
<1>7. /\ Readers(k) = readers[e] /\ Readers(k)' = readers'[e]
      /\ Writers(k) = {q \in Proc : Excludes(q, e)}
      /\ Writers(k)' = {q \in Proc : Excludes(q, e)'}
      /\ \A l \in Key \ {k} : SameHolders(l)
  BY <1>1, <1>3, <1>4, <1>5, MoveHolders
<1>8. \A q \in Proc : Excludes(q, e)' <=> Excludes(q, e)
  BY <1>0, <1>1, <1>3, UntakenAt DEF Unmoved, Keeps
<1>9. readers' = readers
  BY DEF Announce
<1>10. SameHolders(k)
  BY <1>7, <1>8, <1>9 DEF SameHolders
<1> QED BY <1>7, <1>10, AbstractStutter

LEMMA TryFailsMaps ==
    ASSUME LockInvariant, LockInvariant', NEW p \in Proc, TryFails(p)
    PROVE  [Lock!Next]_Lock!vars
<1>0. TypeOK /\ TableOK /\ ProcOK(p) /\ \A e \in Entry : LockOK(e)
  BY DEF LockInvariant
<1>1. proc[p].pc = "lock" /\ Goto(p, "unref")
  BY DEF TryFails
<1>2. Top(p) \in Entry /\ Step(p).key \in Key
  BY <1>0, <1>1, AtLock
<1>3. PICK e \in Entry : e = Top(p)
  BY <1>2
<1>4. PICK k \in Key : k = Step(p).key
  BY <1>2
<1>5. OnlyAt(e) /\ \A q \in Proc : Agrees(q, e)
  BY <1>0, <1>3 DEF OnlyAt, TypeOK, TryFails, LockOK
<1>7. /\ Readers(k) = readers[e] /\ Readers(k)' = readers'[e]
      /\ Writers(k) = {q \in Proc : Excludes(q, e)}
      /\ Writers(k)' = {q \in Proc : Excludes(q, e)'}
      /\ \A l \in Key \ {k} : SameHolders(l)
  BY <1>1, <1>3, <1>4, <1>5, MoveHolders
<1>8. \A q \in Proc : Excludes(q, e)' <=> Excludes(q, e)
  BY <1>0, <1>1, <1>3, UntakenAt DEF Unmoved, Keeps
<1>9. readers' = readers
  BY DEF TryFails
<1>10. SameHolders(k)
  BY <1>7, <1>8, <1>9 DEF SameHolders
<1> QED BY <1>7, <1>10, AbstractStutter

LEMMA RUnlockMaps ==
    ASSUME LockInvariant, LockInvariant', NEW p \in Proc, RUnlock(p)
    PROVE  [Lock!Next]_Lock!vars
<1>0. TypeOK /\ TableOK /\ ProcOK(p) /\ \A e \in Entry : LockOK(e)
  BY DEF LockInvariant
<1>1. proc[p].pc = "unlock" /\ Step(p).shared /\ Goto(p, "unref")
  BY DEF RUnlock
<1>2. Top(p) \in Entry /\ Step(p).key \in Key
  BY <1>0, <1>1, AtLock
<1>3. PICK e \in Entry : e = Top(p)
  BY <1>2
<1>4. PICK k \in Key : k = Step(p).key
  BY <1>2
<1>5. OnlyAt(e) /\ \A q \in Proc : Agrees(q, e)
  BY <1>0, <1>3 DEF OnlyAt, TypeOK, RUnlock, LockOK
<1>6. /\ Readers(k) = readers[e] /\ Readers(k)' = readers'[e]
      /\ Writers(k) = {q \in Proc : Excludes(q, e)}
      /\ Writers(k)' = {q \in Proc : Excludes(q, e)'}
      /\ \A l \in Key \ {k} : SameHolders(l)
  BY <1>1, <1>3, <1>4, <1>5, MoveHolders
<1>7. \A q \in Proc : Excludes(q, e)' <=> Excludes(q, e)
  BY <1>0, <1>1, <1>3, GivenAt DEF Unmoved, Keeps
<1>8. readers'[e] = readers[e] \ {p}
  BY <1>0, <1>3 DEF RUnlock, TypeOK
<1>9. Writers(k)' = Writers(k) /\ Readers(k)' = Readers(k) \ {p}
  BY <1>6, <1>7, <1>8
<1> QED BY <1>6, <1>9, AbstractLeave

LEMMA UnlockMaps ==
    ASSUME LockInvariant, LockInvariant', NEW p \in Proc, Unlock(p)
    PROVE  [Lock!Next]_Lock!vars
<1>0. TypeOK /\ TableOK /\ ProcOK(p) /\ \A e \in Entry : LockOK(e)
  BY DEF LockInvariant
<1>1. proc[p].pc = "unlock" /\ ~Step(p).shared /\ Goto(p, "unref")
  BY DEF Unlock
<1>2. Top(p) \in Entry /\ Step(p).key \in Key
  BY <1>0, <1>1, AtLock
<1>3. PICK e \in Entry : e = Top(p)
  BY <1>2
<1>4. PICK k \in Key : k = Step(p).key
  BY <1>2
<1>5. OnlyAt(e) /\ \A q \in Proc : Agrees(q, e)
  BY <1>0, <1>3 DEF OnlyAt, TypeOK, Unlock, LockOK
<1>6. /\ Readers(k) = readers[e] /\ Readers(k)' = readers'[e]
      /\ Writers(k) = {q \in Proc : Excludes(q, e)}
      /\ Writers(k)' = {q \in Proc : Excludes(q, e)'}
      /\ \A l \in Key \ {k} : SameHolders(l)
  BY <1>1, <1>3, <1>4, <1>5, MoveHolders
<1>7. /\ Excludes(p, e) /\ ~Excludes(p, e)'
      /\ \A q \in Proc \ {p} : Excludes(q, e)' <=> Excludes(q, e)
  BY <1>0, <1>1, <1>3, GivenAt DEF Unmoved, Keeps
<1>8. /\ readers[e] = {} /\ readers'[e] = waiting[e] /\ waiting[e] \in SUBSET Proc
      /\ \A q \in Proc : Excludes(q, e) => q = p
  <2>1. readers[e] = {} /\ writer[e] = p
    BY <1>5, <1>7 DEF Agrees
  <2>2. readers'[e] = readers[e] \cup waiting[e] /\ waiting[e] \in SUBSET Proc
    BY <1>0, <1>3 DEF Unlock, TypeOK
  <2>3. \A q \in Proc : Excludes(q, e) => q = p
    BY <1>5, <2>1 DEF Agrees
  <2> QED BY <2>1, <2>2, <2>3
<1>9. Writers(k) = {p} /\ Writers(k)' = {} /\ Readers(k)' = waiting[e]
  BY <1>6, <1>7, <1>8
<1>10. PICK ps \in SUBSET Proc : ps = waiting[e]
  BY <1>8
<1> QED BY <1>6, <1>9, <1>10, AbstractHand

LEMMA RLockMaps ==
    ASSUME LockInvariant, LockInvariant', NEW p \in Proc, RLock(p)
    PROVE  [Lock!Next]_Lock!vars
<1>0. TypeOK /\ TableOK /\ ProcOK(p) /\ \A e \in Entry : LockOK(e)
  BY DEF LockInvariant
<1>1. proc[p].pc = "lock" /\ Step(p).shared
  BY DEF RLock
<1>2. Top(p) \in Entry /\ Step(p).key \in Key
  BY <1>0, <1>1, AtLock
<1>3. PICK e \in Entry : e = Top(p)
  BY <1>2
<1>4. PICK k \in Key : k = Step(p).key
  BY <1>2
<1>5. OnlyAt(e) /\ \A q \in Proc : Agrees(q, e)
  <2>1. CASE readers' = [readers EXCEPT ![e] = @ \cup {p}] /\ UNCHANGED waiting
    BY <1>0, <2>1 DEF OnlyAt, TypeOK, RLock, LockOK
  <2>2. CASE waiting' = [waiting EXCEPT ![e] = @ \cup {p}] /\ UNCHANGED readers
    BY <1>0, <2>2 DEF OnlyAt, TypeOK, RLock, LockOK
  <2> QED BY <1>3, <2>1, <2>2 DEF RLock
<1>6. CASE /\ ReaderMayEnter(e)
           /\ readers' = [readers EXCEPT ![e] = @ \cup {p}]
           /\ Advance(p)
  <2>1. PICK pc : Goto(p, pc)
    BY <1>6 DEF Advance
  <2>2. /\ Readers(k) = readers[e] /\ Readers(k)' = readers'[e]
        /\ Writers(k) = {q \in Proc : Excludes(q, e)}
        /\ Writers(k)' = {q \in Proc : Excludes(q, e)'}
        /\ \A l \in Key \ {k} : SameHolders(l)
    BY <1>1, <1>3, <1>4, <1>5, <2>1, MoveHolders
  <2>3. \A q \in Proc : Excludes(q, e)' <=> Excludes(q, e)
    BY <1>0, <1>1, <1>3, <1>6, TakenAt DEF Taking, Unmoved, Keeps
  <2>4. \A q \in Proc : ~Excludes(q, e)
    BY <1>5, <1>6, NoneAssumption DEF Agrees, ReaderMayEnter
  <2>5. readers'[e] = readers[e] \cup {p}
    BY <1>0, <1>6 DEF TypeOK
  <2>6. Writers(k) = {} /\ Writers(k)' = {} /\ Readers(k)' = Readers(k) \cup {p}
    BY <2>2, <2>3, <2>4, <2>5
  <2>7. {p} \in SUBSET Proc
    OBVIOUS
  <2> QED BY <2>2, <2>6, <2>7, AbstractRead
<1>7. CASE Goto(p, "blocked") /\ UNCHANGED readers
  <2>1. /\ Readers(k) = readers[e] /\ Readers(k)' = readers'[e]
        /\ Writers(k) = {q \in Proc : Excludes(q, e)}
        /\ Writers(k)' = {q \in Proc : Excludes(q, e)'}
        /\ \A l \in Key \ {k} : SameHolders(l)
    BY <1>1, <1>3, <1>4, <1>5, <1>7, MoveHolders
  <2>2. \A q \in Proc : Excludes(q, e)' <=> Excludes(q, e)
    BY <1>0, <1>1, <1>3, <1>7, UntakenAt DEF Unmoved, Keeps
  <2>3. SameHolders(k)
    BY <1>7, <2>1, <2>2 DEF SameHolders
  <2> QED BY <2>1, <2>3, AbstractStutter
<1> QED BY <1>3, <1>6, <1>7 DEF RLock

FreeAt(e) == readers[e] = {} /\ \A q \in Proc : ~Excludes(q, e)

LEMMA UnreferencedNext ==
    LockInvariant' => \A e \in Entry : (\A k \in Key : table'[k] # e) => FreeAt(e)'
<1>1. LockInvariant => \A e \in Entry : (\A k \in Key : table[k] # e) => FreeAt(e)
  BY Unreferenced DEF FreeAt
<1>2. LockInvariant' => (\A e \in Entry : (\A k \in Key : table[k] # e) => FreeAt(e))'
  BY <1>1, PTL
<1> QED BY <1>2

\* A step at the table.
LEMMA TableMaps ==
    ASSUME LockInvariant, LockInvariant', TableMoves
    PROVE  UNCHANGED Lock!vars
<1>0. TypeOK /\ TypeOK'
  BY DEF LockInvariant
<1>1. ASSUME NEW k \in Key
      PROVE  SameHolders(k)
  <2>1. HoldersAt(k) /\ HoldersAt(k)'
    BY HoldersAre, HoldersAreNext
  <2>2. CASE table'[k] = table[k]
    <3>1. CASE table[k] = None
      BY <2>1, <2>2, <3>1 DEF HoldersAt, SameHolders
    <3>2. CASE table[k] # None
      <4>1. PICK x \in Entry : x = table[k]
        BY <1>0, <3>2 DEF TypeOK
      <4>2. Writers(k) = {q \in Proc : Excludes(q, x)} /\ Readers(k) = readers[x]
        BY <2>1, <3>2, <4>1 DEF HoldersAt
      <4>3. Writers(k)' = {q \in Proc : Excludes(q, x)'} /\ Readers(k)' = readers'[x]
        BY <2>1, <2>2, <3>2, <4>1 DEF HoldersAt
      <4> QED BY <4>2, <4>3 DEF TableMoves, SameHolders
    <3> QED BY <3>1, <3>2
  <2>3. CASE /\ table'[k] # None /\ table[k] = None
             /\ \A l \in Key : table[l] # table'[k]
    <3>1. PICK x \in Entry : x = table'[k]
      BY <1>0, <2>3 DEF TypeOK
    <3>2. readers[x] = {} /\ \A q \in Proc : ~Excludes(q, x)
      BY <2>3, <3>1, Unreferenced
    <3>3. Writers(k)' = {q \in Proc : Excludes(q, x)'} /\ Readers(k)' = readers'[x]
      BY <2>1, <2>3, <3>1 DEF HoldersAt
    <3> QED BY <2>1, <2>3, <3>2, <3>3 DEF HoldersAt, TableMoves, SameHolders
  <2>4. CASE /\ table'[k] = None /\ table[k] # None
             /\ \A l \in Key : table'[l] # table[k]
    <3>1. PICK x \in Entry : x = table[k]
      BY <1>0, <2>4 DEF TypeOK
    <3>2. readers'[x] = {} /\ \A q \in Proc : ~Excludes(q, x)'
      BY <2>4, <3>1, UnreferencedNext DEF FreeAt
    <3>3. Writers(k) = {q \in Proc : Excludes(q, x)} /\ Readers(k) = readers[x]
      BY <2>1, <2>4, <3>1 DEF HoldersAt
    <3>4. Readers(k)' = {} /\ Writers(k)' = {}
      BY <2>1, <2>4 DEF HoldersAt
    <3> QED BY <3>2, <3>3, <3>4 DEF TableMoves, SameHolders
  <2> QED BY <2>2, <2>3, <2>4 DEF TableMoves
<1> QED BY <1>1, AbstractStutter

LEMMA FinishMaps ==
    ASSUME LockInvariant, LockInvariant', NEW p \in Proc, Finish(p)
    PROVE  UNCHANGED Lock!vars
<1>0. TypeOK
  BY DEF LockInvariant
<1>1. proc[p].pc = "work" /\ Goto(p, "unlock")
  BY DEF Finish
<1>2. /\ proc'[p].own = proc[p].own /\ proc'[p].plan = proc[p].plan /\ proc'[p].pc = "unlock"
      /\ \A q \in Proc \ {p} : proc'[q] = proc[q]
  BY <1>0, <1>1, GotoMoves
<1>3. TableMoves
  <2>1. \A e \in Entry : Excludes(p, e)' <=> Excludes(p, e)
    BY <1>1, <1>2, MoveKeeps DEF Settled, Keeps
  <2>2. \A q \in Proc \ {p} : \A e \in Entry : Excludes(q, e)' <=> Excludes(q, e)
    BY <1>2, BystanderUnmoved DEF Unmoved, Keeps
  <2> QED BY <2>1, <2>2 DEF TableMoves, Finish
<1> QED BY <1>3, TableMaps

LEMMA BeginMaps ==
    ASSUME LockInvariant, LockInvariant', NEW p \in Proc, NEW plan \in Plan, Begin(p, plan)
    PROVE  UNCHANGED Lock!vars
<1>0. TypeOK /\ ProcOK(p)
  BY DEF LockInvariant
<1>1. /\ proc'[p] = [pc |-> "ref", plan |-> plan, own |-> <<>>]
      /\ \A q \in Proc \ {p} : proc'[q] = proc[q]
  BY <1>0 DEF Begin, TypeOK
<1>2. proc[p].own = <<>> /\ proc'[p].own = <<>>
  BY <1>0, <1>1 DEF Begin, ProcOK
<1>3. TableMoves
  <2>1. \A e \in Entry : ~Excludes(p, e)' /\ ~Excludes(p, e)
    BY <1>2 DEF Excludes, Depth
  <2>2. \A q \in Proc \ {p} : \A e \in Entry : Excludes(q, e)' <=> Excludes(q, e)
    BY <1>1, BystanderUnmoved DEF Unmoved, Keeps
  <2> QED BY <2>1, <2>2 DEF TableMoves, Begin
<1> QED BY <1>3, TableMaps

LEMMA InitMaps == Init => Lock!Init
<1> SUFFICES ASSUME Init
             PROVE  Lock!Init
  OBVIOUS
<1>1. \A q \in Proc : Holding(q) = {}
  BY DEF Init, AtRest, Holding
<1> QED BY <1>1 DEF Lock!Init, Readers, Writers

LEMMA NextMaps == LockInvariant /\ LockInvariant' /\ [Next]_vars => [Lock!Next]_Lock!vars
<1> SUFFICES ASSUME LockInvariant, LockInvariant', [Next]_vars
             PROVE  [Lock!Next]_Lock!vars
  OBVIOUS
<1>1. ASSUME NEW p \in Proc, NEW plan \in Plan, Begin(p, plan)
      PROVE  UNCHANGED Lock!vars
  BY <1>1, BeginMaps
<1>2. ASSUME NEW p \in Proc, Take(p)
      PROVE  [Lock!Next]_Lock!vars
  <2>1. CASE Ref(p)
    BY <2>1, RefKeeps, TableMaps
  <2> QED BY <1>2, <2>1, RLockMaps, WokenMaps, AnnounceMaps, DrainedMaps, TryLockMaps,
          TryFailsMaps DEF Take
<1>3. ASSUME NEW p \in Proc, Release(p)
      PROVE  [Lock!Next]_Lock!vars
  <2>1. CASE Unref(p)
    BY <2>1, UnrefKeeps, TableMaps
  <2>2. CASE Finish(p)
    BY <2>2, FinishMaps
  <2> QED BY <1>3, <2>1, <2>2, RUnlockMaps, UnlockMaps DEF Release
<1>4. CASE UNCHANGED vars
  <2>1. TableMoves
    <3>1. \A q \in Proc : \A e \in Entry : Excludes(q, e)' <=> Excludes(q, e)
      BY <1>4, BystanderUnmoved DEF vars, Unmoved, Keeps
    <3> QED BY <1>4, <3>1 DEF TableMoves, vars
  <2> QED BY <2>1, TableMaps
<1> QED BY <1>1, <1>2, <1>3, <1>4 DEF Next

\* The registry is a reader-writer lock per identity: what one request holds of an
\* identity excludes what another holds, across lock objects that come and go.
THEOREM RegistryIsLock == Spec => IsLock
<1>1. Init => Lock!Init
  BY InitMaps
<1>2. LockInvariant /\ LockInvariant' /\ [Next]_vars => [Lock!Next]_Lock!vars
  BY NextMaps
<1> QED BY <1>1, <1>2, LocksSound, PTL DEF Spec, IsLock, Lock!Spec
=============================================================================
