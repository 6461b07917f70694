---------------------------- MODULE UploadLocks ----------------------------
(***************************************************************************)
(* The locks per identity (uploadLockRegistry): a table of reader-writer   *)
(* locks, made on the first reference and dropped with the last one, and   *)
(* the requests that take one lock of it after another.                    *)
(*                                                                         *)
(* A process follows a plan, the locks its operation takes in this order,  *)
(* and gives them back in the opposite order.  The table is guarded by a   *)
(* mutex, so a look at it is one action; the lock itself is Go's RWMutex:  *)
(* a writer first keeps new readers out, then waits for the old ones, and  *)
(* its Unlock lets all readers in that waited for it.                      *)
(***************************************************************************)
EXTENDS Naturals, Sequences, FiniteSets

CONSTANTS
    Proc,      \* goroutines: requests and maintenance
    Key,       \* identities: device gates, upload sessions, WebRTC devices
    Plan,      \* plans: sequences of [key, shared, try]
    Entry,     \* lock objects
    None

\* An operation takes a lock, and none twice: gates, sessions and devices have
\* tables of their own.
ASSUME PlanAssumption ==
    \A plan \in Plan :
        /\ plan \in Seq([key : Key, shared : BOOLEAN, try : BOOLEAN])
        /\ Len(plan) > 0
        /\ \A i, j \in 1 .. Len(plan) : plan[i].key = plan[j].key => i = j
ASSUME ProcAssumption == IsFiniteSet(Proc)
\* Another lock object can always be made.
ASSUME EntryAssumption ==
    \A f \in [Key -> Entry \cup {None}] : \E e \in Entry : \A k \in Key : f[k] # e
ASSUME NoneAssumption == None \notin Entry /\ None \notin Proc

VARIABLES
    table,     \* uploadLockRegistry.entries
    refs,      \* uploadLockEntry.refs
    readers,   \* who has the lock object shared
    waiting,   \* readers that arrived after a writer
    writer,    \* the writer that keeps others out, waiting or holding
    proc       \* program counter, plan, position, lock objects taken so far

vars == <<table, refs, readers, waiting, writer, proc>>

AtRest == [pc |-> "idle", plan |-> <<>>, own |-> <<>>]

-----------------------------------------------------------------------------
\* own is the stack of lock objects referenced; the last one is being taken
\* until the counter leaves Taking.
Taking == {"lock", "blocked", "drain"}
Top(p) == proc[p].own[Len(proc[p].own)]
Step(p) == proc[p].plan[Len(proc[p].own)]
Goto(p, pc) == proc' = [proc EXCEPT ![p].pc = pc]
\* The lock is taken: on to the next one, or to the work it protects.
Advance(p) ==
    Goto(p, IF Len(proc[p].own) = Len(proc[p].plan) THEN "work" ELSE "ref")

Begin(p, plan) ==
    /\ proc[p].pc = "idle"
    /\ proc' = [proc EXCEPT ![p] = [pc |-> "ref", plan |-> plan, own |-> <<>>]]
    /\ UNCHANGED <<table, refs, readers, waiting, writer>>

\* The entry is looked up, or made, and counted before it is locked.
NewEntry == CHOOSE e \in Entry :
    refs[e] = 0 /\ (\A k \in Key : table[k] # e) /\ readers[e] = {}
        /\ waiting[e] = {} /\ writer[e] = None
\* Broken variant: only holders are counted, waiters are not.
Uncounted(p, e) == refs' = refs
Counted(p, e) == refs' = [refs EXCEPT ![e] = @ + 1]
Ref(p) ==
    LET k == proc[p].plan[Len(proc[p].own) + 1].key
        e == IF table[k] = None THEN NewEntry ELSE table[k]
    IN
    /\ proc[p].pc = "ref"
    /\ table' = [table EXCEPT ![k] = e]
    /\ Counted(p, e)
    /\ proc' = [proc EXCEPT ![p].pc = "lock", ![p].own = Append(@, e)]
    /\ UNCHANGED <<readers, waiting, writer>>

\* Broken variant: a reader passes a writer that is still waiting.
PassesWriter(e) ==
    writer[e] = None \/ \E q \in Proc : writer[e] = q /\ proc[q].pc = "drain"
ReaderMayEnter(e) == writer[e] = None

RLock(p) ==
    LET e == Top(p) IN
    /\ proc[p].pc = "lock" /\ Step(p).shared
    /\ \/ /\ ReaderMayEnter(e)
          /\ readers' = [readers EXCEPT ![e] = @ \cup {p}]
          /\ Advance(p)
          /\ UNCHANGED waiting
       \/ /\ ~ReaderMayEnter(e) /\ ~Step(p).try
          /\ waiting' = [waiting EXCEPT ![e] = @ \cup {p}]
          /\ Goto(p, "blocked")
          /\ UNCHANGED readers
    /\ UNCHANGED <<table, refs, writer>>
\* An Unlock let the reader in.
Woken(p) ==
    /\ proc[p].pc = "blocked" /\ p \in readers[Top(p)]
    /\ Advance(p)
    /\ UNCHANGED <<table, refs, readers, waiting, writer>>

Announce(p) ==
    /\ proc[p].pc = "lock" /\ ~Step(p).shared /\ ~Step(p).try
    /\ writer[Top(p)] = None
    /\ writer' = [writer EXCEPT ![Top(p)] = p]
    /\ Goto(p, "drain")
    /\ UNCHANGED <<table, refs, readers, waiting>>
Drained(p) ==
    /\ proc[p].pc = "drain" /\ readers[Top(p)] = {}
    /\ Advance(p)
    /\ UNCHANGED <<table, refs, readers, waiting, writer>>

LockIsFree(e) == writer[e] = None /\ readers[e] = {}
TryLock(p) ==
    /\ proc[p].pc = "lock" /\ ~Step(p).shared /\ Step(p).try
    /\ LockIsFree(Top(p))
    /\ writer' = [writer EXCEPT ![Top(p)] = p]
    /\ Advance(p)
    /\ UNCHANGED <<table, refs, readers, waiting>>
\* A try that fails gives up its reference, then what it took before.
TryFails(p) ==
    /\ proc[p].pc = "lock" /\ Step(p).try
    /\ IF Step(p).shared THEN ~ReaderMayEnter(Top(p)) ELSE ~LockIsFree(Top(p))
    /\ Goto(p, "unref")
    /\ UNCHANGED <<table, refs, readers, waiting, writer>>

Finish(p) ==
    /\ proc[p].pc = "work"
    /\ Goto(p, "unlock")
    /\ UNCHANGED <<table, refs, readers, waiting, writer>>

RUnlock(p) ==
    /\ proc[p].pc = "unlock" /\ Step(p).shared
    /\ readers' = [readers EXCEPT ![Top(p)] = @ \ {p}]
    /\ Goto(p, "unref")
    /\ UNCHANGED <<table, refs, waiting, writer>>
Unlock(p) ==
    LET e == Top(p) IN
    /\ proc[p].pc = "unlock" /\ ~Step(p).shared
    /\ writer' = [writer EXCEPT ![e] = None]
    /\ readers' = [readers EXCEPT ![e] = @ \cup waiting[e]]
    /\ waiting' = [waiting EXCEPT ![e] = {}]
    /\ Goto(p, "unref")
    /\ UNCHANGED <<table, refs>>

\* Broken variants: the entry is dropped by whoever leaves first, or kept.
DropAlways(e) == TRUE
DropNever(e) == FALSE
LastRef(e) == refs[e] = 1
Unref(p) ==
    LET e == Top(p)
        rest == SubSeq(proc[p].own, 1, Len(proc[p].own) - 1)
    IN
    /\ proc[p].pc = "unref"
    /\ refs' = [refs EXCEPT ![e] = @ - 1]
    /\ table' = IF LastRef(e) THEN [table EXCEPT ![Step(p).key] = None] ELSE table
    /\ proc' = [proc EXCEPT ![p] = IF rest = <<>> THEN AtRest
                                   ELSE [@ EXCEPT !.pc = "unlock", !.own = rest]]
    /\ UNCHANGED <<readers, waiting, writer>>

Init ==
    /\ table = [k \in Key |-> None]
    /\ refs = [e \in Entry |-> 0]
    /\ readers = [e \in Entry |-> {}] /\ waiting = [e \in Entry |-> {}]
    /\ writer = [e \in Entry |-> None]
    /\ proc = [p \in Proc |-> AtRest]

Take(p) ==
    Ref(p) \/ RLock(p) \/ Woken(p) \/ Announce(p) \/ Drained(p)
        \/ TryLock(p) \/ TryFails(p)
Release(p) == Finish(p) \/ RUnlock(p) \/ Unlock(p) \/ Unref(p)
Next ==
    \E p \in Proc : (\E plan \in Plan : Begin(p, plan)) \/ Take(p) \/ Release(p)
Spec == Init /\ [][Next]_vars

-----------------------------------------------------------------------------
(* Properties. *)

\* The locks p has, as pairs of a key and a mode.
Holding(p) ==
    {i \in 1 .. Len(proc[p].own) :
        i < Len(proc[p].own) \/ proc[p].pc \in {"ref", "work", "unlock"}
            \/ (proc[p].pc = "blocked" /\ p \in readers[Top(p)])}
Readers(k) == {p \in Proc : \E i \in Holding(p) :
                 proc[p].plan[i].key = k /\ proc[p].plan[i].shared}
Writers(k) == {p \in Proc : \E i \in Holding(p) :
                 proc[p].plan[i].key = k /\ ~proc[p].plan[i].shared}

\* Types of the variables; a reference count that wrapped below zero would
\* leave Nat (releaseRef).
TypeOK ==
    /\ table \in [Key -> Entry \cup {None}]
    /\ refs \in [Entry -> Nat]
    /\ readers \in [Entry -> SUBSET Proc] /\ waiting \in [Entry -> SUBSET Proc]
    /\ writer \in [Entry -> Proc \cup {None}]
    /\ proc \in [Proc -> [pc : Taking \cup {"idle", "ref", "work", "unlock", "unref"},
                        plan : Plan \cup {<<>>}, own : Seq(Entry)]]

\* All who refer to an identity at the same time refer to the same lock, and
\* the table keeps no lock nobody refers to, however entries are dropped and
\* made again around failed tries (acquire, releaseRef).
OneEntryPerKey ==
    \A k \in Key :
        LET users == {p \in Proc : \E i \in 1 .. Len(proc[p].own) :
                        proc[p].plan[i].key = k}
        IN
        /\ users = {} <=> table[k] = None
        /\ \A p \in users : \A i \in 1 .. Len(proc[p].own) :
              proc[p].plan[i].key = k => proc[p].own[i] = table[k]

\* The registry is a reader-writer lock per key: what one request holds of an
\* identity excludes what another holds, across entries that come and go.
Lock == INSTANCE KeyedLock WITH
    readers <- [k \in Key |-> Readers(k)], writers <- [k \in Key |-> Writers(k)]
IsLock == Lock!Spec

\* Whoever asks for locks gets its answer: the order device gate, session,
\* WebRTC device has no cycle, readers cannot keep a revocation out for ever,
\* and work under the locks ends.  Fair: a goroutine runs, and the mutex inside
\* a RWMutex serves its writers in turn (Announce).
Fairness == \A p \in Proc : WF_vars(Take(p) \/ Release(p)) /\ SF_vars(Announce(p))
FairSpec == Spec /\ Fairness
Answered ==
    \A p \in Proc : proc[p].pc \in Taking \cup {"ref"} ~> proc[p].pc \in {"work", "idle"}
=============================================================================
