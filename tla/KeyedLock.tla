----------------------------- MODULE KeyedLock -----------------------------
(***************************************************************************)
(* What a lock per identity promises: any number of readers or one writer  *)
(* per key.  UploadCommit and DeviceRegistry take their gates as this;     *)
(* UploadLocks shows that the registries of the agent keep it.             *)
(***************************************************************************)
CONSTANTS Proc, Key

VARIABLES readers, writers   \* per key, the processes that hold the lock

vars == <<readers, writers>>

Init ==
    /\ readers = [k \in Key |-> {}]
    /\ writers = [k \in Key |-> {}]

\* An unlock of a writer lets all waiting readers in at once.
Read(k, ps) ==
    /\ writers[k] = {}
    /\ readers' = [readers EXCEPT ![k] = @ \cup ps]
    /\ UNCHANGED writers
Hand(k, ps) ==
    /\ \E p \in Proc : writers[k] = {p}
    /\ writers' = [writers EXCEPT ![k] = {}]
    /\ readers' = [readers EXCEPT ![k] = ps]
Leave(k, p) ==
    /\ readers' = [readers EXCEPT ![k] = @ \ {p}]
    /\ UNCHANGED writers
Write(k, p) ==
    /\ readers[k] = {} /\ writers[k] = {}
    /\ writers' = [writers EXCEPT ![k] = {p}]
    /\ UNCHANGED readers

Next ==
    \E k \in Key :
        \/ \E ps \in SUBSET Proc : Read(k, ps) \/ Hand(k, ps)
        \/ \E p \in Proc : Leave(k, p) \/ Write(k, p)
Spec == Init /\ [][Next]_vars
=============================================================================
