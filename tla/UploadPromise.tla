---------------------------- MODULE UploadPromise ----------------------------
(***************************************************************************)
(* What the upload API promises a paired device, without sessions, locks,  *)
(* temporary files or crashes: media that was acknowledged is in the       *)
(* library, stays there, and its acknowledgement is only ever withdrawn    *)
(* together with a new ledger epoch.                                       *)
(***************************************************************************)
EXTENDS Naturals

CONSTANTS Device, Asset, Owner, NoContent

VARIABLES
    library,   \* contents of the upload root
    acked,     \* acked[a]: content acknowledged for source identity a
    epoch      \* epoch[d]: generation of d's ledger

vars == <<library, acked, epoch>>

Init ==
    /\ library = {}
    /\ acked = [a \in Asset |-> NoContent]
    /\ epoch = [d \in Device |-> 0]

\* Media is added to the library, by the agent or by another program.
Store ==
    /\ library \subseteq library'
    /\ UNCHANGED <<acked, epoch>>

\* A source identity is acknowledged once, with content that is stored.
Acknowledge(a) ==
    /\ acked[a] = NoContent
    /\ \E c \in library : acked' = [acked EXCEPT ![a] = c]
    /\ UNCHANGED <<library, epoch>>

\* An administrator resets a range of a device's identities.
Forget(d) ==
    /\ epoch' = [epoch EXCEPT ![d] = @ + 1]
    /\ \A a \in Asset : acked'[a] # acked[a] =>
           Owner[a] = d /\ acked'[a] = NoContent
    /\ DOMAIN acked' = Asset
    /\ UNCHANGED library

Next ==
    \/ Store
    \/ \E a \in Asset : Acknowledge(a)
    \/ \E d \in Device : Forget(d)

Spec == Init /\ [][Next]_vars
=============================================================================
