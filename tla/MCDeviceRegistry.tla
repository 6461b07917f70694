-------------------------- MODULE MCDeviceRegistry --------------------------
(* Small instances of DeviceRegistry for TLC. *)
EXTENDS DeviceRegistry, TLC

Symmetric == Permutations(Request) \cup Permutations(Device)
SymmetricLinks == Symmetric \cup Permutations(Link)
=============================================================================
