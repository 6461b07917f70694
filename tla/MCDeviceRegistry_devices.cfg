SPECIFICATION Spec
CONSTANTS
  Device = {d1, d2, d3}
  Code = {}
  Link = {}
  Request = {r1, r2}
  Ops = {"hosted", "review", "revoke", "rename", "crash"}
  DeviceLimit = 2
  MaxMisses = 1
  MaxLinks = 1
  MaxToken = 1
  NoDevice = NoDevice
  NoCode = NoCode
  NoLink = NoLink
SYMMETRY Symmetric
INVARIANTS
  WithinLimit
  OrdinaryStays
  RevokedForGood
\* Identities are finite here: all drawn, nothing left to do.
CHECK_DEADLOCK FALSE
