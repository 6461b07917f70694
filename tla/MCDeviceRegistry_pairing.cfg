SPECIFICATION Spec
CONSTANTS
  Device = {d1, d2}
  Code = {c1}
  Link = {l1}
  Request = {r1, r2}
  Ops = {"code", "link", "revoke", "rename", "crash"}
  DeviceLimit = 2
  MaxMisses = 2
  MaxLinks = 1
  MaxToken = 3
  NoDevice = NoDevice
  NoCode = NoCode
  NoLink = NoLink
SYMMETRY SymmetricLinks
INVARIANTS
  RegistryInvariant
  OneSessionPerApproval
  GuessesBounded
  TokensTogether
\* Identities are finite here: all drawn, nothing left to do.
CHECK_DEADLOCK FALSE
