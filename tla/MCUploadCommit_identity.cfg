SPECIFICATION Spec
CONSTANTS
  d1 = d1
  a1 = a1
  a2 = a2
  c1 = c1
  c2 = c2
  Device = {d1}
  Asset = {a1}
  UploadId = {u1, u2}
  Chunk = {c1}
  Request = {r1, r2}
  Maintainer = maintainer
  Owner <- OwnerOne
  Size <- SizeLong
  BasePath <- BaseOne
  Foreign <- ForeignOne
  MaxAttempts = 2
  MaxEpoch = 1
  NoFile = NoFile
  NoUpload = NoUpload
SYMMETRY Symmetric
INVARIANTS
  CommitInvariant
  UploadedIsStored
  CommitRecoverable
  OneUploadPerIdentity
  PlacedOnce
  OnlyConfirmedCommitted
PROPERTIES
  FinalNeverChanges
  RevokedStaysEmpty
  EvidenceNeedsNewEpoch
  LiveTempKept
  KeepsPromise
