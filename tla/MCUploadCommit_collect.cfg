SPECIFICATION FairSpec
CONSTANTS
  d1 = d1
  a1 = a1
  a2 = a2
  c1 = c1
  c2 = c2
  Device = {d1}
  Asset = {a1}
  UploadId = {u1, u2}
  Chunk = {c1}
  Request = {r1}
  Maintainer = maintainer
  Owner <- OwnerOne
  Size <- SizeOne
  BasePath <- BaseOne
  Foreign <- NoForeign
  MaxAttempts = 2
  MaxEpoch = 1
  NoFile = NoFile
  NoUpload = NoUpload
PROPERTIES
  SessionsEnd
  TempsEnd
