SPECIFICATION Spec
CONSTANTS
  Path = {p1}
  Dir <- OneDirectory
  File = {f1, f2}
  Content = {c1}
  ContentOf <- OneContent
  Root = {r1, r2}
  Worker = {w1}
  NoFile = NoFile
  NoRoot = NoRoot
  NoAsset = NoAsset
  FlushSize = 1
  MaxLocation = 2
  MaxJob = 2
  MaxGeneration = 2
  MaxChange = 2
  MaxError = 1
SYMMETRY Symmetric
INVARIANTS
  CatalogInvariant
  GateHeld
  CurrentJobs
  QueuedUntilRegistered
PROPERTIES
  KeptIfSteady
  ReconciledAlone
\* Changes and errors are finite here, and a catalog with nothing to do may rest.
CHECK_DEADLOCK FALSE
