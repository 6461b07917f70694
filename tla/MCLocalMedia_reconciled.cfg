SPECIFICATION Spec
CONSTANTS
  Path = {p1}
  Dir <- OneDirectory
  File = {f1}
  Content = {c1}
  ContentOf <- OneContent
  Root = {r1}
  Worker = {w1}
  NoFile = NoFile
  NoRoot = NoRoot
  NoAsset = NoAsset
  FlushSize = 1
  MaxLocation = 2
  MaxJob = 2
  MaxGeneration = 1
  MaxChange = 3
  MaxError = 0
PROPERTIES
  Reconciled
\* Changes and errors are finite here, and a catalog with nothing to do may rest.
CHECK_DEADLOCK FALSE
