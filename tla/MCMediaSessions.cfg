SPECIFICATION FairSpec
CONSTANTS
  Session = {s1, s2}
  Scope = {k1}
  Device = {d1}
  Offer = {o1}
  None = None
  Shutdown = Shutdown
INVARIANTS
  RevokedSilent
  LeaseTracked
  StoppedQuiet
PROPERTIES
  LapsedForGood
  LapsedClosed
  Stops
