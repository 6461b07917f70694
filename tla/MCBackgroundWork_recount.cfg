SPECIFICATION Spec
CONSTANTS
  Request = {r1}
  Config <- OnlyBoth
  Batch = 1
  Arriving = {}
  Backlog <- OneVector
  MaxEvents = 1
CHECK_DEADLOCK FALSE
INVARIANTS
  RecountDeferred
