SPECIFICATION FairSpec
CONSTANTS
  Request = {r1}
  Config <- LocalOrOff
  Batch = 1
  Arriving = {}
  Backlog <- OneLocation
  MaxEvents = 1
CHECK_DEADLOCK FALSE
PROPERTIES
  Served
