SPECIFICATION Spec
CONSTANTS
  Request = {r1}
  Config <- OnOff
  Batch = 2
  Arriving = {"metadata", "thumbnails", "content_verification", "search_index"}
  Backlog <- Nothing
  MaxEvents = 2
CHECK_DEADLOCK FALSE
INVARIANTS
  NothingForgotten
  Yields
  SlotsHeld
