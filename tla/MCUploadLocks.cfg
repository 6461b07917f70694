SPECIFICATION FairSpec
CONSTANTS
  gate = gate
  rtc = rtc
  s1 = s1
  Proc = {p1, p2, p3}
  Key = {gate, rtc, s1}
  Plan <- Plans
  Entry = {e1, e2, e3, e4, e5}
  None = None
INVARIANTS
  OneEntryPerKey
PROPERTIES
  IsLock
  Answered
