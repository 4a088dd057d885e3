CONSTANTS
  r1 = r1
  r2 = r2
  e1 = e1
  e2 = e2
  e3 = e3
  Ranks = {r1, r2}
  Events = {e1, e2}
  EmptyEvents = {}
  NStages = 2
  Slice <- MCSlice2
  Limits <- MCLimits
  MaxCrashes = 0
  NoEvent = NoEvent
SPECIFICATION Spec
INVARIANT StrictRead
