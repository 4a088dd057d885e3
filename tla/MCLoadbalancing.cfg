CONSTANTS
  r1 = r1
  r2 = r2
  e1 = e1
  e2 = e2
  e3 = e3
  Ranks = {r1, r2}
  Events = {e1, e2, e3}
  EmptyEvents = {e2}
  NStages = 2
  Slice <- MCSlice3
  Limits <- MCLimits
  MaxCrashes = 1
  NoEvent = NoEvent
SPECIFICATION Spec
INVARIANTS
  TypeOK
  OnePlace
  NoEventStranded
  PushedIsStoredOrBatched
  LoadedProductsAreRead
  Accounted
PROPERTIES
  FlowSpec
  WorkflowEnds
