CONSTANTS
  raw = raw
  wires = wires
  hits = hits
  tracks = tracks
  rawWires = rawWires
  wiresHits = wiresHits
  tracksHits = tracksHits
  NEvents = 2
  DataNames = {raw, wires, hits, tracks}
  AssnNames = {rawWires, wiresHits, tracksHits}
  Ends <- MCEnds
  StoredNames = {raw, wires, hits}
  StoredAssns = {rawWires, wiresHits}
  Origin <- MCOrigin
  Dropped = {raw}
  Forwarded = {hits}
SPECIFICATION Spec
INVARIANTS
  JobTypeOK
  PointersHaveProducts
  EveryProductStored
  FailsOnlyOnDroppedEnds
  MapIsComplete
  FirstCopyIsStored
