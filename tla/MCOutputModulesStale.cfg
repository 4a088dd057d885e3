CONSTANTS
  raw = raw
  wires = wires
  hits = hits
  tracks = tracks
  rawWires = rawWires
  wiresHits = wiresHits
  tracksHits = tracksHits
  NEvents = 2
  DataNames = {raw, wires, hits, tracks}
  AssnNames = {rawWires, wiresHits, tracksHits}
  Ends <- MCEnds
  StoredNames = {raw, wires, hits}
  StoredAssns = {rawWires, wiresHits}
  Origin <- MCOrigin
  Dropped = {}
  Forwarded = {}
SPECIFICATION Spec
INVARIANT PointersStayInTheEvent
