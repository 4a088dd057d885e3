---------------------------- MODULE MCOutputModules ----------------------------
(* Instances of the output modules: four data products, the tracks of a type *)
(* that is not stored; three association collections; two events.          *)
EXTENDS OutputModules, TLC

CONSTANTS raw, wires, hits, tracks, rawWires, wiresHits, tracksHits

MCEnds ==
  rawWires :> {raw, wires} @@ wiresHits :> {wires, hits} @@ tracksHits :> {tracks, hits}

MCOrigin == [n \in DataNames |-> IF n = raw THEN "previous" ELSE "current"]
===============================================================================
