----------------------------- MODULE MCHepnosInput -----------------------------
(* A dataset of six events in two runs; the second run starts with the  *)
(* subrun number the first one ends with.                               *)
EXTENDS HepnosInput

MCEvent(r, s, e) == [run |-> r, subrun |-> s, event |-> e]

MCDataSet ==
  <<MCEvent(1, 1, 1), MCEvent(1, 1, 2), MCEvent(1, 2, 1), MCEvent(2, 2, 1),
    MCEvent(2, 2, 3), MCEvent(2, 3, 2)>>

MCFirstChoices ==
  {MCDataSet[i] : i \in 1..6} \cup {MCEvent(1, 2, 3), MCEvent(4, 4, 4)}

MCSkipChoices == 0..7 \cup {Unset}
MCMaxChoices == 0..7 \cup {Unset}
===============================================================================
