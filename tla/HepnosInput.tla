------------------------------ MODULE HepnosInput ------------------------------
(***************************************************************************)
(* HepnosInputSource, the source without a queue: it walks the event set   *)
(* of a dataset from the event that skipEvents or firstRun / firstSubRun / *)
(* firstEvent select, up to maxEvents events, and hands art a run and a    *)
(* subrun principal where the numbers change.                              *)
(*                                                                         *)
(* The HEPnOS iterator is external: incrementing it at the end either      *)
(* leaves it there or throws, and the end has no event to look at.         *)
(***************************************************************************)
EXTENDS Integers, Sequences

CONSTANTS
  DataSet,      \* the events of the dataset in order: [run, subrun, event]
  SkipChoices,  \* values of skipEvents
  MaxChoices,   \* values of maxEvents
  FirstChoices  \* events the first... parameters name

Unset == -1
NoEvent == [run |-> Unset, subrun |-> Unset, event |-> Unset]
End == Len(DataSet) + 1

ASSUME DataSetAssumption ==
  DataSet \in Seq([run : Nat, subrun : Nat, event : Nat])
ASSUME ChoicesAssumption ==
  /\ SkipChoices \subseteq Nat \cup {Unset}
  /\ MaxChoices \subseteq Nat \cup {Unset}

SubRunOf(e) == [run |-> e.run, subrun |-> e.subrun]

\* An event set is in the order of its keys: the events of a subrun are in a row.
ASSUME OrderAssumption ==
  \A i, k \in 1..Len(DataSet) :
    i <= k /\ SubRunOf(DataSet[i]) = SubRunOf(DataSet[k]) =>
      \A j \in i..k : SubRunOf(DataSet[j]) = SubRunOf(DataSet[i])

VARIABLES
  pc,          \* "file", "next", "done" or "failed"
  nSkip_, maxEvents_, first,   \* the parameters
  ev_,         \* the iterator: a position in DataSet
  nEvents_,    \* events returned
  r_, sr_,     \* run and subrun of the last principals
  delivered,   \* history: the events returned
  principals   \* history: the subrun principals made, as [run, subrun]

parameters == <<nSkip_, maxEvents_, first>>
vars == <<pc, nSkip_, maxEvents_, first, ev_, nEvents_, r_, sr_, delivered, principals>>

\* The start is given by skipEvents or by an event, not by both.
Init ==
  /\ pc = "file"
  /\ nSkip_ \in SkipChoices
  /\ maxEvents_ \in MaxChoices
  /\ first \in FirstChoices \cup {NoEvent}
  /\ nSkip_ = Unset \/ first = NoEvent
  /\ ev_ = 1
  /\ nEvents_ = 0
  /\ r_ = Unset
  /\ sr_ = Unset
  /\ delivered = <<>>
  /\ principals = <<>>

\* Positions the iterator can be at after the skip, 0 for an exception.
Skipped ==
  IF nSkip_ = Unset THEN {1}
  ELSE IF nSkip_ < End THEN {1 + nSkip_} ELSE {End, 0}

\* The search goes on while all three numbers differ.
SearchStops(i) ==
  \/ DataSet[i].event = first.event
  \/ DataSet[i].subrun = first.subrun
  \/ DataSet[i].run = first.run

\* Mutant: the search stops one event late.
FoundMut(start) ==
  IF first = NoEvent THEN start + 1
  ELSE IF \E i \in start..Len(DataSet) : SearchStops(i)
         THEN CHOOSE i \in start..Len(DataSet) :
                SearchStops(i) /\ \A k \in start..(i - 1) : ~ SearchStops(k)
         ELSE 0

\* Mutant: the iterator is advanced before the first comparison.
FoundMut2(start) ==
  IF first = NoEvent THEN start
  ELSE IF \E i \in (start + 1)..Len(DataSet) : SearchStops(i)
         THEN CHOOSE i \in (start + 1)..Len(DataSet) :
                SearchStops(i) /\ \A k \in (start + 1)..(i - 1) : ~ SearchStops(k)
         ELSE 0

\* Where the search ends; at the end of the set there is no number to look at.
Found(start) ==
  IF first = NoEvent THEN start
  ELSE IF \E i \in start..Len(DataSet) : SearchStops(i)
         THEN CHOOSE i \in start..Len(DataSet) :
                SearchStops(i) /\ \A k \in start..(i - 1) : ~ SearchStops(k)
         ELSE 0

ReadFile ==
  /\ pc = "file"
  /\ \E start \in Skipped :
       LET at == IF start = 0 THEN 0 ELSE Found(start)
       IN /\ pc' = IF at = 0 THEN "failed" ELSE "next"
          /\ ev_' = IF at = 0 THEN ev_ ELSE at
  /\ UNCHANGED <<parameters, nEvents_, r_, sr_, delivered, principals>>

\* readNext returns false at the end of the set and at the limit.
NoMoreEvents ==
  /\ pc = "next"
  /\ ev_ = End \/ nEvents_ = maxEvents_
  /\ pc' = "done"
  /\ UNCHANGED <<parameters, ev_, nEvents_, r_, sr_, delivered, principals>>

NewRun(e) == e.run # r_

\* Mutant: a new run with the same subrun number gets no subrun principal.
NewSubRunMut(e) == e.subrun # sr_

NewSubRun(e) == NewRun(e) \/ e.subrun # sr_

\* readNext returns the event at the iterator and advances it.
ReadNext ==
  /\ pc = "next"
  /\ ev_ # End
  /\ nEvents_ # maxEvents_
  /\ LET e == DataSet[ev_]
     IN /\ delivered' = Append(delivered, e)
        /\ principals' = IF NewSubRun(e)
                           THEN Append(principals, SubRunOf(e))
                           ELSE principals
        /\ r_' = e.run
        /\ sr_' = e.subrun
  /\ ev_' = ev_ + 1
  /\ nEvents_' = nEvents_ + 1
  /\ UNCHANGED <<pc, parameters>>

Terminated == pc \in {"done", "failed"} /\ UNCHANGED vars

Next == ReadFile \/ NoMoreEvents \/ ReadNext \/ Terminated

Spec == Init /\ [][Next]_vars

-------------------------------------------------------------------------------
(* Properties *)

TypeOK ==
  /\ pc \in {"file", "next", "done", "failed"}
  /\ nSkip_ \in SkipChoices /\ maxEvents_ \in MaxChoices
  /\ first \in FirstChoices \cup {NoEvent}
  /\ ev_ \in 1..End
  /\ nEvents_ \in Nat
  /\ r_ \in Nat \cup {Unset} /\ sr_ \in Nat \cup {Unset}
  /\ delivered \in Seq([run : Nat, subrun : Nat, event : Nat])
  /\ principals \in Seq([run : Nat, subrun : Nat])

\* Every event is processed inside its own subrun, and every subrun the job
\* touches is opened once.
EventsInTheirSubRun ==
  delivered # <<>> =>
    /\ principals # <<>>
    /\ principals[Len(principals)] = SubRunOf(delivered[Len(delivered)])
    /\ \A i, k \in 1..Len(principals) : i # k => principals[i] # principals[k]

\* --nskip k -n m skips k events and processes the next m, or what there is of them.
SkipsThenProcesses ==
  pc = "done" /\ first = NoEvent =>
    LET start == IF nSkip_ = Unset THEN 0 ELSE nSkip_
        size  == IF maxEvents_ = Unset THEN Len(DataSet) ELSE maxEvents_
        last  == IF start + size < Len(DataSet) THEN start + size ELSE Len(DataSet)
    IN delivered = SubSeq(DataSet, start + 1, last)

\* With -e a job delivers the stretch of the set that starts at the first event with
\* the run, the subrun or the event number of the one it was told to start at: never
\* later than that event, and earlier if one before it shares a number with it, which
\* with -n leaves the event itself out.  A job that finds none fails.
StartsAtAMatch ==
  pc = "done" /\ first # NoEvent =>
    \E k \in 1..Len(DataSet) :
      LET rest == Len(DataSet) - k + 1
          size == IF maxEvents_ = Unset \/ maxEvents_ > rest THEN rest ELSE maxEvents_
      IN /\ \E n \in {"run", "subrun", "event"} : DataSet[k][n] = first[n]
         /\ \A i \in 1..(k - 1) : \A n \in {"run", "subrun", "event"} :
              DataSet[i][n] # first[n]
         /\ delivered = SubSeq(DataSet, k, k + size - 1)
===============================================================================
