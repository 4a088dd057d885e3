---------------------------- MODULE HepnosInputProofs ----------------------------
(***************************************************************************)
(* Theorems about HepnosInput, for any dataset whose events are in order   *)
(* and any skip, limit and first event.                                    *)
(***************************************************************************)
EXTENDS HepnosInput, SequenceTheorems, WellFoundedInduction, TLAPS

EventIds == [run : Nat, subrun : Nat, event : Nat]
SubRuns == [run : Nat, subrun : Nat]

\* The position of the first event that is delivered.
Start == ev_ - Len(delivered)

\* What has been delivered is the stretch of the dataset in front of the iterator.
Stretch ==
  /\ nEvents_ = Len(delivered)
  /\ Start >= 1
  /\ \A i \in 1..Len(delivered) : delivered[i] = DataSet[Start + i - 1]

\* Where the stretch starts, and that the limit and the end are not passed.
Bounds ==
  /\ nSkip_ = Unset \/ first = NoEvent
  /\ pc = "file" => delivered = <<>> /\ ev_ = 1
  /\ pc \in {"next", "done"} /\ first = NoEvent =>
       Start = IF nSkip_ = Unset THEN 1 ELSE IF nSkip_ < End THEN 1 + nSkip_ ELSE End
  /\ pc \in {"next", "done"} /\ first # NoEvent =>
       /\ Start \in 1..Len(DataSet)
       /\ SearchStops(Start)
       /\ \A i \in 1..(Start - 1) : ~ SearchStops(i)
  /\ maxEvents_ # Unset => nEvents_ <= maxEvents_
  /\ pc = "done" => ev_ = End \/ nEvents_ = maxEvents_

\* The numbers kept are those of the event in front of the iterator, which is in the
\* subrun opened last; before the first event there are none.
Numbers ==
  IF delivered = <<>>
    THEN r_ = Unset /\ sr_ = Unset /\ principals = <<>>
    ELSE /\ r_ = DataSet[ev_ - 1].run
         /\ sr_ = DataSet[ev_ - 1].subrun
         /\ principals # <<>>
         /\ principals[Len(principals)] = SubRunOf(DataSet[ev_ - 1])

\* A subrun that has been opened is one of the events in front of the iterator, and
\* none has been opened twice.
Opened ==
  /\ \A i \in 1..Len(principals) :
       \E k \in 1..(ev_ - 1) : principals[i] = SubRunOf(DataSet[k])
  /\ \A i, k \in 1..Len(principals) : i # k => principals[i] # principals[k]

IInv == TypeOK /\ Stretch /\ Bounds /\ Numbers /\ Opened

\* The dataset as a function.
LEMMA DataSetFacts ==
  /\ Len(DataSet) \in Nat
  /\ End = Len(DataSet) + 1
  /\ \A i \in 1..Len(DataSet) : DataSet[i] \in EventIds
BY DataSetAssumption, ElementOfSeq, LenProperties DEF End, EventIds

\* Nothing is delivered when the source is made.
LEMMA IInvInit == Init => IInv
<1> SUFFICES ASSUME Init
             PROVE  IInv
  OBVIOUS
<1> USE DEF Init
<1>1. Len(delivered) = 0 /\ Len(principals) = 0
  BY EmptySeq
<1>2. TypeOK
  BY DataSetFacts, EmptySeq DEF TypeOK
<1>3. Stretch
  BY <1>1 DEF Stretch, Start
<1>4. Bounds
  BY <1>1, DataSetFacts, ChoicesAssumption DEF Bounds, Unset
<1>5. Numbers /\ Opened
  BY <1>1 DEF Numbers, Opened
<1> QED
  BY <1>2, <1>3, <1>4, <1>5 DEF IInv

\* A set of numbers has a least one.
LEMMA Least ==
  ASSUME NEW T, T \subseteq Nat, T # {}
  PROVE  \E x \in T : \A y \in T : x <= y
<1> DEFINE R == {ss \in Nat \X Nat : ss[1] < ss[2]}
<1>1. IsWellFoundedOn(R, Nat)
  BY NatLessThanWellFounded DEF OpToRel
<1>2. \A x, y \in Nat : <<y, x>> \notin R => x <= y
  OBVIOUS
<1> HIDE DEF R
<1>3. PICK x \in T : \A y \in T : <<y, x>> \notin R
  BY <1>1, WFMin
<1>4. \A y \in T : x <= y
  BY <1>2, <1>3
<1> QED
  BY <1>4

\* The search ends inside the set, at the first event it may stop at.
LEMMA FoundIsFirst ==
  ASSUME first # NoEvent, NEW start \in 1..End, Found(start) # 0
  PROVE  /\ Found(start) \in start..Len(DataSet)
         /\ SearchStops(Found(start))
         /\ \A i \in start..(Found(start) - 1) : ~ SearchStops(i)
<1> DEFINE Stops(i) == SearchStops(i) /\ \A k \in start..(i - 1) : ~ SearchStops(k)
<1>1. \E i \in start..Len(DataSet) : SearchStops(i)
  BY DEF Found
<1>2. Found(start) = CHOOSE i \in start..Len(DataSet) : Stops(i)
  BY <1>1 DEF Found
<1> DEFINE Stopping == {i \in start..Len(DataSet) : SearchStops(i)}
<1>3. PICK m \in Stopping : \A i \in Stopping : m <= i
  <2>1. Stopping \subseteq Nat /\ Stopping # {}
    <3>1. start..Len(DataSet) \subseteq Nat
      BY DataSetFacts
    <3> QED
      BY <1>1, <3>1
  <2> HIDE DEF Stopping
  <2> QED
    BY <2>1, Least
<1>4. m \in start..Len(DataSet) /\ Stops(m)
  BY <1>3, DataSetFacts
<1> HIDE DEF Stops
<1>5. Found(start) \in start..Len(DataSet) /\ Stops(Found(start))
  BY <1>2, <1>4
<1> QED
  BY <1>5 DEF Stops

\* The position the skip leads to.
LEMMA SkippedIsInside ==
  ASSUME NEW start \in Skipped, TypeOK, start # 0
  PROVE  /\ start \in 1..End
         /\ start = IF nSkip_ = Unset THEN 1 ELSE IF nSkip_ < End THEN 1 + nSkip_ ELSE End
BY DataSetFacts, ChoicesAssumption DEF Skipped, TypeOK, Unset

\* readFile puts the iterator at the first event and delivers nothing.
LEMMA ReadFileKeeps ==
  ASSUME IInv, ReadFile
  PROVE  IInv'
<1> USE DEF IInv, parameters
<1>1. PICK start \in Skipped :
        LET at == IF start = 0 THEN 0 ELSE Found(start)
        IN /\ pc' = IF at = 0 THEN "failed" ELSE "next"
           /\ ev_' = IF at = 0 THEN ev_ ELSE at
  BY DEF ReadFile
<1>2. /\ pc = "file"
      /\ UNCHANGED <<nSkip_, maxEvents_, first, nEvents_, r_, sr_, delivered, principals>>
      /\ delivered = <<>> /\ ev_ = 1 /\ Len(delivered) = 0 /\ nEvents_ = 0
      /\ principals = <<>> /\ Len(principals) = 0
  BY EmptySeq DEF ReadFile, Bounds, Stretch, Numbers
<1>3. CASE start = 0 \/ Found(start) = 0
  <2>1. pc' = "failed" /\ ev_' = ev_
    BY <1>1, <1>3
  <2>2. TypeOK' /\ Stretch' /\ Numbers' /\ Opened'
    BY <1>2, <2>1 DEF TypeOK, Stretch, Start, Numbers, Opened
  <2>3. Bounds'
    BY <1>2, <2>1 DEF Bounds
  <2> QED
    BY <2>2, <2>3
<1>4. CASE start # 0 /\ Found(start) # 0
  <2>1. pc' = "next" /\ ev_' = Found(start)
    BY <1>1, <1>4
  <2>2. /\ start \in 1..End
        /\ start = IF nSkip_ = Unset THEN 1 ELSE IF nSkip_ < End THEN 1 + nSkip_ ELSE End
    BY <1>4, SkippedIsInside
  <2>3. first = NoEvent => Found(start) = start
    BY DEF Found
  <2>4. first # NoEvent =>
          /\ Found(start) \in 1..Len(DataSet)
          /\ SearchStops(Found(start))
          /\ \A i \in 1..(Found(start) - 1) : ~ SearchStops(i)
    <3> SUFFICES ASSUME first # NoEvent
                 PROVE  /\ Found(start) \in 1..Len(DataSet)
                        /\ SearchStops(Found(start))
                        /\ \A i \in 1..(Found(start) - 1) : ~ SearchStops(i)
      OBVIOUS
    <3>1. start = 1
      BY <2>2 DEF Bounds
    <3> QED
      BY <2>2, <3>1, <1>4, FoundIsFirst
  <2>5. ev_' \in 1..End
    BY <2>1, <2>2, <2>3, <2>4, DataSetFacts
  <2>6. TypeOK'
    BY <1>2, <2>1, <2>5 DEF TypeOK
  <2>7. Start' = Found(start)
    BY <1>2, <2>1, <2>5, DataSetFacts DEF Start
  <2>8. Stretch'
    BY <1>2, <2>1, <2>5, <2>7, DataSetFacts DEF Stretch
  <2>9. Bounds'
    <3>1. \A i : SearchStops(i)' <=> SearchStops(i)
      BY <1>2 DEF SearchStops
    <3> QED
      BY <1>2, <2>1, <2>2, <2>3, <2>4, <2>7, <3>1 DEF Bounds
  <2>10. Numbers' /\ Opened'
    BY <1>2 DEF Numbers, Opened
  <2> QED
    BY <2>6, <2>8, <2>9, <2>10
<1> QED
  BY <1>3, <1>4

\* readNext delivers the event at the iterator, after opening its subrun if it is
\* not the one opened last: events of a subrun that was left do not come again.
LEMMA ReadNextKeeps ==
  ASSUME IInv, ReadNext
  PROVE  IInv'
<1> USE DEF IInv
<1> DEFINE e == DataSet[ev_]
<1>1. /\ pc = "next" /\ pc' = "next"
      /\ ev_ # End /\ nEvents_ # maxEvents_
      /\ delivered' = Append(delivered, e)
      /\ principals' = IF NewSubRun(e) THEN Append(principals, SubRunOf(e)) ELSE principals
      /\ r_' = e.run /\ sr_' = e.subrun
      /\ ev_' = ev_ + 1 /\ nEvents_' = nEvents_ + 1
      /\ UNCHANGED <<nSkip_, maxEvents_, first>>
  BY DEF ReadNext, parameters
<1>2. /\ ev_ \in 1..Len(DataSet)
      /\ Len(DataSet) \in Nat
      /\ e \in EventIds
      /\ e.run \in Nat /\ e.subrun \in Nat
      /\ SubRunOf(e) \in SubRuns
  <2>1. ev_ \in 1..Len(DataSet) /\ Len(DataSet) \in Nat
    BY <1>1, DataSetFacts DEF TypeOK
  <2>2. e \in EventIds
    BY <2>1, DataSetFacts
  <2> HIDE DEF e
  <2> QED
    BY <2>1, <2>2 DEF EventIds, SubRuns, SubRunOf
<1>3. /\ delivered \in Seq(EventIds) /\ Len(delivered) \in Nat
      /\ principals \in Seq(SubRuns) /\ Len(principals) \in Nat
  BY LenProperties DEF TypeOK, EventIds, SubRuns
<1> HIDE DEF e
<1>4. /\ delivered' \in Seq(EventIds)
      /\ delivered' # <<>>
      /\ Len(delivered') = Len(delivered) + 1
      /\ \A i \in 1..Len(delivered) : delivered'[i] = delivered[i]
      /\ delivered'[Len(delivered) + 1] = e
  BY <1>1, <1>2, <1>3, AppendProperties
<1>5. Start' = Start /\ Start + Len(delivered) = ev_
  BY <1>1, <1>2, <1>3, <1>4 DEF Start
<1>6. Stretch'
  <2>1. ASSUME NEW i \in 1..Len(delivered')
        PROVE  delivered'[i] = DataSet[Start + i - 1]
    <3>1. CASE i \in 1..Len(delivered)
      BY <3>1, <1>4 DEF Stretch
    <3>2. CASE i = Len(delivered) + 1
      <4>1. Start + i - 1 = ev_
        BY <3>2, <1>5, <1>2, <1>3 DEF Start
      <4> QED
        BY <3>2, <4>1, <1>4 DEF e
    <3> QED
      BY <3>1, <3>2, <1>3, <1>4
  <2> QED
    BY <2>1, <1>1, <1>4, <1>5 DEF Stretch
<1>7. Bounds'
  <2>1. maxEvents_ # Unset => nEvents_ + 1 <= maxEvents_
    <3>1. nEvents_ \in Nat /\ (maxEvents_ # Unset => maxEvents_ \in Nat)
      BY ChoicesAssumption DEF TypeOK
    <3> QED
      BY <1>1, <3>1 DEF Bounds
  <2> QED
    <3>1. \A i : SearchStops(i)' <=> SearchStops(i)
      BY <1>1 DEF SearchStops
    <3> QED
      BY <2>1, <3>1, <1>1, <1>5 DEF Bounds
<1>8. \A k \in 1..(ev_ - 1) : SubRunOf(DataSet[k]) = SubRunOf(e) =>
        SubRunOf(DataSet[ev_ - 1]) = SubRunOf(e)
  <2> SUFFICES ASSUME NEW k \in 1..(ev_ - 1), SubRunOf(DataSet[k]) = SubRunOf(DataSet[ev_])
               PROVE  SubRunOf(DataSet[ev_ - 1]) = SubRunOf(DataSet[ev_])
    BY DEF e
  <2>1. k \in 1..Len(DataSet) /\ k <= ev_ /\ ev_ - 1 \in k..ev_
    BY <1>2
  <2> QED
    BY <1>2, <2>1, OrderAssumption
<1>9. CASE NewSubRun(e)
  <2>1. /\ principals' \in Seq(SubRuns)
        /\ principals' # <<>>
        /\ Len(principals') = Len(principals) + 1
        /\ \A i \in 1..Len(principals) : principals'[i] = principals[i]
        /\ principals'[Len(principals) + 1] = SubRunOf(e)
    BY <1>1, <1>2, <1>3, <1>9, AppendProperties
  <2>2. TypeOK'
    BY <1>1, <1>2, <1>4, <2>1, DataSetFacts DEF TypeOK, EventIds, SubRuns
  <2>3. Numbers'
    <3>1. ev_' - 1 = ev_
      BY <1>1, <1>2
    <3> QED
      BY <1>1, <1>4, <2>1, <3>1 DEF Numbers, e
  <2>4. \A i \in 1..Len(principals) : principals[i] # SubRunOf(e)
    <3> SUFFICES ASSUME NEW i \in 1..Len(principals), principals[i] = SubRunOf(e)
                 PROVE  FALSE
      OBVIOUS
    <3>1. SubRunOf(DataSet[ev_ - 1]) = SubRunOf(e)
      BY <1>8 DEF Opened
    <3>2. delivered # <<>>
      BY EmptySeq DEF Numbers
    <3>3. r_ = DataSet[ev_ - 1].run /\ sr_ = DataSet[ev_ - 1].subrun
      BY <3>2 DEF Numbers
    <3>4. r_ = e.run /\ sr_ = e.subrun
      BY <3>1, <3>3 DEF SubRunOf
    <3> QED
      BY <3>4, <1>9 DEF NewSubRun, NewRun
  <2>5. Opened'
    <3>1. ASSUME NEW i \in 1..Len(principals')
          PROVE  \E k \in 1..ev_ : principals'[i] = SubRunOf(DataSet[k])
      <4>1. CASE i \in 1..Len(principals)
        BY <4>1, <2>1, <1>2 DEF Opened
      <4>2. CASE i = Len(principals) + 1
        BY <4>2, <2>1, <1>2 DEF e
      <4> QED
        BY <4>1, <4>2, <2>1, <1>3
    <3>2. ASSUME NEW i \in 1..Len(principals'), NEW k \in 1..Len(principals'), i # k
          PROVE  principals'[i] # principals'[k]
      <4>1. /\ i \in 1..Len(principals) \/ i = Len(principals) + 1
            /\ k \in 1..Len(principals) \/ k = Len(principals) + 1
        BY <2>1, <1>3
      <4> QED
        BY <4>1, <3>2, <2>1, <2>4 DEF Opened
    <3>3. ev_' - 1 = ev_
      BY <1>1, <1>2
    <3> QED
      BY <3>1, <3>2, <3>3 DEF Opened
  <2> QED
    BY <1>6, <1>7, <2>2, <2>3, <2>5
<1>10. CASE ~ NewSubRun(e)
  <2>1. principals' = principals
    BY <1>1, <1>10
  <2>2. TypeOK'
    BY <1>1, <1>2, <1>4, <2>1, DataSetFacts DEF TypeOK, EventIds, SubRuns
  <2>3. r_ = e.run /\ sr_ = e.subrun
    BY <1>10 DEF NewSubRun, NewRun
  <2>4. ev_' - 1 = ev_
    BY <1>1, <1>2
  <2>5. delivered # <<>>
    BY <2>3, <1>2 DEF Numbers, Unset
  <2>6. SubRunOf(DataSet[ev_ - 1]) = SubRunOf(e)
    BY <2>3, <2>5 DEF Numbers, SubRunOf
  <2>7. Numbers'
    BY <1>1, <1>4, <2>1, <2>4, <2>5, <2>6 DEF Numbers, e
  <2>8. Opened'
    BY <2>1, <2>4, <1>2 DEF Opened
  <2> QED
    BY <1>6, <1>7, <2>2, <2>7, <2>8
<1> QED
  BY <1>9, <1>10

\* The end, or no step.
LEMMA RestKeeps ==
  ASSUME IInv, NoMoreEvents \/ UNCHANGED vars
  PROVE  IInv'
<1> USE DEF IInv, NoMoreEvents, vars, parameters
<1>1. TypeOK' /\ Stretch'
  BY DEF TypeOK, Stretch, Start
<1>2. Bounds'
  BY DEF Bounds, Start, SearchStops
<1>3. Numbers' /\ Opened'
  BY DEF Numbers, Opened
<1> QED
  BY <1>1, <1>2, <1>3

\* Every step keeps IInv.
LEMMA IInvStep == IInv /\ [Next]_vars => IInv'
BY ReadFileKeeps, ReadNextKeeps, RestKeeps DEF Next, Terminated

\* IInv holds throughout.
LEMMA IInvAlways == Spec => []IInv
BY IInvInit, IInvStep, PTL DEF Spec

\* The types of the source's state, whatever the dataset.
THEOREM SourceTypes == Spec => []TypeOK
<1>1. IInv => TypeOK
  BY DEF IInv
<1> QED
  BY IInvAlways, <1>1, PTL

\* In a dataset of any number of runs and subruns every event is delivered inside
\* its own subrun, and every subrun is opened once.
THEOREM SubRunsOpenOnce == Spec => []EventsInTheirSubRun
<1>1. IInv => EventsInTheirSubRun
  <2> SUFFICES ASSUME IInv, delivered # <<>>
               PROVE  /\ principals # <<>>
                      /\ principals[Len(principals)] = SubRunOf(delivered[Len(delivered)])
                      /\ \A i, k \in 1..Len(principals) : i # k => principals[i] # principals[k]
    BY DEF EventsInTheirSubRun
  <2>1. Len(delivered) \in Nat \ {0} /\ ev_ \in Nat
    BY EmptySeq, DataSetFacts DEF IInv, TypeOK
  <2>2. delivered[Len(delivered)] = DataSet[Start + Len(delivered) - 1]
    BY <2>1 DEF IInv, Stretch
  <2>3. Start + Len(delivered) - 1 = ev_ - 1
    BY <2>1 DEF Start
  <2> QED
    BY <2>2, <2>3 DEF IInv, Numbers, Opened
<1> QED
  BY IInvAlways, <1>1, PTL

\* What has been delivered, as a piece of the dataset.
LEMMA DeliveredIsAPiece ==
  ASSUME IInv
  PROVE  /\ Start \in 1..ev_ /\ ev_ \in 1..End
         /\ delivered = SubSeq(DataSet, Start, ev_ - 1)
<1>1. /\ ev_ \in 1..End /\ Len(delivered) \in Nat /\ Len(DataSet) \in Nat
      /\ delivered \in Seq(EventIds)
  BY DataSetFacts, LenProperties DEF IInv, TypeOK, EventIds
<1>2. Start \in 1..ev_ /\ Len(delivered) = ev_ - Start
  BY <1>1, DataSetFacts DEF IInv, Stretch, Start
<1>3. \A i \in Start..(ev_ - 1) : DataSet[i] \in EventIds
  BY <1>1, <1>2, DataSetFacts
<1>4. ev_ - 1 \in Int /\ Start \in Int
  BY <1>1, <1>2, DataSetFacts
<1> DEFINE piece == SubSeq(DataSet, Start, ev_ - 1)
<1>5. /\ piece \in Seq(EventIds)
      /\ Len(piece) = IF Start <= ev_ - 1 THEN (ev_ - 1) - Start + 1 ELSE 0
      /\ \A i \in 1..((ev_ - 1) - Start + 1) : piece[i] = DataSet[Start + i - 1]
  BY <1>3, <1>4, SubSeqProperties
<1> HIDE DEF piece
<1>6. Len(piece) = Len(delivered)
  BY <1>1, <1>2, <1>5, DataSetFacts
<1>7. \A i \in 1..Len(delivered) : delivered[i] = piece[i]
  BY <1>1, <1>2, <1>5, DataSetFacts DEF IInv, Stretch
<1>8. delivered = piece
  BY <1>1, <1>5, <1>6, <1>7, SeqEqual
<1> QED
  BY <1>1, <1>2, <1>8 DEF piece

\* --nskip k -n m delivers the events k + 1 to k + m of any dataset, or those of them
\* that there are, in their order.
THEOREM SkipAndLimitAreExact == Spec => []SkipsThenProcesses
<1>1. IInv => SkipsThenProcesses
  <2> SUFFICES ASSUME IInv, pc = "done", first = NoEvent
               PROVE  SkipsThenProcesses
    BY DEF SkipsThenProcesses
  <2> DEFINE start == IF nSkip_ = Unset THEN 0 ELSE nSkip_
             size == IF maxEvents_ = Unset THEN Len(DataSet) ELSE maxEvents_
             last == IF start + size < Len(DataSet) THEN start + size ELSE Len(DataSet)
  <2>1. /\ start \in Nat /\ size \in Nat /\ last \in Nat
        /\ last = IF start + size < Len(DataSet) THEN start + size ELSE Len(DataSet)
        /\ start = IF nSkip_ = Unset THEN 0 ELSE nSkip_
    <3>1. nSkip_ \in Nat \cup {Unset} /\ maxEvents_ \in Nat \cup {Unset}
      BY ChoicesAssumption DEF IInv, TypeOK
    <3>2. Len(DataSet) \in Nat
      BY DataSetFacts
    <3>3. start \in Nat /\ size \in Nat
      BY <3>1, <3>2
    <3> HIDE DEF start, size
    <3>4. last \in Nat
      BY <3>2, <3>3
    <3> QED
      BY <3>3, <3>4 DEF start
  <2>2. /\ Start \in 1..ev_ /\ ev_ \in 1..End
        /\ delivered = SubSeq(DataSet, Start, ev_ - 1)
    BY DeliveredIsAPiece
  <2>3. Start = IF start < End THEN start + 1 ELSE End
    <3>1. Start = IF nSkip_ = Unset THEN 1 ELSE IF nSkip_ < End THEN 1 + nSkip_ ELSE End
      BY DEF IInv, Bounds
    <3>2. End \in Nat /\ 0 < End
      BY DataSetFacts
    <3> HIDE DEF start
    <3> QED
      BY <2>1, <3>1, <3>2
  <2>4. Len(delivered) = ev_ - Start /\ nEvents_ = Len(delivered)
    BY <2>2, DataSetFacts, LenProperties DEF IInv, TypeOK, Start, Stretch
  <2>5. /\ nEvents_ <= size
        /\ ev_ = End \/ nEvents_ = size
    <3>1. CASE maxEvents_ = Unset
      <4>1. nEvents_ # maxEvents_
        BY <3>1 DEF IInv, TypeOK, Unset
      <4> QED
        BY <3>1, <4>1, <2>2, <2>4, DataSetFacts DEF IInv, Bounds
    <3>2. CASE maxEvents_ # Unset
      BY <3>2 DEF IInv, Bounds
    <3> QED
      BY <3>1, <3>2
  <2> HIDE DEF start, size, last
  <2>6. CASE start < End
    <3> DEFINE len == Len(DataSet)
    <3>1. len \in Nat /\ End = len + 1 /\ ev_ \in 1..End /\ Start = start + 1
      BY <2>6, <2>2, <2>3, DataSetFacts
    <3>2. nEvents_ = ev_ - (start + 1)
      BY <3>1, <2>4
    <3>3. last = IF start + size < len THEN start + size ELSE len
      BY <2>1
    <3> HIDE DEF len
    <3>4. ev_ - 1 = last
      <4>1. start \in Nat /\ size \in Nat /\ ev_ \in Nat /\ ev_ <= len + 1
        BY <2>1, <3>1
      <4>2. ev_ - (start + 1) <= size
        BY <2>5, <3>2
      <4>3. CASE ev_ = len + 1
        BY <3>1, <3>3, <4>1, <4>2, <4>3
      <4>4. CASE ev_ - (start + 1) = size
        BY <3>1, <3>3, <4>1, <4>4
      <4> QED
        BY <4>3, <4>4, <2>5, <3>1, <3>2
    <3>5. delivered = SubSeq(DataSet, start + 1, last)
      BY <2>2, <3>1, <3>4
    <3> QED
      BY <3>5 DEF SkipsThenProcesses, start, size, last
  <2>7. CASE ~ (start < End)
    <3>1. Start = End /\ ev_ = End /\ last = Len(DataSet) /\ last < start + 1
      BY <2>7, <2>1, <2>2, <2>3, DataSetFacts
    <3>2. delivered = <<>>
      <4>1. ev_ - 1 < Start /\ ev_ - 1 \in Int /\ Start \in Int
        BY <3>1, DataSetFacts
      <4> QED
        BY <4>1, <2>2, SubSeqEmpty
    <3>3. SubSeq(DataSet, start + 1, last) = <<>>
      <4>1. start + 1 \in Int /\ last \in Int
        BY <2>1
      <4> QED
        BY <4>1, <3>1, SubSeqEmpty
    <3> QED
      BY <3>2, <3>3 DEF SkipsThenProcesses, start, size, last
  <2> QED
    BY <2>6, <2>7
<1> QED
  BY IInvAlways, <1>1, PTL

\* With -e a job delivers a stretch of any dataset, as long as the limit and the end
\* allow, from the first event that shares a number with the one it looks for.
THEOREM SearchStopsAtAMatch == Spec => []StartsAtAMatch
<1>1. IInv => StartsAtAMatch
  <2> SUFFICES ASSUME IInv, pc = "done", first # NoEvent
               PROVE  StartsAtAMatch
    BY DEF StartsAtAMatch
  <2> DEFINE rest == Len(DataSet) - Start + 1
             size == IF maxEvents_ = Unset \/ maxEvents_ > rest THEN rest ELSE maxEvents_
  <2>1. /\ Start \in 1..ev_ /\ ev_ \in 1..End
        /\ delivered = SubSeq(DataSet, Start, ev_ - 1)
    BY DeliveredIsAPiece
  <2>2. Start \in 1..Len(DataSet) /\ Len(DataSet) \in Nat
    BY DataSetFacts DEF IInv, Bounds
  <2>3. /\ \E n \in {"run", "subrun", "event"} : DataSet[Start][n] = first[n]
        /\ \A i \in 1..(Start - 1) : \A n \in {"run", "subrun", "event"} :
             DataSet[i][n] # first[n]
    BY DEF IInv, Bounds, SearchStops
  <2>4. ev_ - Start = size
    <3>1. Len(delivered) = ev_ - Start /\ nEvents_ = Len(delivered)
      BY <2>1, DataSetFacts, LenProperties DEF IInv, TypeOK, Start, Stretch
    <3>2. maxEvents_ \in Nat \cup {Unset} /\ nEvents_ \in Nat
      BY ChoicesAssumption DEF IInv, TypeOK
    <3>3. /\ maxEvents_ # Unset => nEvents_ <= maxEvents_
          /\ ev_ = End \/ nEvents_ = maxEvents_
      BY DEF IInv, Bounds
    <3>4. ev_ \in Nat /\ ev_ <= Len(DataSet) + 1 /\ (ev_ = End <=> ev_ = Len(DataSet) + 1)
      BY <2>1, DataSetFacts
    <3>5. Start \in Nat
      BY <2>2
    <3> DEFINE len == Len(DataSet)
    <3>6. nEvents_ = ev_ - Start /\ len \in Nat
      BY <3>1, <2>2
    <3> HIDE DEF Start, len
    <3> QED
      BY <3>2, <3>3, <3>4, <3>5, <3>6 DEF Unset, len
  <2>5. Start + size - 1 = ev_ - 1
    <3> HIDE DEF size
    <3> QED
      BY <2>1, <2>2, <2>4, DataSetFacts
  <2>6. delivered = SubSeq(DataSet, Start, Start + size - 1)
    BY <2>1, <2>5
  <2> QED
    BY <2>2, <2>3, <2>6 DEF StartsAtAMatch
<1> QED
  BY IInvAlways, <1>1, PTL
===============================================================================
