-------------------------- MODULE LoadbalancingProofs --------------------------
(***************************************************************************)
(* The safety of the load-balanced workflow for any ranks, events, steps,  *)
(* slices and limits and any number of jobs that die: every event is in    *)
(* one place, no identifier outlives its products or its readers, and the  *)
(* workflow implements the flow of EventFlow.                              *)
(***************************************************************************)
EXTENDS Loadbalancing, FiniteSetTheorems, TLAPS

USE RanksAssumption, EventsAssumption, NStagesAssumption, SliceAssumption, BoundsAssumption

\* Where a job is when it has an event in hand, when its batch can hold products,
\* and when its input is exhausted.
Working == {"read_products", "write", "push"}
Batching == {"read_next", "read_products", "write", "push", "flush"}
Ending == {"flush", "close", "destroy"}

\* There is no job after the last step and the loading job reads no products; a job
\* has an event in hand when it works on one, has read its slice when its event
\* loop ends, and has an empty batch outside the loop and the flush.
InOrder(r) ==
  /\ stage[r] = NStages + 1 => pc[r] = "driver"
  /\ pc[r] = "read_products" => stage[r] > 0
  /\ hand[r] = NoEvent <=> pc[r] \notin Working
  /\ stage[r] > 0 \/ pc[r] \in Ending => todo[r] = {}
  /\ pc[r] \notin Batching => batch[r] = {}

LoadingComesFirst ==
  \A r \in Ranks : stage[r] > 0 /\ pc[r] # "driver" => \A p \in Ranks : stage[p] > 0

\* The products of event e of step s are in the store or died in a batch, or they
\* wait in the batch of a job of that step that will flush it.
Kept(s, e) ==
  \/ <<s, e>> \in stored \cup wasted
  \/ \E r \in Ranks : stage[r] = s /\ e \in batch[r] /\ pc[r] \in Batching

\* Products are kept before and after the identifier in front of them is on a queue.
ProductsAreKept ==
  /\ \A s \in Steps, e \in Events : queue[s][e] > 0 => Kept(s, e)
  /\ \A r \in Ranks : pc[r] = "push" => Kept(stage[r], hand[r])
  /\ \A r \in Ranks : pc[r] = "read_products" => Kept(stage[r] - 1, hand[r])

\* An event is with one holder of one kind, and never nowhere.
HeldOnce(e) ==
  /\ \A r, p \in Ranks : e \in todo[r] /\ e \in todo[p] => r = p
  /\ \A r, p \in Ranks : hand[r] = e /\ hand[p] = e => r = p
  /\ \A s, t \in Steps : queue[s][e] > 0 /\ queue[t][e] > 0 => s = t
  /\ \A s \in Steps : queue[s][e] <= 1
  /\ \A r \in Ranks : e \in todo[r] =>
       (\A p \in Ranks : hand[p] # e) /\ (\A s \in Steps : queue[s][e] = 0)
       /\ e \notin skipped /\ e \notin lost
  /\ \A r \in Ranks : hand[r] = e =>
       (\A s \in Steps : queue[s][e] = 0) /\ e \notin skipped /\ e \notin lost
  /\ \A s \in Steps : queue[s][e] > 0 => e \notin skipped /\ e \notin lost
  /\ ~ (e \in skipped /\ e \in lost)
  /\ \/ \E r \in Ranks : e \in todo[r] \/ hand[r] = e
     \/ \E s \in Steps : queue[s][e] > 0
     \/ e \in skipped \/ e \in lost

\* A queue all ranks have left is empty, unless a job that read it died.
LeftQueuesAreEmpty ==
  maxEvents_ = Unlimited =>
    \A s \in 0..(NStages - 1) :
      (\A r \in Ranks : HasLeft(r, s)) =>
        \/ \A e \in Events : queue[s][e] = 0
        \/ \E r \in Ranks : <<r, s + 1>> \in failed

Control == (\A r \in Ranks : InOrder(r)) /\ LoadingComesFirst
Products == ProductsAreKept /\ LoadedProductsAreRead
Place == \A e \in Events : HeldOnce(e)

Inv == TypeOK /\ Control /\ Products /\ Place /\ LeftQueuesAreEmpty

LEMMA InitInv == Init => Inv
<1> SUFFICES ASSUME Init
             PROVE  Inv
  OBVIOUS
<1> USE DEF Init
<1>1. TypeOK
  BY DEF TypeOK
<1>2. Control
  BY DEF Control, InOrder, LoadingComesFirst, Working, Batching, Ending
<1>3. Products
  BY DEF Products, ProductsAreKept, LoadedProductsAreRead
<1>4. Place
  BY DEF Place, HeldOnce
<1>5. LeftQueuesAreEmpty
  BY DEF LeftQueuesAreEmpty, Steps
<1> QED
  BY <1>1, <1>2, <1>3, <1>4, <1>5 DEF Inv

\* What a rank, its asynchronous engine or the death of its job does.
Step(r) == RankStep(r) \/ AsyncStore(r) \/ ArtDies(r)

\* The step of a rank that is in a job is one of the steps, and so is the event in
\* its hand.
LEMMA InAJob ==
  ASSUME TypeOK, Control, NEW r \in Ranks
  PROVE  /\ pc[r] # "driver" => stage[r] \in Steps
         /\ batch[r] # {} => stage[r] \in Steps /\ pc[r] \in Batching
         /\ pc[r] \in Working => hand[r] \in Events
         /\ pc[r] = "read_products" => stage[r] - 1 \in Steps
<1>1. stage[r] \in 0..(NStages + 1) /\ hand[r] \in Events \cup {NoEvent}
  BY DEF TypeOK
<1>2. pc[r] # "driver" => stage[r] \in Steps
  BY <1>1 DEF Control, InOrder, Steps
<1>3. pc[r] = "read_products" => stage[r] - 1 \in Steps
  BY <1>2 DEF Control, InOrder, Steps
<1>4. batch[r] # {} => stage[r] \in Steps /\ pc[r] \in Batching
  BY <1>2 DEF Control, InOrder, Batching
<1> QED
  BY <1>1, <1>2, <1>3, <1>4 DEF Control, InOrder

LEMMA TypeStep ==
  ASSUME Inv, NEW r \in Ranks, Step(r)
  PROVE  TypeOK'
<1>1. /\ pc[r] # "driver" => stage[r] \in Steps
      /\ batch[r] # {} => stage[r] \in Steps /\ pc[r] \in Batching
      /\ pc[r] \in Working => hand[r] \in Events
      /\ pc[r] = "read_products" => stage[r] - 1 \in Steps
  BY InAJob DEF Inv
<1> USE DEF TypeOK, Goto, sharedVars, historyVars, paramVars
<1>2. TypeOK
  BY DEF Inv
<1>3. CASE StartArt(r) \/ FileRead(r) \/ LimitReached(r) \/ PopFails(r)
  BY <1>2, <1>3 DEF StartArt, FileRead, LimitReached, PopFails
<1>4. CASE EndArt(r)
  <2>1. stage[r] \in Steps /\ stage[r] + 1 \in 0..(NStages + 1)
    BY <1>1, <1>4 DEF EndArt, Steps
  <2>2. stage' \in [Ranks -> 0..(NStages + 1)]
    BY <1>2, <1>4, <2>1 DEF EndArt
  <2> QED
    BY <1>2, <1>4, <2>2 DEF EndArt
<1>5. CASE ArtDies(r)
  <2>1. stage[r] \in Steps /\ stage[r] + 1 \in 0..(NStages + 1)
    BY <1>1, <1>5 DEF ArtDies, Steps
  <2>2. pc' \in [Ranks -> {"driver", "begin_job", "read_next", "read_products", "write",
                           "push", "flush", "close", "destroy"}]
        /\ stage' \in [Ranks -> 0..(NStages + 1)]
        /\ hand' \in [Ranks -> Events \cup {NoEvent}]
        /\ todo' \in [Ranks -> SUBSET Events] /\ batch' \in [Ranks -> SUBSET Events]
    BY <1>2, <1>5, <2>1 DEF ArtDies
  <2>3. lost' \subseteq Events /\ failed' \subseteq Ranks \X Steps
    BY <1>2, <1>5, <2>1 DEF ArtDies
  <2>4. wasted' \subseteq Steps \X Events
    <3>1. batch[r] \subseteq Events
      BY <1>2
    <3>2. {<<stage[r], e>> : e \in batch[r]} \subseteq Steps \X Events
      BY <2>1, <3>1
    <3> QED
      BY <1>2, <1>5, <3>2 DEF ArtDies
  <2> QED
    BY <1>2, <1>5, <2>2, <2>3, <2>4 DEF ArtDies
<1>6. CASE ReadFile(r)
  BY <1>2, <1>6 DEF ReadFile
<1>7. CASE Pop(r)
  <2>1. stage[r] - 1 \in Steps
    BY <1>1, <1>7 DEF Pop, Steps
  <2>2. PICK e \in Events : /\ queue[stage[r] - 1][e] > 0
                           /\ queue' = [queue EXCEPT ![stage[r] - 1][e] = @ - 1]
                           /\ hand' = [hand EXCEPT ![r] = e]
    BY <1>7 DEF Pop, InputQueue
  <2>3. queue[stage[r] - 1][e] - 1 \in Nat
    BY <1>2, <2>1, <2>2
  <2>4. queue' \in [Steps -> [Events -> Nat]] /\ hand' \in [Ranks -> Events \cup {NoEvent}]
    BY <1>2, <2>1, <2>2, <2>3
  <2> QED
    BY <1>2, <1>7, <2>4 DEF Pop
<1>8. CASE ReadProducts(r)
  <2>1. Wanted(r) \in Steps \X Events
    BY <1>1, <1>8 DEF ReadProducts, Wanted, Working
  <2> HIDE DEF Wanted
  <2> QED
    BY <1>2, <1>8, <2>1 DEF ReadProducts
<1>9. CASE BeginJob(r)
  BY <1>1, <1>2, <1>9 DEF BeginJob
<1>10. CASE WriteNothing(r)
  BY <1>1, <1>2, <1>10 DEF WriteNothing, Working
<1>11. CASE WriteProducts(r)
  BY <1>1, <1>2, <1>11 DEF WriteProducts, Working
<1>12. CASE Push(r)
  <2>1. stage[r] \in Steps /\ hand[r] \in Events
    BY <1>1, <1>12 DEF Push, Working
  <2>2. queue' \in [Steps -> [Events -> Nat]]
    BY <1>2, <1>12, <2>1 DEF Push
  <2> QED
    BY <1>2, <1>12, <2>2 DEF Push
<1>13. CASE AsyncStore(r)
  <2>1. PICK e \in batch[r] : /\ stored' = stored \cup {<<stage[r], e>>}
                             /\ batch' = [batch EXCEPT ![r] = @ \ {e}]
    BY <1>13 DEF AsyncStore
  <2>2. e \in Events /\ stage[r] \in Steps
    BY <1>1, <1>2, <2>1
  <2> QED
    BY <1>2, <1>13, <2>1, <2>2 DEF AsyncStore
<1>14. CASE Flush(r)
  <2>1. stage[r] \in Steps /\ batch[r] \subseteq Events
    BY <1>1, <1>2, <1>14 DEF Flush
  <2>2. {<<stage[r], e>> : e \in batch[r]} \subseteq Steps \X Events
    BY <2>1
  <2> QED
    BY <1>2, <1>14, <2>2 DEF Flush
<1>15. CASE Close(r)
  BY <1>1, <1>2, <1>15 DEF Close
<1> QED
  BY <1>3, <1>4, <1>5, <1>6, <1>7, <1>8, <1>9, <1>10, <1>11, <1>12, <1>13, <1>14, <1>15
     DEF Step, RankStep, ArtStep

\* A step of rank r leaves the jobs of the other ranks alone.
LEMMA OthersStay ==
  ASSUME TypeOK, NEW r \in Ranks, Step(r), NEW p \in Ranks, p # r
  PROVE  /\ pc'[p] = pc[p] /\ stage'[p] = stage[p] /\ hand'[p] = hand[p]
         /\ todo'[p] = todo[p] /\ batch'[p] = batch[p]
<1> USE DEF TypeOK, Goto, sharedVars, historyVars, paramVars
<1>1. CASE StartArt(r) \/ FileRead(r) \/ LimitReached(r) \/ PopFails(r) \/ EndArt(r)
  BY <1>1 DEF StartArt, FileRead, LimitReached, PopFails, EndArt
<1>2. CASE ArtDies(r) \/ ReadProducts(r)
  BY <1>2 DEF ArtDies, ReadProducts
<1>3. CASE ReadFile(r)
  BY <1>3 DEF ReadFile
<1>4. CASE Pop(r)
  <2>1. PICK e \in Events : hand' = [hand EXCEPT ![r] = e]
    BY <1>4 DEF Pop
  <2> QED
    BY <1>4, <2>1 DEF Pop
<1>5. CASE BeginJob(r) \/ WriteNothing(r) \/ WriteProducts(r) \/ Push(r) \/ AsyncStore(r)
           \/ Flush(r) \/ Close(r)
  BY <1>5 DEF BeginJob, WriteNothing, WriteProducts, Push, AsyncStore, Flush, Close
<1> QED
  BY <1>1, <1>2, <1>3, <1>4, <1>5 DEF Step, RankStep, ArtStep

LEMMA ControlStep ==
  ASSUME Inv, NEW r \in Ranks, Step(r)
  PROVE  Control'
<1> USE DEF Goto, sharedVars, historyVars, paramVars
<1>1. /\ pc \in [Ranks -> {"driver", "begin_job", "read_next", "read_products", "write",
                          "push", "flush", "close", "destroy"}]
      /\ stage \in [Ranks -> 0..(NStages + 1)]
      /\ hand \in [Ranks -> Events \cup {NoEvent}]
      /\ todo \in [Ranks -> SUBSET Events] /\ batch \in [Ranks -> SUBSET Events]
      /\ NoEvent \notin Events
  BY DEF Inv, TypeOK
<1>2. /\ InOrder(r) /\ LoadingComesFirst
      /\ pc[r] \in Working => hand[r] \in Events
      /\ pc[r] # "driver" => stage[r] \in Steps
      /\ batch[r] # {} => pc[r] \in Batching
  BY InAJob DEF Inv, Control
<1>3. \A p \in Ranks : p # r =>
        /\ pc'[p] = pc[p] /\ stage'[p] = stage[p] /\ hand'[p] = hand[p]
        /\ todo'[p] = todo[p] /\ batch'[p] = batch[p]
  BY OthersStay DEF Inv
<1>4. \A p \in Ranks : InOrder(p)'
  <2>1. \A p \in Ranks : p # r => InOrder(p)'
    BY <1>3 DEF Inv, Control, InOrder
  <2>2. InOrder(r)'
    <3> USE DEF InOrder, Working, Batching, Ending
    <3>1. CASE StartArt(r)
      BY <1>1, <1>2, <3>1 DEF StartArt, Steps
    <3>2. CASE FileRead(r) \/ LimitReached(r) \/ PopFails(r)
      BY <1>1, <1>2, <3>2 DEF FileRead, LimitReached, PopFails
    <3>3. CASE EndArt(r)
      BY <1>1, <1>2, <3>3 DEF EndArt
    <3>4. CASE ArtDies(r)
      BY <1>1, <1>2, <3>4 DEF ArtDies
    <3>5. CASE ReadFile(r)
      BY <1>1, <1>2, <3>5 DEF ReadFile
    <3>6. CASE Pop(r)
      BY <1>1, <1>2, <3>6 DEF Pop
    <3>7. CASE ReadProducts(r)
      BY <1>1, <1>2, <3>7 DEF ReadProducts
    <3>8. CASE BeginJob(r) \/ Close(r)
      BY <1>1, <1>2, <3>8 DEF BeginJob, Close
    <3>9. CASE WriteNothing(r)
      BY <1>1, <1>2, <3>9 DEF WriteNothing
    <3>10. CASE WriteProducts(r)
      BY <1>1, <1>2, <3>10 DEF WriteProducts
    <3>11. CASE Push(r)
      BY <1>1, <1>2, <3>11 DEF Push
    <3>12. CASE AsyncStore(r)
      BY <1>1, <1>2, <3>12 DEF AsyncStore
    <3>13. CASE Flush(r)
      BY <1>1, <1>2, <3>13 DEF Flush
    <3> QED
      BY <3>1, <3>2, <3>3, <3>4, <3>5, <3>6, <3>7, <3>8, <3>9, <3>10, <3>11, <3>12, <3>13
         DEF Step, RankStep, ArtStep
  <2> QED
    BY <2>1, <2>2
<1>5. LoadingComesFirst'
  <2>1. CASE StartArt(r)
    BY <1>1, <1>2, <2>1 DEF StartArt, LoadingComesFirst, LoadingOver
  <2>2. CASE EndArt(r) \/ ArtDies(r)
    <3>1. stage'[r] = stage[r] + 1 /\ pc'[r] = "driver" /\ stage[r] \in Nat
      BY <1>1, <2>2 DEF EndArt, ArtDies
    <3> QED
      BY <1>2, <1>3, <3>1 DEF LoadingComesFirst
  <2>3. CASE ArtStep(r) \/ AsyncStore(r)
    <3>1. stage' = stage /\ (pc'[r] # "driver" => pc[r] # "driver")
      <4>1. CASE AsyncStore(r)
        BY <4>1 DEF AsyncStore
      <4>2. CASE FileRead(r) \/ LimitReached(r) \/ PopFails(r) \/ ReadFile(r) \/ Pop(r)
                 \/ ReadProducts(r)
        BY <4>2 DEF FileRead, LimitReached, PopFails, ReadFile, Pop, ReadProducts
      <4>3. CASE BeginJob(r) \/ WriteNothing(r) \/ WriteProducts(r) \/ Push(r) \/ Flush(r)
                 \/ Close(r)
        BY <4>3 DEF BeginJob, WriteNothing, WriteProducts, Push, Flush, Close
      <4> QED
        BY <2>3, <4>1, <4>2, <4>3 DEF ArtStep
    <3> QED
      BY <1>2, <1>3, <3>1 DEF LoadingComesFirst
  <2> QED
    BY <2>1, <2>2, <2>3 DEF Step, RankStep
<1> QED
  BY <1>4, <1>5 DEF Control

\* An event a step does not touch stays where it is.
LEMMA Untouched ==
  ASSUME NEW e \in Events, HeldOnce(e),
         \A p \in Ranks : (e \in todo'[p] <=> e \in todo[p]) /\ (hand'[p] = e <=> hand[p] = e),
         \A s \in Steps : queue'[s][e] = queue[s][e],
         e \in skipped' <=> e \in skipped, e \in lost' <=> e \in lost
  PROVE  HeldOnce(e)'
BY DEF HeldOnce

LEMMA PlaceStep ==
  ASSUME Inv, NEW r \in Ranks, Step(r)
  PROVE  Place'
<1> USE DEF Goto, sharedVars, historyVars, paramVars
<1>1. /\ hand \in [Ranks -> Events \cup {NoEvent}]
      /\ todo \in [Ranks -> SUBSET Events]
      /\ queue \in [Steps -> [Events -> Nat]]
      /\ NoEvent \notin Events
  BY DEF Inv, TypeOK
<1>2. /\ \A x \in Events : HeldOnce(x)
      /\ InOrder(r)
      /\ pc[r] \in Working => hand[r] \in Events
      /\ pc[r] # "driver" => stage[r] \in Steps
      /\ pc[r] = "read_products" => stage[r] - 1 \in Steps
  BY InAJob DEF Inv, Control, Place
<1> SUFFICES ASSUME NEW x \in Events
             PROVE  HeldOnce(x)'
  BY DEF Place
<1>3. HeldOnce(x)
  BY <1>2
<1>4. CASE UNCHANGED <<todo, hand, queue, skipped, lost>>
  BY <1>3, <1>4 DEF HeldOnce
<1>5. CASE ReadFile(r)
  <2>1. PICK e \in todo[r] : /\ todo' = [todo EXCEPT ![r] = @ \ {e}]
                            /\ hand' = [hand EXCEPT ![r] = e]
    BY <1>5 DEF ReadFile
  <2>2. hand[r] = NoEvent /\ e \in Events
    BY <1>1, <1>2, <1>5, <2>1 DEF ReadFile, InOrder, Working
  <2>3. /\ \A p \in Ranks : x \in todo'[p] <=> x \in todo[p] /\ ~ (p = r /\ x = e)
        /\ \A p \in Ranks : hand'[p] = x <=> (p # r /\ hand[p] = x) \/ (p = r /\ x = e)
        /\ UNCHANGED <<queue, skipped, lost>>
    BY <1>1, <1>5, <2>1 DEF ReadFile
  <2>4. CASE x # e
    BY <1>1, <1>3, <2>2, <2>3, <2>4, Untouched
  <2>5. CASE x = e
    BY <1>3, <2>1, <2>3, <2>5 DEF HeldOnce
  <2> QED
    BY <2>4, <2>5
<1>6. CASE Pop(r)
  <2> DEFINE from == stage[r] - 1
  <2>1. PICK e \in Events : /\ queue[from][e] > 0
                           /\ queue' = [queue EXCEPT ![from][e] = @ - 1]
                           /\ hand' = [hand EXCEPT ![r] = e]
    BY <1>6 DEF Pop, InputQueue
  <2>2. hand[r] = NoEvent /\ from \in Steps
    <3>1. hand[r] = NoEvent /\ stage[r] \in Steps /\ stage[r] > 0
      BY <1>2, <1>6 DEF Pop, InOrder, Working
    <3> QED
      BY <3>1 DEF Steps
  <2> HIDE DEF from
  <2>3. /\ \A p \in Ranks : hand'[p] = x <=> (p # r /\ hand[p] = x) \/ (p = r /\ x = e)
        /\ \A s \in Steps : queue'[s][x] = IF s = from /\ x = e THEN queue[s][x] - 1
                                                             ELSE queue[s][x]
        /\ UNCHANGED <<todo, skipped, lost>>
    BY <1>1, <1>6, <2>1, <2>2 DEF Pop
  <2>4. CASE x # e
    BY <1>1, <1>3, <2>2, <2>3, <2>4, Untouched
  <2>5. CASE x = e
    <3>1. queue[from][x] = 1 /\ \A s \in Steps : queue[s][x] \in Nat
      BY <1>1, <1>3, <2>1, <2>2, <2>5 DEF HeldOnce
    <3>2. \A s \in Steps : queue'[s][x] = 0
      BY <1>3, <2>2, <2>3, <2>5, <3>1 DEF HeldOnce
    <3> QED
      BY <1>3, <2>2, <2>3, <2>5, <3>1, <3>2 DEF HeldOnce
  <2> QED
    BY <2>4, <2>5
<1>7. CASE WriteNothing(r)
  <2> DEFINE e == hand[r]
  <2>1. e \in Events
    BY <1>2, <1>7 DEF WriteNothing, Working
  <2>2. /\ \A p \in Ranks : hand'[p] = x <=> p # r /\ hand[p] = x
        /\ x \in skipped' <=> x \in skipped \/ x = e
        /\ UNCHANGED <<todo, queue, lost>>
    BY <1>1, <1>7 DEF WriteNothing
  <2>3. CASE x # e
    BY <1>1, <1>3, <2>2, <2>3, Untouched
  <2>4. CASE x = e
    BY <1>3, <2>2, <2>4 DEF HeldOnce
  <2> QED
    BY <2>3, <2>4
<1>8. CASE Push(r)
  <2> DEFINE e == hand[r]
             to == stage[r]
  <2>1. e \in Events /\ to \in Steps
    BY <1>2, <1>8 DEF Push, Working
  <2>2. /\ \A p \in Ranks : hand'[p] = x <=> p # r /\ hand[p] = x
        /\ \A s \in Steps : queue'[s][x] = IF s = to /\ x = e THEN queue[s][x] + 1
                                                           ELSE queue[s][x]
        /\ UNCHANGED <<todo, skipped, lost>>
    <3>1. queue' = [queue EXCEPT ![to][e] = @ + 1] /\ hand' = [hand EXCEPT ![r] = NoEvent]
          /\ UNCHANGED <<todo, skipped, lost>>
      BY <1>8 DEF Push
    <3> HIDE DEF to
    <3> QED
      BY <1>1, <2>1, <3>1
  <2>3. CASE x # e
    BY <1>1, <1>3, <2>2, <2>3, Untouched
  <2>4. CASE x = e
    <3>1. \A s \in Steps : queue[s][x] = 0
      BY <1>3, <2>4 DEF HeldOnce
    <3>2. \A s \in Steps : queue'[s][x] = IF s = to THEN 1 ELSE 0
      BY <2>2, <2>4, <3>1
    <3> HIDE DEF to
    <3> QED
      BY <1>3, <2>1, <2>2, <2>4, <3>2 DEF HeldOnce
  <2> QED
    BY <2>3, <2>4
<1>9. CASE ArtDies(r)
  <2>1. /\ \A p \in Ranks : hand'[p] = x <=> p # r /\ hand[p] = x
        /\ \A p \in Ranks : x \in todo'[p] <=> p # r /\ x \in todo[p]
        /\ x \in lost' <=> x \in lost \/ x \in todo[r] \/ x = hand[r]
        /\ UNCHANGED <<queue, skipped>>
    BY <1>1, <1>9 DEF ArtDies
  <2>2. CASE x \notin todo[r] /\ x # hand[r]
    BY <1>3, <2>1, <2>2, Untouched
  <2>3. CASE x \in todo[r]
    BY <1>3, <2>1, <2>3 DEF HeldOnce
  <2>4. CASE x = hand[r]
    BY <1>3, <2>1, <2>4 DEF HeldOnce
  <2> QED
    BY <2>2, <2>3, <2>4
<1>10. CASE StartArt(r) \/ EndArt(r) \/ FileRead(r) \/ LimitReached(r) \/ PopFails(r)
  BY <1>4, <1>10 DEF StartArt, EndArt, FileRead, LimitReached, PopFails
<1>11. CASE ReadProducts(r) \/ BeginJob(r) \/ WriteProducts(r) \/ AsyncStore(r) \/ Flush(r)
            \/ Close(r)
  BY <1>4, <1>11 DEF ReadProducts, BeginJob, WriteProducts, AsyncStore, Flush, Close
<1> QED
  BY <1>5, <1>6, <1>7, <1>8, <1>9, <1>10, <1>11 DEF Step, RankStep, ArtStep

\* Products that are kept stay kept: a batch loses them to the store, or to the death
\* of its job.
LEMMA KeptStays ==
  ASSUME Inv, NEW r \in Ranks, Step(r), NEW s, NEW e, Kept(s, e)
  PROVE  Kept(s, e)'
<1> USE DEF Goto, sharedVars, historyVars, paramVars
<1>1. /\ pc \in [Ranks -> {"driver", "begin_job", "read_next", "read_products", "write",
                          "push", "flush", "close", "destroy"}]
      /\ stage \in [Ranks -> 0..(NStages + 1)]
      /\ batch \in [Ranks -> SUBSET Events]
  BY DEF Inv, TypeOK
<1>2. stored \subseteq stored' /\ wasted \subseteq wasted'
  <2>1. CASE StartArt(r) \/ EndArt(r) \/ FileRead(r) \/ LimitReached(r) \/ PopFails(r)
             \/ ReadFile(r) \/ Pop(r)
    BY <2>1 DEF StartArt, EndArt, FileRead, LimitReached, PopFails, ReadFile, Pop
  <2>2. CASE ReadProducts(r) \/ BeginJob(r) \/ WriteNothing(r) \/ WriteProducts(r)
             \/ Push(r) \/ Close(r)
    BY <2>2 DEF ReadProducts, BeginJob, WriteNothing, WriteProducts, Push, Close
  <2>3. CASE AsyncStore(r) \/ Flush(r) \/ ArtDies(r)
    BY <2>3 DEF AsyncStore, Flush, ArtDies
  <2> QED
    BY <2>1, <2>2, <2>3 DEF Step, RankStep, ArtStep
<1>3. CASE <<s, e>> \in stored \cup wasted
  BY <1>2, <1>3 DEF Kept
<1>4. ASSUME NEW p \in Ranks, p # r, stage[p] = s, e \in batch[p], pc[p] \in Batching
      PROVE  Kept(s, e)'
  <2>1. stage'[p] = stage[p] /\ batch'[p] = batch[p] /\ pc'[p] = pc[p]
    BY <1>4, OthersStay DEF Inv
  <2> QED
    BY <1>4, <2>1 DEF Kept
<1>5. CASE stage[r] = s /\ e \in batch[r] /\ pc[r] \in Batching
  <2>1. CASE StartArt(r) \/ BeginJob(r) \/ Close(r) \/ EndArt(r)
    BY <1>5, <2>1 DEF StartArt, BeginJob, Close, EndArt, Batching
  <2>2. CASE AsyncStore(r)
    <3>1. PICK x \in batch[r] : /\ stored' = stored \cup {<<stage[r], x>>}
                               /\ batch' = [batch EXCEPT ![r] = @ \ {x}]
      BY <2>2 DEF AsyncStore
    <3>2. CASE x = e
      BY <1>5, <3>1, <3>2 DEF Kept
    <3>3. CASE x # e
      <4>1. stage'[r] = s /\ e \in batch'[r] /\ pc'[r] \in Batching
        BY <1>1, <1>5, <2>2, <3>1, <3>3 DEF AsyncStore
      <4> QED
        BY <4>1 DEF Kept
    <3> QED
      BY <3>2, <3>3
  <2>3. CASE Flush(r)
    BY <1>5, <2>3 DEF Flush, Kept
  <2>4. CASE ArtDies(r)
    BY <1>5, <2>4 DEF ArtDies, Kept
  <2>5. CASE FileRead(r) \/ LimitReached(r) \/ PopFails(r) \/ ReadFile(r) \/ Pop(r)
             \/ ReadProducts(r) \/ WriteNothing(r) \/ WriteProducts(r) \/ Push(r)
    <3>1. stage'[r] = stage[r] /\ pc'[r] \in Batching
      <4>1. CASE FileRead(r) \/ LimitReached(r) \/ PopFails(r) \/ ReadFile(r)
        BY <1>1, <4>1 DEF FileRead, LimitReached, PopFails, ReadFile, Batching
      <4>2. CASE Pop(r) \/ ReadProducts(r) \/ WriteNothing(r) \/ WriteProducts(r) \/ Push(r)
        BY <1>1, <4>2 DEF Pop, ReadProducts, WriteNothing, WriteProducts, Push, Batching
      <4> QED
        BY <2>5, <4>1, <4>2
    <3>2. batch[r] \subseteq batch'[r]
      <4>1. CASE WriteProducts(r)
        BY <1>1, <4>1 DEF WriteProducts
      <4>2. CASE ~ WriteProducts(r)
        <5>1. batch' = batch
          BY <2>5, <4>2 DEF FileRead, LimitReached, PopFails, ReadFile, Pop, ReadProducts,
                            WriteNothing, Push
        <5> QED
          BY <5>1
      <4> QED
        BY <4>1, <4>2
    <3> QED
      BY <1>5, <3>1, <3>2 DEF Kept
  <2> QED
    BY <2>1, <2>2, <2>3, <2>4, <2>5 DEF Step, RankStep, ArtStep
<1> QED
  BY <1>3, <1>4, <1>5 DEF Kept

\* A rank comes to a push by WriteProducts and to reading products by a pop.
LEMMA ProductsStep ==
  ASSUME Inv, NEW r \in Ranks, Step(r)
  PROVE  Products'
<1> USE DEF Goto, sharedVars, historyVars, paramVars
<1>1. /\ pc \in [Ranks -> {"driver", "begin_job", "read_next", "read_products", "write",
                          "push", "flush", "close", "destroy"}]
      /\ stage \in [Ranks -> 0..(NStages + 1)]
      /\ hand \in [Ranks -> Events \cup {NoEvent}]
      /\ batch \in [Ranks -> SUBSET Events]
      /\ queue \in [Steps -> [Events -> Nat]]
  BY DEF Inv, TypeOK
<1>2. /\ pc[r] \in Working => hand[r] \in Events
      /\ pc[r] # "driver" => stage[r] \in Steps
      /\ pc[r] = "read_products" => stage[r] - 1 \in Steps
  BY InAJob DEF Inv
<1>3. ProductsAreKept /\ LoadedProductsAreRead /\ LoadingComesFirst
  BY DEF Inv, Products, Control
<1>4. \A s, e : Kept(s, e) => Kept(s, e)'
  BY KeptStays
<1>5. ASSUME NEW s \in Steps, NEW e \in Events, queue'[s][e] > 0
      PROVE  Kept(s, e)'
  <2>1. CASE queue[s][e] > 0
    BY <1>3, <1>4, <2>1 DEF ProductsAreKept
  <2>2. CASE Push(r)
    <3>1. pc[r] = "push" /\ queue' = [queue EXCEPT ![stage[r]][hand[r]] = @ + 1]
      BY <2>2 DEF Push
    <3>2. CASE s = stage[r] /\ e = hand[r]
      BY <1>3, <1>4, <3>1, <3>2 DEF ProductsAreKept
    <3>3. CASE ~ (s = stage[r] /\ e = hand[r])
      <4>1. queue'[s][e] = queue[s][e]
        BY <1>1, <3>1, <3>3
      <4> QED
        BY <1>5, <2>1, <4>1
    <3> QED
      BY <3>2, <3>3
  <2>3. CASE Pop(r)
    <3>1. PICK x \in Events : queue' = [queue EXCEPT ![stage[r] - 1][x] = @ - 1]
      BY <2>3 DEF Pop
    <3>2. queue'[s][e] <= queue[s][e] /\ queue[s][e] \in Nat
      BY <1>1, <3>1
    <3>3. queue[s][e] > 0
      BY <1>1, <1>5, <3>1
    <3> QED
      BY <2>1, <3>3
  <2>4. CASE queue' = queue
    BY <1>5, <2>1, <2>4
  <2>5. Push(r) \/ Pop(r) \/ queue' = queue
    <3>1. CASE StartArt(r) \/ EndArt(r) \/ FileRead(r) \/ LimitReached(r) \/ PopFails(r)
               \/ ReadFile(r) \/ ArtDies(r)
      BY <3>1 DEF StartArt, EndArt, FileRead, LimitReached, PopFails, ReadFile, ArtDies
    <3>2. CASE ReadProducts(r) \/ BeginJob(r) \/ WriteNothing(r) \/ WriteProducts(r)
               \/ Close(r) \/ AsyncStore(r) \/ Flush(r)
      BY <3>2 DEF ReadProducts, BeginJob, WriteNothing, WriteProducts, Close, AsyncStore, Flush
    <3> QED
      BY <3>1, <3>2 DEF Step, RankStep, ArtStep
  <2> QED
    BY <2>2, <2>3, <2>4, <2>5
<1>6. \A p \in Ranks : p # r =>
        pc'[p] = pc[p] /\ stage'[p] = stage[p] /\ hand'[p] = hand[p]
  BY OthersStay DEF Inv
<1>7. pc'[r] \in {"push", "read_products"} => WriteProducts(r) \/ Pop(r) \/ AsyncStore(r)
  <2>1. CASE StartArt(r) \/ EndArt(r) \/ FileRead(r) \/ LimitReached(r) \/ PopFails(r)
             \/ ReadFile(r) \/ ArtDies(r)
    BY <1>1, <2>1 DEF StartArt, EndArt, FileRead, LimitReached, PopFails, ReadFile, ArtDies
  <2>2. CASE ReadProducts(r) \/ BeginJob(r) \/ WriteNothing(r) \/ Push(r) \/ Close(r)
             \/ Flush(r)
    BY <1>1, <2>2 DEF ReadProducts, BeginJob, WriteNothing, Push, Close, Flush
  <2> QED
    BY <2>1, <2>2 DEF Step, RankStep, ArtStep
<1>8. ASSUME NEW p \in Ranks, pc'[p] = "push"
      PROVE  Kept(stage[p], hand[p])' /\ stage'[p] = stage[p] /\ hand'[p] = hand[p]
  <2>1. CASE p # r \/ AsyncStore(r)
    <3>1. pc'[p] = pc[p] /\ stage'[p] = stage[p] /\ hand'[p] = hand[p]
      BY <1>6, <2>1 DEF AsyncStore
    <3>2. Kept(stage[p], hand[p])
      BY <1>3, <1>8, <3>1 DEF ProductsAreKept
    <3> QED
      BY <1>4, <3>1, <3>2 DEF Kept
  <2>2. CASE p = r /\ WriteProducts(r)
    <3>1. /\ stage'[r] = stage[r] /\ hand'[r] = hand[r] /\ pc'[r] \in Batching
          /\ hand[r] \in batch'[r]
      BY <1>1, <2>2 DEF WriteProducts, Batching
    <3> QED
      BY <2>2, <3>1 DEF Kept
  <2>3. CASE p = r /\ Pop(r)
    BY <1>1, <1>8, <2>3 DEF Pop
  <2> QED
    BY <1>7, <1>8, <2>1, <2>2, <2>3
<1>9. ASSUME NEW p \in Ranks, pc'[p] = "read_products"
      PROVE  Kept(stage[p] - 1, hand[p])'
  <2>1. CASE p # r \/ AsyncStore(r)
    <3>1. pc'[p] = pc[p] /\ stage'[p] = stage[p] /\ hand'[p] = hand[p]
      BY <1>6, <2>1 DEF AsyncStore
    <3>2. Kept(stage[p] - 1, hand[p])
      BY <1>3, <1>9, <3>1 DEF ProductsAreKept
    <3> QED
      BY <1>4, <3>1, <3>2 DEF Kept
  <2>2. CASE p = r /\ Pop(r)
    <3>1. PICK e \in Events : queue[stage[r] - 1][e] > 0 /\ hand' = [hand EXCEPT ![r] = e]
      BY <2>2 DEF Pop, InputQueue
    <3>2. stage[r] - 1 \in Steps
      <4>1. stage[r] \in Steps /\ stage[r] > 0
        BY <1>2, <2>2 DEF Pop
      <4> QED
        BY <4>1 DEF Steps
    <3>3. Kept(stage[r] - 1, e)
      BY <1>3, <3>1, <3>2 DEF ProductsAreKept
    <3>4. stage'[r] = stage[r] /\ hand'[r] = e
      BY <1>1, <2>2, <3>1 DEF Pop
    <3> QED
      BY <1>4, <2>2, <3>3, <3>4 DEF Kept
  <2>3. CASE p = r /\ WriteProducts(r)
    BY <1>1, <1>9, <2>3 DEF WriteProducts
  <2> QED
    BY <1>7, <1>9, <2>1, <2>2, <2>3
<1>10. ProductsAreKept'
  BY <1>5, <1>8, <1>9 DEF ProductsAreKept
<1>11. ASSUME NEW e \in Events, <<0, e>> \in missed'
       PROVE  <<0, e>> \in wasted'
  <2>1. wasted \subseteq wasted'
    <3>1. CASE ArtDies(r)
      BY <3>1 DEF ArtDies
    <3>2. CASE StartArt(r) \/ EndArt(r) \/ FileRead(r) \/ LimitReached(r) \/ PopFails(r)
               \/ ReadFile(r) \/ Pop(r)
      BY <3>2 DEF StartArt, EndArt, FileRead, LimitReached, PopFails, ReadFile, Pop
    <3>3. CASE ReadProducts(r) \/ BeginJob(r) \/ WriteNothing(r) \/ WriteProducts(r)
               \/ Push(r) \/ Close(r) \/ AsyncStore(r) \/ Flush(r)
      BY <3>3 DEF ReadProducts, BeginJob, WriteNothing, WriteProducts, Push, Close, AsyncStore,
                  Flush
    <3> QED
      BY <3>1, <3>2, <3>3 DEF Step, RankStep, ArtStep
  <2>2. CASE <<0, e>> \in missed
    BY <1>3, <2>1, <2>2 DEF LoadedProductsAreRead
  <2>3. CASE <<0, e>> \notin missed
    <3>1. ReadProducts(r)
      <4>1. missed' = missed \/ ReadProducts(r)
        <5>1. CASE StartArt(r) \/ EndArt(r) \/ FileRead(r) \/ LimitReached(r) \/ PopFails(r)
                   \/ ReadFile(r) \/ Pop(r) \/ ArtDies(r)
          BY <5>1 DEF StartArt, EndArt, FileRead, LimitReached, PopFails, ReadFile, Pop, ArtDies
        <5>2. CASE BeginJob(r) \/ WriteNothing(r) \/ WriteProducts(r) \/ Push(r)
                   \/ Close(r) \/ AsyncStore(r) \/ Flush(r)
          BY <5>2 DEF BeginJob, WriteNothing, WriteProducts, Push, Close, AsyncStore, Flush
        <5> QED
          BY <5>1, <5>2 DEF Step, RankStep, ArtStep
      <4> QED
        BY <1>11, <2>3, <4>1
    <3>2. /\ pc[r] = "read_products" /\ Wanted(r) = <<0, e>> /\ <<0, e>> \notin stored
      BY <1>11, <2>3, <3>1 DEF ReadProducts, Found
    <3>3. stage[r] - 1 = 0 /\ hand[r] = e
      BY <3>2 DEF Wanted
    <3>4. Kept(0, e)
      BY <1>3, <3>2, <3>3 DEF ProductsAreKept
    <3>5. \A p \in Ranks : stage[p] # 0
      <4>1. stage[r] > 0 /\ pc[r] # "driver"
        BY <1>1, <3>2, <3>3
      <4> QED
        BY <1>3, <4>1 DEF LoadingComesFirst
    <3> QED
      BY <2>1, <3>2, <3>4, <3>5 DEF Kept
  <2> QED
    BY <2>2, <2>3
<1> QED
  BY <1>10, <1>11 DEF Products, LoadedProductsAreRead

\* The last rank to leave a queue leaves it empty, or its job died.
LEMMA LeftQueuesStep ==
  ASSUME Inv, NEW r \in Ranks, Step(r)
  PROVE  LeftQueuesAreEmpty'
<1> USE DEF Goto, sharedVars, historyVars, paramVars
<1>1. /\ pc \in [Ranks -> {"driver", "begin_job", "read_next", "read_products", "write",
                          "push", "flush", "close", "destroy"}]
      /\ stage \in [Ranks -> 0..(NStages + 1)]
      /\ nEvents \in [Ranks -> Nat]
      /\ queue \in [Steps -> [Events -> Nat]]
  BY DEF Inv, TypeOK
<1>2. \A p \in Ranks : p # r => pc'[p] = pc[p] /\ stage'[p] = stage[p]
  BY OthersStay DEF Inv
<1>3. maxEvents_' = maxEvents_ /\ failed \subseteq failed'
  <2>1. CASE StartArt(r) \/ EndArt(r) \/ FileRead(r) \/ LimitReached(r) \/ PopFails(r)
             \/ ReadFile(r) \/ Pop(r) \/ ArtDies(r)
    BY <2>1 DEF StartArt, EndArt, FileRead, LimitReached, PopFails, ReadFile, Pop, ArtDies
  <2>2. CASE ReadProducts(r) \/ BeginJob(r) \/ WriteNothing(r) \/ WriteProducts(r)
             \/ Push(r) \/ Close(r) \/ AsyncStore(r) \/ Flush(r)
    BY <2>2 DEF ReadProducts, BeginJob, WriteNothing, WriteProducts, Push, Close, AsyncStore,
                Flush
  <2> QED
    BY <2>1, <2>2 DEF Step, RankStep, ArtStep
<1> SUFFICES ASSUME maxEvents_ = Unlimited, NEW s \in 0..(NStages - 1),
                    \A p \in Ranks : HasLeft(p, s)',
                    \A p \in Ranks : <<p, s + 1>> \notin failed'
             PROVE  \A e \in Events : queue'[s][e] = 0
  BY <1>3 DEF LeftQueuesAreEmpty
<1>4. s \in Steps /\ s \in Nat
  BY DEF Steps
<1>5. \A p \in Ranks : p # r => HasLeft(p, s)
  BY <1>2 DEF HasLeft
<1>6. CASE HasLeft(r, s)
  <2>1. \A e \in Events : queue[s][e] = 0
    BY <1>3, <1>5, <1>6 DEF Inv, LeftQueuesAreEmpty
  <2>2. queue'[s] = queue[s]
    <3>1. CASE Push(r)
      <4>1. stage[r] # s
        BY <1>4, <1>6 DEF HasLeft
      <4> QED
        BY <1>1, <1>4, <3>1, <4>1 DEF Push
    <3>2. CASE Pop(r)
      <4>1. stage[r] - 1 # s
        BY <1>1, <1>4, <1>6, <3>2 DEF HasLeft, Pop
      <4> QED
        BY <1>1, <1>4, <3>2, <4>1 DEF Pop
    <3>3. CASE StartArt(r) \/ EndArt(r) \/ FileRead(r) \/ LimitReached(r) \/ PopFails(r)
               \/ ReadFile(r) \/ ArtDies(r)
      BY <3>3 DEF StartArt, EndArt, FileRead, LimitReached, PopFails, ReadFile, ArtDies
    <3>4. CASE ReadProducts(r) \/ BeginJob(r) \/ WriteNothing(r) \/ WriteProducts(r)
               \/ Close(r) \/ AsyncStore(r) \/ Flush(r)
      BY <3>4 DEF ReadProducts, BeginJob, WriteNothing, WriteProducts, Close, AsyncStore, Flush
    <3> QED
      BY <3>1, <3>2, <3>3, <3>4 DEF Step, RankStep, ArtStep
  <2> QED
    BY <2>1, <2>2
<1>7. CASE ~ HasLeft(r, s)
  <2>1. HasLeft(r, s)'
    OBVIOUS
  <2>2. CASE PopFails(r)
    <3>1. stage'[r] = stage[r] /\ queue' = queue
      BY <2>2 DEF PopFails
    <3>2. stage[r] = s + 1
      BY <1>1, <1>4, <1>7, <2>1, <3>1 DEF HasLeft
    <3>3. \A e \in Events : queue[s][e] = 0
      BY <1>4, <2>2, <3>2 DEF PopFails, InputQueue
    <3> QED
      BY <3>1, <3>3
  <2>3. CASE LimitReached(r)
    BY <1>1, <1>3, <2>3 DEF LimitReached, Unlimited
  <2>4. CASE FileRead(r)
    BY <1>1, <1>4, <1>7, <2>1, <2>4 DEF FileRead, HasLeft
  <2>5. CASE EndArt(r)
    <3>1. stage'[r] = stage[r] + 1 /\ pc[r] = "destroy" /\ pc'[r] = "driver" /\ stage[r] \in Nat
      BY <1>1, <2>5 DEF EndArt
    <3> QED
      BY <1>4, <1>7, <2>1, <3>1 DEF HasLeft
  <2>6. CASE ArtDies(r)
    <3>1. stage'[r] = stage[r] + 1 /\ pc'[r] = "driver" /\ failed' = failed \cup {<<r, stage[r]>>}
      BY <1>1, <2>6 DEF ArtDies
    <3>2. stage[r] = s + 1
      BY <1>1, <1>4, <1>7, <2>1, <3>1 DEF HasLeft
    <3> QED
      BY <3>1, <3>2
  <2>7. CASE StartArt(r) \/ BeginJob(r) \/ ReadFile(r) \/ Pop(r) \/ ReadProducts(r)
             \/ WriteNothing(r) \/ WriteProducts(r) \/ Push(r) \/ Flush(r) \/ Close(r)
             \/ AsyncStore(r)
    <3>1. stage'[r] = stage[r] /\ (pc'[r] \in Ending => pc[r] \in Ending)
      <4>1. CASE StartArt(r) \/ BeginJob(r) \/ ReadFile(r) \/ Pop(r) \/ ReadProducts(r)
        BY <1>1, <4>1 DEF StartArt, BeginJob, ReadFile, Pop, ReadProducts, Ending
      <4>2. CASE WriteNothing(r) \/ WriteProducts(r) \/ Push(r)
        BY <1>1, <4>2 DEF WriteNothing, WriteProducts, Push, Ending
      <4>3. CASE Flush(r) \/ Close(r) \/ AsyncStore(r)
        BY <1>1, <4>3 DEF Flush, Close, AsyncStore, Ending
      <4> QED
        BY <2>7, <4>1, <4>2, <4>3
    <3> QED
      BY <1>7, <2>1, <3>1 DEF HasLeft, Ending
  <2> QED
    BY <2>2, <2>3, <2>4, <2>5, <2>6, <2>7 DEF Step, RankStep, ArtStep
<1> QED
  BY <1>6, <1>7

THEOREM WorkflowInvariant == SafeSpec => []Inv
<1>1. Inv /\ [Next]_vars => Inv'
  <2> SUFFICES ASSUME Inv, [Next]_vars
               PROVE  Inv'
    OBVIOUS
  <2>1. ASSUME NEW r \in Ranks, Step(r)
        PROVE  Inv'
    BY <2>1, TypeStep, ControlStep, ProductsStep, PlaceStep, LeftQueuesStep DEF Inv
  <2>2. CASE UNCHANGED vars
    <3> USE <2>2 DEF vars, paramVars
    <3>1. TypeOK'
      BY DEF Inv, TypeOK
    <3>2. Control'
      BY DEF Inv, Control, InOrder, LoadingComesFirst
    <3>3. Products'
      BY DEF Inv, Products, ProductsAreKept, LoadedProductsAreRead, Kept
    <3>4. Place'
      BY DEF Inv, Place, HeldOnce
    <3>5. LeftQueuesAreEmpty'
      BY DEF Inv, LeftQueuesAreEmpty, HasLeft
    <3> QED
      BY <3>1, <3>2, <3>3, <3>4, <3>5 DEF Inv
  <2> QED
    BY <2>1, <2>2 DEF Next, Step, Terminated
<1> QED
  BY InitInv, <1>1, PTL DEF SafeSpec

\* TypeOK of the workflow for any ranks, events, steps, limits and deaths.
THEOREM WorkflowTypes == Spec => []TypeOK
<1>1. Inv => TypeOK
  BY DEF Inv
<1> QED
  BY <1>1, WorkflowInvariant, PTL DEF Spec

\* PushedIsStoredOrBatched: an identifier on a queue has its products in the store,
\* in a batch that is still flushed, or in one that died.
THEOREM PushedProductsAreKept == Spec => []PushedIsStoredOrBatched
<1>1. Inv => PushedIsStoredOrBatched
  BY DEF Inv, Products, ProductsAreKept, Kept, PushedIsStoredOrBatched, Batching
<1> QED
  BY <1>1, WorkflowInvariant, PTL DEF Spec

\* LoadedProductsAreRead: the first processing step misses no products but those that
\* died in the batch of a loading job.
THEOREM LoadedProductsAreFound == Spec => []LoadedProductsAreRead
<1>1. Inv => LoadedProductsAreRead
  BY DEF Inv, Products
<1> QED
  BY <1>1, WorkflowInvariant, PTL DEF Spec

\* NoEventStranded: the ranks leave no identifier behind.
THEOREM NoneIsStranded == Spec => []NoEventStranded
<1>1. Inv => NoEventStranded
  BY DEF Inv, LeftQueuesAreEmpty, NoEventStranded
<1> QED
  BY <1>1, WorkflowInvariant, PTL DEF Spec

\* OnePlace: no interleaving of any number of ranks duplicates or loses an event.
THEOREM EventsAreInOnePlace == Spec => []OnePlace
<1>1. Inv => OnePlace
  <2> SUFFICES ASSUME Inv, NEW e \in Events
               PROVE  Cardinality(Places(e)) = 1 /\ \A s \in Steps : queue[s][e] <= 1
    BY DEF OnePlace
  <2>1. HeldOnce(e) /\ \A s \in Steps : queue[s][e] \in Nat
    BY DEF Inv, Place, TypeOK
  <2>2. \E x : Places(e) = {x}
    <3>1. CASE \E r \in Ranks : e \in todo[r]
      <4>1. PICK r \in Ranks : e \in todo[r]
        BY <3>1
      <4>2. Places(e) = {<<"file", r, 0>>}
        BY <2>1, <4>1 DEF HeldOnce, Places
      <4> QED
        BY <4>2
    <3>2. CASE \E r \in Ranks : hand[r] = e
      <4>1. PICK r \in Ranks : hand[r] = e
        BY <3>2
      <4>2. Places(e) = {<<"hand", r, stage[r]>>}
        BY <2>1, <4>1 DEF HeldOnce, Places
      <4> QED
        BY <4>2
    <3>3. CASE \E s \in Steps : queue[s][e] > 0
      <4>1. PICK s \in Steps : queue[s][e] > 0
        BY <3>3
      <4>2. Places(e) = {<<"queue", s, 0>>}
        BY <2>1, <4>1 DEF HeldOnce, Places
      <4> QED
        BY <4>2
    <3>4. CASE e \in skipped
      <4>1. Places(e) = {<<"skipped", 0, 0>>}
        BY <2>1, <3>4 DEF HeldOnce, Places
      <4> QED
        BY <4>1
    <3>5. CASE e \in lost
      <4>1. Places(e) = {<<"lost", 0, 0>>}
        BY <2>1, <3>5 DEF HeldOnce, Places
      <4> QED
        BY <4>1
    <3> QED
      BY <2>1, <3>1, <3>2, <3>3, <3>4, <3>5 DEF HeldOnce
  <2>3. Cardinality(Places(e)) = 1
    BY <2>2, FS_Singleton
  <2> QED
    BY <2>1, <2>3 DEF HeldOnce
<1> QED
  BY <1>1, WorkflowInvariant, PTL DEF Spec

\* Accounted: at the end every event is out of the last step or has a reason not to be.
THEOREM EventsAreAccounted == Spec => []Accounted
<1>1. Inv => Accounted
  <2> SUFFICES ASSUME Inv, AllDone, NEW e \in Events
               PROVE  \/ queue[NStages][e] = 1
                      \/ e \in skipped \cup lost
                      \/ \E s \in 0..(NStages - 1) :
                           /\ queue[s][e] = 1
                           /\ maxEvents_ # Unlimited \/ \E r \in Ranks : <<r, s + 1>> \in failed
    BY DEF Accounted
  <2>1. \A r \in Ranks : pc[r] = "driver" /\ stage[r] = NStages + 1 /\ stage[r] > 0
    BY DEF Inv, Control, InOrder, AllDone
  <2>2. \A r \in Ranks : hand[r] = NoEvent /\ todo[r] = {}
    BY <2>1 DEF Inv, Control, InOrder, Working
  <2>3. HeldOnce(e) /\ \A s \in Steps : queue[s][e] \in Nat
    BY DEF Inv, Place, TypeOK
  <2>4. CASE e \in skipped \/ e \in lost
    BY <2>4
  <2>5. CASE \E s \in Steps : queue[s][e] > 0
    <3>1. PICK s \in Steps : queue[s][e] > 0
      BY <2>5
    <3>2. queue[s][e] = 1
      BY <2>3, <3>1 DEF HeldOnce
    <3>3. CASE s = NStages
      BY <3>2, <3>3
    <3>4. CASE s # NStages
      <4>1. s \in 0..(NStages - 1)
        BY <3>4 DEF Steps
      <4>2. \A r \in Ranks : HasLeft(r, s)
        BY <2>1, <4>1 DEF HasLeft
      <4>3. maxEvents_ = Unlimited => \E r \in Ranks : <<r, s + 1>> \in failed
        BY <3>1, <4>1, <4>2 DEF Inv, LeftQueuesAreEmpty
      <4> QED
        BY <3>2, <4>1, <4>3
    <3> QED
      BY <3>3, <3>4
  <2> QED
    BY <2>2, <2>3, <2>4, <2>5 DEF HeldOnce
<1> QED
  BY <1>1, WorkflowInvariant, PTL DEF Spec

-------------------------------------------------------------------------------
(* The refinement of EventFlow *)

\* The level of every event by where it is.
LevelsByPlace ==
  \A e \in Events :
    /\ \A r \in Ranks : e \in todo[r] => level[e] = -1
    /\ \A r \in Ranks : hand[r] = e => level[e] = stage[r] - 1
    /\ \A s \in Steps : queue[s][e] > 0 => level[e] = s
    /\ e \in skipped \cup lost => level[e] = NStages + 1

LEMMA Levels == Inv => LevelsByPlace
<1> SUFFICES ASSUME Inv, NEW e \in Events
             PROVE  /\ \A r \in Ranks : e \in todo[r] => level[e] = -1
                    /\ \A r \in Ranks : hand[r] = e => level[e] = stage[r] - 1
                    /\ \A s \in Steps : queue[s][e] > 0 => level[e] = s
                    /\ e \in skipped \cup lost => level[e] = NStages + 1
  BY DEF LevelsByPlace
<1>1. HeldOnce(e) /\ \A s \in Steps : queue[s][e] \in Nat
  BY DEF Inv, Place, TypeOK
<1>2. level[e] =
        IF e \in skipped \cup lost THEN NStages + 1
        ELSE IF \E s \in Steps : queue[s][e] > 0
          THEN CHOOSE s \in Steps : queue[s][e] > 0
          ELSE IF \E r \in Ranks : hand[r] = e
                 THEN stage[CHOOSE r \in Ranks : hand[r] = e] - 1
                 ELSE -1
  BY DEF level
<1>3. ASSUME NEW r \in Ranks, e \in todo[r]
      PROVE  level[e] = -1
  BY <1>1, <1>2, <1>3 DEF HeldOnce
<1>4. ASSUME NEW r \in Ranks, hand[r] = e
      PROVE  level[e] = stage[r] - 1
  <2>1. r = CHOOSE p \in Ranks : hand[p] = e
    BY <1>1, <1>4 DEF HeldOnce
  <2> QED
    BY <1>1, <1>2, <1>4, <2>1 DEF HeldOnce
<1>5. ASSUME NEW s \in Steps, queue[s][e] > 0
      PROVE  level[e] = s
  <2>1. s = CHOOSE t \in Steps : queue[t][e] > 0
    BY <1>1, <1>5 DEF HeldOnce
  <2> QED
    BY <1>1, <1>2, <1>5, <2>1 DEF HeldOnce
<1> QED
  BY <1>2, <1>3, <1>4, <1>5

\* Before anything is loaded every event is at the start of its flow.
LEMMA FlowInit == Init => Flow!Init
<1> SUFFICES ASSUME Init
             PROVE  level = [e \in Events |-> -1]
  BY DEF Flow!Init
<1>1. Inv
  BY InitInv
<1>2. \A e \in Events : level[e] = -1
  <2> TAKE e \in Events
  <2>1. PICK r \in Ranks : e \in todo[r]
    BY DEF Init
  <2> QED
    BY <1>1, <2>1, Levels DEF LevelsByPlace
<1> QED
  BY <1>2 DEF level

\* Pushing an event is its next level, and an event that is skipped or lost leaves
\* the flow; all other steps keep the levels.
LEMMA FlowStep ==
  ASSUME Inv, Inv', NEW r \in Ranks, Step(r)
  PROVE  Flow!Next \/ level' = level
<1> USE DEF Goto, sharedVars, historyVars, paramVars
<1>1. /\ hand \in [Ranks -> Events \cup {NoEvent}] /\ todo \in [Ranks -> SUBSET Events]
      /\ stage \in [Ranks -> 0..(NStages + 1)]
      /\ queue \in [Steps -> [Events -> Nat]] /\ NoEvent \notin Events
  BY DEF Inv, TypeOK
<1>2. /\ \A e \in Events : HeldOnce(e)
      /\ InOrder(r)
      /\ pc[r] \in Working => hand[r] \in Events
      /\ pc[r] # "driver" => stage[r] \in Steps
  BY InAJob DEF Inv, Control, Place
<1>3. level = [e \in Events |-> level[e]] /\ level' = [e \in Events |-> level'[e]]
  BY DEF level
<1>4. LevelsByPlace /\ LevelsByPlace'
  <2>1. Inv' => LevelsByPlace'
    BY Levels, PTL
  <2> QED
    BY <2>1, Levels
<1>5. \A e \in Events : HeldOnce(e)'
  BY DEF Inv, Place
\* The level of an event the step does not move.
<1>6. ASSUME NEW x \in Events,
             \A p \in Ranks : (x \in todo'[p] <=> x \in todo[p]) /\ (hand'[p] = x <=> hand[p] = x),
             \A p \in Ranks : hand[p] = x => stage'[p] = stage[p],
             \A s \in Steps : queue'[s][x] = queue[s][x],
             x \in skipped' <=> x \in skipped, x \in lost' <=> x \in lost
      PROVE  level'[x] = level[x]
  BY <1>2, <1>4, <1>6 DEF HeldOnce, LevelsByPlace
<1>7. CASE UNCHANGED <<todo, hand, stage, queue, skipped, lost>>
  BY <1>7 DEF level
<1>8. CASE EndArt(r)
  <2>1. hand[r] = NoEvent /\ UNCHANGED <<todo, hand, queue, skipped, lost>>
        /\ \A p \in Ranks : p # r => stage'[p] = stage[p]
    BY <1>1, <1>2, <1>8 DEF EndArt, InOrder, Working
  <2>2. \A x \in Events : level'[x] = level[x]
    BY <1>1, <1>6, <2>1
  <2> QED
    BY <1>3, <2>2
<1>9. CASE ReadFile(r)
  <2>1. PICK e \in todo[r] : /\ todo' = [todo EXCEPT ![r] = @ \ {e}]
                            /\ hand' = [hand EXCEPT ![r] = e]
    BY <1>9 DEF ReadFile
  <2>2. stage[r] = 0 /\ hand[r] = NoEvent /\ e \in Events
        /\ UNCHANGED <<stage, queue, skipped, lost>>
    BY <1>1, <1>2, <1>9, <2>1 DEF ReadFile, InOrder, Working
  <2>3. level[e] = -1 /\ level'[e] = -1
    BY <1>1, <1>4, <2>1, <2>2 DEF LevelsByPlace
  <2>4. \A x \in Events : x # e => level'[x] = level[x]
    BY <1>1, <1>6, <2>1, <2>2
  <2> QED
    BY <1>3, <2>3, <2>4
<1>10. CASE Pop(r)
  <2> DEFINE from == stage[r] - 1
  <2>1. PICK e \in Events : /\ queue[from][e] > 0
                           /\ queue' = [queue EXCEPT ![from][e] = @ - 1]
                           /\ hand' = [hand EXCEPT ![r] = e]
    BY <1>10 DEF Pop, InputQueue
  <2>2. hand[r] = NoEvent /\ from \in Steps /\ UNCHANGED <<todo, stage, skipped, lost>>
    <3>1. hand[r] = NoEvent /\ stage[r] \in Steps /\ stage[r] > 0
      BY <1>2, <1>10 DEF Pop, InOrder, Working
    <3> QED
      BY <1>10, <3>1 DEF Steps, Pop
  <2>3. level[e] = from /\ level'[e] = from
    BY <1>1, <1>4, <2>1, <2>2 DEF LevelsByPlace
  <2> HIDE DEF from
  <2>4. \A x \in Events : x # e => level'[x] = level[x]
    BY <1>1, <1>6, <2>1, <2>2
  <2> QED
    BY <1>3, <2>3, <2>4
<1>11. CASE Push(r)
  <2> DEFINE e == hand[r]
             to == stage[r]
  <2>1. /\ e \in Events /\ to \in Steps
        /\ queue' = [queue EXCEPT ![to][e] = @ + 1] /\ hand' = [hand EXCEPT ![r] = NoEvent]
        /\ UNCHANGED <<todo, stage, skipped, lost>>
    BY <1>2, <1>11 DEF Push, Working
  <2>2. level[e] = to - 1
    BY <1>4, <2>1 DEF LevelsByPlace
  <2>3. level'[e] = to
    <3>1. queue'[to][e] > 0
      <4> HIDE DEF to, e
      <4> QED
        BY <1>1, <2>1
    <3> QED
      BY <1>4, <2>1, <3>1 DEF LevelsByPlace
  <2>4. \A x \in Events : x # e => level'[x] = level[x]
    <3> HIDE DEF to
    <3> QED
      BY <1>1, <1>6, <2>1
  <2>5. level[e] < NStages /\ level'[e] = level[e] + 1
    BY <2>1, <2>2, <2>3 DEF Steps
  <2>6. Flow!Advance(e)
    <3> HIDE DEF to, e
    <3> QED
      BY <1>3, <2>1, <2>4, <2>5 DEF Flow!Advance
  <2> QED
    BY <2>1, <2>6 DEF Flow!Next
<1>12. CASE WriteNothing(r)
  <2> DEFINE e == hand[r]
  <2>1. /\ e \in Events /\ stage[r] \in Steps
        /\ skipped' = skipped \cup {e} /\ hand' = [hand EXCEPT ![r] = NoEvent]
        /\ UNCHANGED <<todo, stage, queue, lost>>
    BY <1>2, <1>12 DEF WriteNothing, Working
  <2>2. level[e] = stage[r] - 1 /\ level'[e] = NStages + 1
    BY <1>4, <2>1 DEF LevelsByPlace
  <2>3. \A x \in Events : x # e => level'[x] = level[x]
    BY <1>1, <1>6, <2>1
  <2>4. Flow!Leave({e})
    <3>1. level[e] < NStages
      BY <2>1, <2>2 DEF Steps
    <3> HIDE DEF e
    <3> QED
      BY <1>3, <2>1, <2>2, <2>3, <3>1 DEF Flow!Leave, Flow!Gone
  <2> QED
    BY <2>1, <2>4 DEF Flow!Next
<1>13. CASE ArtDies(r)
  <2> DEFINE S == todo[r] \cup ({hand[r]} \ {NoEvent})
  <2>1. /\ S \subseteq Events /\ stage[r] \in Steps
        /\ lost' = lost \cup S
        /\ \A p \in Ranks : p # r => todo'[p] = todo[p] /\ hand'[p] = hand[p] /\ stage'[p] = stage[p]
        /\ todo'[r] = {} /\ hand'[r] = NoEvent
        /\ UNCHANGED <<queue, skipped>>
    BY <1>1, <1>2, <1>13 DEF ArtDies
  <2>2. \A x \in S : level[x] < NStages
    <3> TAKE x \in S
    <3>1. CASE x \in todo[r]
      BY <1>1, <1>4, <3>1 DEF LevelsByPlace
    <3>2. CASE x = hand[r] /\ x \in Events
      BY <1>4, <2>1, <3>2 DEF LevelsByPlace, Steps
    <3> QED
      BY <2>1, <3>1, <3>2
  <2>3. \A x \in S : level'[x] = NStages + 1
    BY <1>4, <2>1 DEF LevelsByPlace
  <2>4. \A x \in Events : x \notin S => level'[x] = level[x]
    <3> TAKE x \in Events
    <3> HAVE x \notin S
    <3>1. x \notin todo[r] /\ hand[r] # x
      BY <1>1
    <3> HIDE DEF S
    <3> QED
      BY <1>1, <1>6, <2>1, <3>1
  <2>5. Flow!Leave(S)
    <3> HIDE DEF S
    <3>1. \A x \in Events : level'[x] = IF x \in S THEN NStages + 1 ELSE level[x]
      BY <2>3, <2>4
    <3>2. level' = [x \in Events |-> IF x \in S THEN NStages + 1 ELSE level[x]]
      BY <1>3, <3>1
    <3> QED
      BY <2>2, <3>2 DEF Flow!Leave, Flow!Gone
  <2> QED
    BY <2>1, <2>5 DEF Flow!Next
<1>14. CASE StartArt(r) \/ FileRead(r) \/ LimitReached(r) \/ PopFails(r)
  BY <1>7, <1>14 DEF StartArt, FileRead, LimitReached, PopFails
<1>15. CASE ReadProducts(r) \/ BeginJob(r) \/ WriteProducts(r) \/ AsyncStore(r) \/ Flush(r)
            \/ Close(r)
  BY <1>7, <1>15 DEF ReadProducts, BeginJob, WriteProducts, AsyncStore, Flush, Close
<1> QED
  BY <1>8, <1>9, <1>10, <1>11, <1>12, <1>13, <1>14, <1>15 DEF Step, RankStep, ArtStep

\* The safety half of FlowSpec: every event passes every step once and in order, or
\* leaves the flow for good, whichever ranks work on it.
THEOREM WorkflowIsAFlow == Spec => Flow!SafeSpec
<1>1. Inv /\ Inv' /\ [Next]_vars => [Flow!Next]_level
  <2> SUFFICES ASSUME Inv, Inv', [Next]_vars
               PROVE  Flow!Next \/ level' = level
    OBVIOUS
  <2>1. ASSUME NEW r \in Ranks, Step(r)
        PROVE  Flow!Next \/ level' = level
    BY <2>1, FlowStep
  <2>2. CASE UNCHANGED vars
    BY <2>2 DEF vars, level
  <2> QED
    BY <2>1, <2>2 DEF Next, Step, Terminated
<1> QED
  BY <1>1, FlowInit, WorkflowInvariant, PTL DEF Spec, SafeSpec, Flow!SafeSpec
===============================================================================
