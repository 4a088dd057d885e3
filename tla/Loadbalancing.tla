----------------------------- MODULE Loadbalancing -----------------------------
(***************************************************************************)
(* The load-balanced workflow.  mpi_loader runs one art job per MPI rank   *)
(* that stores its slice of the input events (step 0); when it has ended   *)
(* mpi_hepnos_processor runs, on every rank and without a barrier, one art *)
(* job per processing step.  The job of step s pops event identifiers from *)
(* the HEPnOS queue that step s-1 fills (LoadbalancingInput), reads that   *)
(* step's products, processes the event, stores the new products through   *)
(* an asynchronous write batch and pushes the identifier on the queue of   *)
(* step s (LoadbalancingOutput).                                           *)
(*                                                                         *)
(* Every HEPnOS call of a job is a step here: HepnosDataStore shows that   *)
(* run_hepnos_func is a synchronous call.  The HEPnOS queue is external; a *)
(* pop may return any entry, and popWaits tells whether a pop on an empty  *)
(* queue waits while some producer still has the queue open.               *)
(***************************************************************************)
EXTENDS Integers, FiniteSets

CONSTANTS
  Ranks,        \* MPI ranks
  Events,       \* events of the input files
  EmptyEvents,  \* those without a single product
  NStages,      \* processing steps
  Slice,        \* the events each rank's loading job reads
  Limits,       \* values of the source's maxEvents parameter, Unlimited by default
  MaxCrashes,   \* bound on the art jobs that die
  NoEvent       \* no event in hand

Unlimited == -1
Steps == 0..NStages

ASSUME RanksAssumption == IsFiniteSet(Ranks) /\ Ranks # {}
ASSUME EventsAssumption == EmptyEvents \subseteq Events /\ NoEvent \notin Events
ASSUME NStagesAssumption == NStages \in Nat \ {0}
ASSUME SliceAssumption ==
  /\ Slice \in [Ranks -> SUBSET Events]
  /\ \A e \in Events : \E r \in Ranks : e \in Slice[r]
  /\ \A r, p \in Ranks : r # p => Slice[r] \cap Slice[p] = {}
ASSUME BoundsAssumption ==
  Limits \subseteq Nat \cup {Unlimited} /\ MaxCrashes \in Nat

VARIABLES
  maxEvents_, \* the maxEvents parameter of the jobs
  popWaits,   \* whether a pop on an empty queue waits for its open producers
  pc,         \* where each rank is in its art job, "driver" between jobs
  stage,      \* the step each rank is working on, NStages + 1 at the end
  hand,       \* the event each job is processing
  nEvents,    \* events the job's source has returned
  todo,       \* events of its slice a loading job has still to read
  batch,      \* events whose new products wait in the job's write batch
  queue,      \* how often each event is on the queue of each step
  producers,  \* ranks that have the queue of each step open to push
  stored,     \* <<step, event>>: the products are in the store
  missed,     \* history: <<step, event>> whose products a job did not find
  skipped,    \* history: events write() returned early on
  lost,       \* history: events in the hand of a job that died
  wasted,     \* history: <<step, event>> whose products died in a job's batch
  failed      \* history: <<rank, step>> of the jobs that died

paramVars == <<maxEvents_, popWaits>>
sharedVars == <<paramVars, queue, producers, stored>>
historyVars == <<missed, skipped, lost, wasted, failed>>
vars == <<paramVars, pc, stage, hand, nEvents, todo, batch, queue, producers,
          stored, missed, skipped, lost, wasted, failed>>

Init ==
  /\ maxEvents_ \in Limits
  /\ popWaits \in BOOLEAN
  /\ pc = [r \in Ranks |-> "driver"]
  /\ stage = [r \in Ranks |-> 0]
  /\ hand = [r \in Ranks |-> NoEvent]
  /\ nEvents = [r \in Ranks |-> 0]
  /\ todo = Slice
  /\ batch = [r \in Ranks |-> {}]
  /\ queue = [s \in Steps |-> [e \in Events |-> 0]]
  /\ producers = [s \in Steps |-> {}]
  /\ stored = {}
  /\ missed = {}
  /\ skipped = {}
  /\ lost = {}
  /\ wasted = {}
  /\ failed = {}

Goto(r, from, to) ==
  /\ pc[r] = from
  /\ pc' = [pc EXCEPT ![r] = to]

-------------------------------------------------------------------------------
(* The drivers: one art job per step on each rank *)

\* The processing program is launched when the loading program has ended.
LoadingOver == \A p \in Ranks : stage[p] > 0

\* Mutant: the processing program does not wait for the loading program.
StartArtMut(r) ==
  /\ Goto(r, "driver", "begin_job")
  /\ stage[r] \in Steps
  /\ nEvents' = [nEvents EXCEPT ![r] = 0]
  /\ UNCHANGED <<stage, hand, todo, batch, sharedVars, historyVars>>

\* The next art job: its source is constructed and opens the input queue.
StartArt(r) ==
  /\ Goto(r, "driver", "begin_job")
  /\ stage[r] \in Steps
  /\ stage[r] > 0 => LoadingOver
  /\ nEvents' = [nEvents EXCEPT ![r] = 0]
  /\ UNCHANGED <<stage, hand, todo, batch, sharedVars, historyVars>>

\* Mutant: the driver skips a step.
EndArtMut(r) ==
  /\ Goto(r, "destroy", "driver")
  /\ stage' = [stage EXCEPT ![r] = @ + 2]
  /\ UNCHANGED <<hand, nEvents, todo, batch, sharedVars, historyVars>>

\* The job has ended: its source closes the input queue, the driver goes on.
EndArt(r) ==
  /\ Goto(r, "destroy", "driver")
  /\ stage' = [stage EXCEPT ![r] = @ + 1]
  /\ UNCHANGED <<hand, nEvents, todo, batch, sharedVars, historyVars>>

\* The job dies: its batch and its event are gone and nobody closes its queue.
\* The command the driver runs ends with popd, whose status it looks at.
ArtDies(r) ==
  /\ Cardinality(failed) < MaxCrashes
  /\ pc[r] # "driver"
  /\ pc' = [pc EXCEPT ![r] = "driver"]
  /\ stage' = [stage EXCEPT ![r] = @ + 1]
  /\ hand' = [hand EXCEPT ![r] = NoEvent]
  /\ todo' = [todo EXCEPT ![r] = {}]
  /\ batch' = [batch EXCEPT ![r] = {}]
  /\ lost' = lost \cup todo[r] \cup ({hand[r]} \ {NoEvent})
  /\ wasted' = wasted \cup {<<stage[r], e>> : e \in batch[r]}
  /\ failed' = failed \cup {<<r, stage[r]>>}
  /\ UNCHANGED <<nEvents, sharedVars, missed, skipped>>

-------------------------------------------------------------------------------
(* The source: the root file when loading, LoadbalancingInput afterwards *)

\* The loading job's source returns the next event of its slice.
ReadFile(r) ==
  /\ Goto(r, "read_next", "write")
  /\ stage[r] = 0
  /\ \E e \in todo[r] :
       /\ todo' = [todo EXCEPT ![r] = @ \ {e}]
       /\ hand' = [hand EXCEPT ![r] = e]
  /\ UNCHANGED <<stage, nEvents, batch, sharedVars, historyVars>>

FileRead(r) ==
  /\ Goto(r, "read_next", "flush")
  /\ stage[r] = 0
  /\ todo[r] = {}
  /\ UNCHANGED <<stage, hand, nEvents, todo, batch, sharedVars, historyVars>>

\* Mutant: the limit is looked at after the pop.
LimitReachedMut(r) ==
  /\ Goto(r, "read_next", "flush")
  /\ stage[r] > 0
  /\ nEvents[r] = maxEvents_
  /\ \E e \in Events :
       queue' = [queue EXCEPT ![stage[r] - 1][e] = IF @ > 0 THEN @ - 1 ELSE 0]
  /\ UNCHANGED <<paramVars, stage, hand, nEvents, todo, batch, producers, stored,
                 historyVars>>

\* readNext returns false at the limit, before it looks at the queue.
LimitReached(r) ==
  /\ Goto(r, "read_next", "flush")
  /\ stage[r] > 0
  /\ nEvents[r] = maxEvents_
  /\ UNCHANGED <<stage, hand, nEvents, todo, batch, sharedVars, historyVars>>

InputQueue(r) == queue[stage[r] - 1]

\* Mutant: the identifier stays on the queue.
PopMut(r) ==
  /\ Goto(r, "read_next", "read_products")
  /\ stage[r] > 0
  /\ nEvents[r] # maxEvents_
  /\ \E e \in Events :
       /\ InputQueue(r)[e] > 0
       /\ hand' = [hand EXCEPT ![r] = e]
  /\ UNCHANGED <<stage, nEvents, todo, batch, sharedVars, historyVars>>

\* readNext takes an identifier off the queue.
Pop(r) ==
  /\ Goto(r, "read_next", "read_products")
  /\ stage[r] > 0
  /\ nEvents[r] # maxEvents_
  /\ \E e \in Events :
       /\ InputQueue(r)[e] > 0
       /\ queue' = [queue EXCEPT ![stage[r] - 1][e] = @ - 1]
       /\ hand' = [hand EXCEPT ![r] = e]
  /\ UNCHANGED <<paramVars, stage, nEvents, todo, batch, producers, stored, historyVars>>

\* Mutant: the loop also ends on a queue that is not empty.
PopFailsMut(r) ==
  /\ Goto(r, "read_next", "flush")
  /\ stage[r] > 0
  /\ nEvents[r] # maxEvents_
  /\ UNCHANGED <<stage, hand, nEvents, todo, batch, sharedVars, historyVars>>

\* The pop finds nothing: readNext returns false and the event loop ends.
PopFails(r) ==
  /\ Goto(r, "read_next", "flush")
  /\ stage[r] > 0
  /\ nEvents[r] # maxEvents_
  /\ \A e \in Events : InputQueue(r)[e] = 0
  /\ popWaits => producers[stage[r] - 1] = {}
  /\ UNCHANGED <<stage, hand, nEvents, todo, batch, sharedVars, historyVars>>

\* readNext asks for the products of the step before (the digits, the wires or
\* the hits) of the event it popped.
Wanted(r) == <<stage[r] - 1, hand[r]>>

\* A load returns what is in the store; what waits in a batch it does not see.
Found(products) == products \in stored

\* Mutant: an event whose products are missing is passed over.
ReadProductsMut(r) ==
  /\ Goto(r, "read_products", "read_next")
  /\ hand' = [hand EXCEPT ![r] = NoEvent]
  /\ nEvents' = [nEvents EXCEPT ![r] = @ + 1]
  /\ UNCHANGED <<stage, todo, batch, sharedVars, historyVars>>

\* A product that is not in the store is left out of the event; the check that
\* would report it is behind a return.
ReadProducts(r) ==
  /\ Goto(r, "read_products", "write")
  /\ missed' = IF Found(Wanted(r)) THEN missed ELSE missed \cup {Wanted(r)}
  /\ nEvents' = [nEvents EXCEPT ![r] = @ + 1]
  /\ UNCHANGED <<stage, hand, todo, batch, sharedVars, skipped, lost, wasted, failed>>

-------------------------------------------------------------------------------
(* LoadbalancingOutput *)

\* The output module is constructed, with nothing in its write batch, and
\* beginJob opens the output queue to push.
BeginJob(r) ==
  /\ Goto(r, "begin_job", "read_next")
  /\ producers' = [producers EXCEPT ![stage[r]] = @ \cup {r}]
  /\ UNCHANGED <<paramVars, stage, hand, nEvents, todo, batch, queue, stored,
                 historyVars>>

\* write() does nothing for an event without products.
WriteNothing(r) ==
  /\ Goto(r, "write", "read_next")
  /\ hand[r] \in EmptyEvents
  /\ skipped' = skipped \cup {hand[r]}
  /\ hand' = [hand EXCEPT ![r] = NoEvent]
  /\ UNCHANGED <<stage, nEvents, todo, batch, sharedVars, missed, lost, wasted, failed>>

\* The new products go to the write batch ...
WriteProducts(r) ==
  /\ Goto(r, "write", "push")
  /\ hand[r] \notin EmptyEvents
  /\ batch' = [batch EXCEPT ![r] = @ \cup {hand[r]}]
  /\ UNCHANGED <<stage, hand, nEvents, todo, sharedVars, historyVars>>

\* ... and the identifier to the output queue.
Push(r) ==
  /\ Goto(r, "push", "read_next")
  /\ queue' = [queue EXCEPT ![stage[r]][hand[r]] = @ + 1]
  /\ hand' = [hand EXCEPT ![r] = NoEvent]
  /\ UNCHANGED <<paramVars, stage, nEvents, todo, batch, producers, stored, historyVars>>

\* The asynchronous engine writes a batched product in the background.
AsyncStore(r) ==
  /\ \E e \in batch[r] :
       /\ stored' = stored \cup {<<stage[r], e>>}
       /\ batch' = [batch EXCEPT ![r] = @ \ {e}]
  /\ UNCHANGED <<paramVars, pc, stage, hand, nEvents, todo, queue, producers,
                 historyVars>>

\* Mutant: the batch is thrown away.
FlushMut(r) ==
  /\ Goto(r, "flush", "close")
  /\ batch' = [batch EXCEPT ![r] = {}]
  /\ UNCHANGED <<stage, hand, nEvents, todo, sharedVars, historyVars>>

\* endJob flushes the batch ...
Flush(r) ==
  /\ Goto(r, "flush", "close")
  /\ stored' = stored \cup {<<stage[r], e>> : e \in batch[r]}
  /\ batch' = [batch EXCEPT ![r] = {}]
  /\ UNCHANGED <<paramVars, stage, hand, nEvents, todo, queue, producers, historyVars>>

\* Mutant: the queue stays open.
CloseMut(r) ==
  /\ Goto(r, "close", "destroy")
  /\ UNCHANGED <<stage, hand, nEvents, todo, batch, sharedVars, historyVars>>

\* ... and then closes the output queue.
Close(r) ==
  /\ Goto(r, "close", "destroy")
  /\ producers' = [producers EXCEPT ![stage[r]] = @ \ {r}]
  /\ UNCHANGED <<paramVars, stage, hand, nEvents, todo, batch, queue, stored,
                 historyVars>>

-------------------------------------------------------------------------------
ArtStep(r) ==
  \/ BeginJob(r) \/ ReadFile(r) \/ FileRead(r) \/ LimitReached(r) \/ Pop(r)
  \/ PopFails(r) \/ ReadProducts(r) \/ WriteNothing(r) \/ WriteProducts(r)
  \/ Push(r) \/ Flush(r) \/ Close(r)

RankStep(r) == StartArt(r) \/ ArtStep(r) \/ EndArt(r)

AllDone == \A r \in Ranks : stage[r] = NStages + 1

\* Rank r has to pop, and waits on an empty queue that a rank which is no more has
\* left open.
WaitsForTheDead(r) ==
  /\ popWaits /\ pc[r] = "read_next" /\ stage[r] > 0 /\ nEvents[r] # maxEvents_
  /\ \A e \in Events : queue[stage[r] - 1][e] = 0
  /\ \E p \in producers[stage[r] - 1] : <<p, stage[r] - 1>> \in failed

\* The system stops here: all jobs have ended, or one is held up for ever.
Terminated ==
  /\ AllDone \/ \E r \in Ranks : WaitsForTheDead(r)
  /\ UNCHANGED vars

Next ==
  \/ \E r \in Ranks : RankStep(r) \/ AsyncStore(r) \/ ArtDies(r)
  \/ Terminated

\* Each rank is a process of its own; that the asynchronous engine ever runs
\* before a flush is not assumed.
Fairness == \A r \in Ranks : WF_vars(RankStep(r))

SafeSpec == Init /\ [][Next]_vars
Spec == SafeSpec /\ Fairness

-------------------------------------------------------------------------------
(* Properties *)

TypeOK ==
  /\ maxEvents_ \in Limits
  /\ popWaits \in BOOLEAN
  /\ pc \in [Ranks -> {"driver", "begin_job", "read_next", "read_products", "write",
                       "push", "flush", "close", "destroy"}]
  /\ stage \in [Ranks -> 0..(NStages + 1)]
  /\ hand \in [Ranks -> Events \cup {NoEvent}]
  /\ nEvents \in [Ranks -> Nat]
  /\ todo \in [Ranks -> SUBSET Events]
  /\ batch \in [Ranks -> SUBSET Events]
  /\ queue \in [Steps -> [Events -> Nat]]
  /\ producers \in [Steps -> SUBSET Ranks]
  /\ stored \subseteq Steps \X Events
  /\ missed \subseteq Steps \X Events
  /\ skipped \subseteq Events
  /\ lost \subseteq Events
  /\ wasted \subseteq Steps \X Events
  /\ failed \subseteq Ranks \X Steps

\* Rank r will not pop from the queue of step s any more.
HasLeft(r, s) ==
  \/ stage[r] > s + 1
  \/ stage[r] = s + 1 /\ pc[r] \in {"flush", "close", "destroy"}

\* As long as a queue that somebody reads holds an event, some rank is still to
\* read it: an identifier pushed after other ranks have found the queue empty
\* and gone on is popped by the rank that pushed it, if by no other.
NoEventStranded ==
  maxEvents_ = Unlimited /\ failed = {} =>
    \A s \in 0..(NStages - 1) :
      (\A r \in Ranks : HasLeft(r, s)) => \A e \in Events : queue[s][e] = 0

\* The places an event can be in.
Places(e) ==
  {<<"file", r, 0>> : r \in {p \in Ranks : e \in todo[p]}}
    \cup {<<"hand", r, stage[r]>> : r \in {p \in Ranks : hand[p] = e}}
    \cup {<<"queue", s, 0>> : s \in {t \in Steps : queue[t][e] > 0}}
    \cup {<<"skipped", 0, 0>> : x \in {e} \cap skipped}
    \cup {<<"lost", 0, 0>> : x \in {e} \cap lost}

\* An event is in one place: no interleaving of the ranks loses it, processes it
\* in two jobs at a time, or leaves it twice on a queue.
OnePlace ==
  \A e \in Events :
    Cardinality(Places(e)) = 1 /\ \A s \in Steps : queue[s][e] <= 1

\* What a job has pushed it stores before it ends: the products behind an
\* identifier are in the store or in the batch of a job that still has to flush,
\* unless that job died with them.
PushedIsStoredOrBatched ==
  \A s \in Steps, e \in Events :
    queue[s][e] > 0 =>
      \/ <<s, e>> \in stored \cup wasted
      \/ \E r \in Ranks :
           stage[r] = s /\ e \in batch[r] /\ pc[r] \in {"read_next", "read_products",
                                                        "write", "push", "flush"}

\* The first processing step finds every product that did not die in the batch of
\* a loading job: the others have flushed.
LoadedProductsAreRead == \A e \in Events : <<0, e>> \in missed => <<0, e>> \in wasted

\* LoadbalancingInput reads strictly: a job never goes on without the products
\* of the step before.
StrictRead == missed = {}

\* At the end every event is out of the last step, unless it was empty, was in
\* the hand of a job that died, or waits on a queue because the jobs that read
\* it stopped at maxEvents or one of them died.
Accounted ==
  AllDone => \A e \in Events :
    \/ queue[NStages][e] = 1
    \/ e \in skipped \cup lost
    \/ \E s \in 0..(NStages - 1) :
         /\ queue[s][e] = 1
         /\ maxEvents_ # Unlimited \/ \E r \in Ranks : <<r, s + 1>> \in failed

\* Every rank gets through all its jobs, unless one waits for a job that died
\* and never closes its queue: producers that wait in turn close no cycle.
WorkflowEnds == <>(AllDone \/ \E r \in Ranks : WaitsForTheDead(r))

\* Seen per event, the workflow is the flow of EventFlow.
level ==
  [e \in Events |->
     IF e \in skipped \cup lost THEN NStages + 1
     ELSE IF \E s \in Steps : queue[s][e] > 0
       THEN CHOOSE s \in Steps : queue[s][e] > 0
       ELSE IF \E r \in Ranks : hand[r] = e
              THEN stage[CHOOSE r \in Ranks : hand[r] = e] - 1
              ELSE -1]

Flow == INSTANCE EventFlow WITH Events <- Events, NStages <- NStages, level <- level

\* Every event passes every step once and in order or leaves the flow for good,
\* and without a limit and a death it gets as far as it can.
FlowSpec ==
  /\ Flow!SafeSpec
  /\ maxEvents_ = Unlimited => <>(failed # {}) \/ Flow!Fairness
===============================================================================
