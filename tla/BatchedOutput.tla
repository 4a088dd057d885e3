----------------------------- MODULE BatchedOutput -----------------------------
(***************************************************************************)
(* write() of HepnosSPOutput and LoadbalancingOutput.  The products of an  *)
(* event go to a write batch that an asynchronous engine works off and     *)
(* that is flushed once at the end of the job; the associations, with      *)
(* pointers to those products, go straight to the store.                   *)
(*                                                                         *)
(* The two modules differ in where they flush: HepnosSPOutput in its       *)
(* destructor, which runs after a failure too, LoadbalancingOutput in      *)
(* endJob, which a job that failed never reaches.                          *)
(***************************************************************************)
EXTENDS ProductTranslator

CONSTANTS
  Dropped,      \* names a drop command matches
  Forwarded     \* names read from HEPnOS, not to be stored again

ASSUME CommandsAssumption ==
  Dropped \subseteq DataNames \cup AssnNames /\ Forwarded \subseteq StoredNames

VARIABLE
  batch     \* HEPnOS ids of the products in the write batch

vars ==
  <<pc, event, content, links, pending, translator_, stored, pointers, module, batch>>

Modules == {"HepnosSPOutput", "LoadbalancingOutput"}

\* listProducts: whatever process stored a product, it is taken for the art product
\* of its name under the name of the current process.
Listed ==
  [n \in {m \in DataNames : Id(event, m, "previous") \in stored} |->
     Id(event, n, "previous")]

\* Products with a drop command, those read from HEPnOS, and those of a type the
\* module does not know are passed over.
Wanted ==
  {n \in content[event] \cap StoredNames : n \notin Dropped /\ n \notin Forwarded}

New == [n \in Wanted |-> Id(event, n, "current")]

\* store_aassns: the associations of the event its loop tries to store.
Visited == {a \in links[event] \cap StoredAssns : a \notin Dropped}

\* Mutant: the products are batched and their ids are not entered in the map.
UpdateMapAeventMut ==
  /\ pc = "aevent"
  /\ batch' = batch \cup {New[n] : n \in Wanted}
  /\ pc' = "assns"
  /\ pending' = Visited
  /\ UNCHANGED <<writeVars, translator_, stored, pointers, module>>

\* update_map_aevent: batch the wanted products and enter their ids in the map.
UpdateMapAevent ==
  /\ pc = "aevent"
  /\ translator_' = Insert(translator_, New)
  /\ batch' = batch \cup {New[n] : n \in Wanted}
  /\ pc' = "assns"
  /\ pending' = Visited
  /\ UNCHANGED <<writeVars, stored, pointers, module>>

\* The engine stores a batched product in the background.
AsyncStore ==
  /\ pc # "died"
  /\ \E id \in batch :
       /\ stored' = stored \cup {id}
       /\ batch' = batch \ {id}
  /\ UNCHANGED <<writeVars, pc, pending, translator_, pointers, module>>

\* Mutant: the job ends without a flush.
FlushMut ==
  /\ pc = "idle"
  /\ pc' = "done"
  /\ UNCHANGED <<writeVars, pending, translator_, stored, pointers, module, batch>>

\* The end of the job: the destructor (HepnosSPOutput) or endJob flushes.
Flush ==
  /\ pc = "idle"
  /\ stored' = stored \cup batch
  /\ batch' = {}
  /\ pc' = "done"
  /\ UNCHANGED <<writeVars, pending, translator_, pointers, module>>

\* Mutant: HepnosSPOutput flushes in endJob as well.
UnwindMut ==
  /\ pc = "failed"
  /\ batch' = {}
  /\ pc' = "unwound"
  /\ UNCHANGED <<writeVars, pending, translator_, stored, pointers, module>>

\* After a failure art destroys its modules without endJob.  HepnosSPOutput flushes
\* in its destructor; what LoadbalancingOutput still has in its batch is lost.
Unwind ==
  /\ pc = "failed"
  /\ stored' = IF module = "HepnosSPOutput" THEN stored \cup batch ELSE stored
  /\ batch' = {}
  /\ pc' = "unwound"
  /\ UNCHANGED <<writeVars, pending, translator_, pointers, module>>

\* The job dies; what its batch holds is gone.
Die ==
  /\ pc \notin {"done", "unwound", "died"}
  /\ pc' = "died"
  /\ batch' = {}
  /\ UNCHANGED <<writeVars, pending, translator_, stored, pointers, module>>

Unbatched ==
  \/ Write("hevent", Forwarded)
  \/ UpdateMapHevent(Listed, "aevent", {})
  \/ \E a \in AssnNames : StoreAssn(a) \/ TranslationFails(a)
  \/ WriteEnds

Terminated == pc \in {"done", "unwound", "died"} /\ UNCHANGED vars

BatchedNext ==
  \/ Unbatched /\ UNCHANGED <<module, batch>>
  \/ UpdateMapAevent \/ AsyncStore \/ Flush \/ Unwind \/ Die \/ Terminated

-------------------------------------------------------------------------------
(* Properties *)

TypeOK ==
  /\ TranslatorTypeOK
  /\ pc \in {"idle", "hevent", "aevent", "assns", "done", "failed", "unwound", "died"}
  /\ module \in Modules
  /\ batch \subseteq Ids

\* The batch of a job that dies is lost, and that of a failed LoadbalancingOutput job.
BatchIsLost == pc = "died" \/ (pc = "unwound" /\ module = "LoadbalancingOutput")

\* A pointer in the store points to a product that is there or still in the batch
\* of the job, and to one that is there once the job is over: after a failure too
\* where the destructor flushes.  Only a job that dies and a LoadbalancingOutput
\* job that fails leave a pointer without its product.
PointersHaveProducts ==
  ~ BatchIsLost =>
    \A p \in pointers :
      p.to \in stored \/ (pc \notin {"done", "unwound"} /\ p.to \in batch)

\* A job fails only on an association one of whose ends was dropped: whatever
\* order products and associations come in, the map is filled before it is used.
FailsOnlyOnDroppedEnds ==
  pc \in {"failed", "unwound"} => \E a \in links[event] : Ends[a] \cap Dropped # {}

\* Every product of a stored type that was not dropped is in the store of its own
\* event when a job of these two modules has ended, what waited in the batch included.
EveryProductStored ==
  module \in Modules /\ pc = "done" =>
    \A e \in Events : \A n \in (content[e] \cap StoredNames) \ Dropped :
      \E id \in stored : id.event = e /\ id.name = n
===============================================================================
