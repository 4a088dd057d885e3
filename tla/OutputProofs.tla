----------------------------- MODULE OutputProofs -----------------------------
(***************************************************************************)
(* Theorems about the output modules, for a job with any of the three and  *)
(* any number of events, any products and associations in whatever order   *)
(* write() comes to them, any choice of stored types, any drop commands.   *)
(***************************************************************************)
EXTENDS OutputModules, TLAPS

-------------------------------------------------------------------------------
(* BatchedOutput *)

\* Products that are stored or that the job still has to store.
Kept == stored \cup batch

\* The ids in the map and in the stored pointers are ids of kept products.
MapIsKept ==
  ~ BatchIsLost =>
    /\ \A n \in DOMAIN translator_ : translator_[n] \in Kept
    /\ \A p \in pointers : p.to \in Kept

\* How far write() has got with the products of the current event.
ContentMapped ==
  /\ pc = "hevent" =>
       \A n \in content[event] \cap Forwarded : Id(event, n, "previous") \in stored
  /\ pc = "aevent" =>
       \A n \in content[event] \cap Forwarded :
         n \in DOMAIN translator_ /\ Id(event, n, "previous") \in stored
  /\ pc \in {"assns", "failed"} =>
       \A n \in (content[event] \cap StoredNames) \ Dropped : n \in DOMAIN translator_

\* The associations of an event point to products of the event, and the loop visits
\* those of a stored type.
LinksInside ==
  /\ \A e \in Events : \A a \in links[e] : Ends[a] \subseteq content[e]
  /\ pc \in {"assns", "failed"} => pending \subseteq links[event] \cap StoredAssns

\* Events write() is through with keep a copy of every product of a stored type that
\* was not dropped.
WrittenIsKept ==
  ~ BatchIsLost =>
    \A e \in Events :
      (e < event \/ (e = event /\ pc \notin {"hevent", "aevent"})) =>
        \A n \in (content[e] \cap StoredNames) \ Dropped :
          \E id \in Kept : id.event = e /\ id.name = n

\* Events still to come have no products; inside write() there is an event.
EventsAhead ==
  /\ \A e \in Events : e > event => content[e] = {} /\ links[e] = {}
  /\ pc \in {"hevent", "aevent", "assns", "failed", "unwound"} => event \in Events
  /\ pc \in {"done", "unwound"} => batch = {}

IInv ==
  /\ TypeOK
  /\ MapIsKept
  /\ ContentMapped
  /\ LinksInside
  /\ WrittenIsKept
  /\ EventsAhead
  /\ FailsOnlyOnDroppedEnds

\* A job starts with an empty map, an empty batch and no event written.
LEMMA IInvInit == Init /\ module \in Modules => IInv
BY NEventsAssumption, NamesAssumption, EndsAssumption, CommandsAssumption, TypesAssumption
   DEF Init, TranslatorInit, IInv, TypeOK, TranslatorTypeOK, MapIsKept, BatchIsLost, ContentMapped,
       LinksInside, WrittenIsKept, EventsAhead, FailsOnlyOnDroppedEnds, Events, Ids, Id

\* insert adds keys and gives a new key the new value, an old key the old one.
LEMMA InsertFacts ==
  ASSUME NEW map, NEW more
  PROVE  /\ DOMAIN Insert(map, more) = DOMAIN map \cup DOMAIN more
         /\ \A n \in DOMAIN Insert(map, more) :
              \/ n \in DOMAIN map /\ Insert(map, more)[n] = map[n]
              \/ n \in DOMAIN more /\ Insert(map, more)[n] = more[n]
BY DEF Insert

\* The next event: its forwarded products are in the store from the process before.
LEMMA WriteKeeps ==
  ASSUME IInv, Write("hevent", Forwarded), UNCHANGED <<module, batch>>
  PROVE  IInv'
<1> USE NEventsAssumption, NamesAssumption, EndsAssumption, CommandsAssumption, TypesAssumption
    DEF IInv, Write, Events
<1>1. PICK data \in SUBSET DataNames, old \in SUBSET StoredNames, assns \in SUBSET AssnNames :
        /\ data \cap Forwarded \subseteq old
        /\ \A a \in assns : Ends[a] \subseteq data
        /\ content' = [content EXCEPT ![event + 1] = data]
        /\ links' = [links EXCEPT ![event + 1] = assns]
        /\ stored' = stored \cup {Id(event + 1, n, "previous") : n \in old}
        /\ pc' = IF data \cup assns = {} THEN "idle" ELSE "hevent"
  OBVIOUS
<1>2. /\ event \in Nat
      /\ event' = event + 1
      /\ event + 1 \in 1..NEvents
      /\ pc = "idle"
      /\ content \in [1..NEvents -> SUBSET DataNames]
      /\ links \in [1..NEvents -> SUBSET AssnNames]
      /\ UNCHANGED <<pending, translator_, pointers, module, batch>>
  BY DEF TypeOK, TranslatorTypeOK
<1>3. /\ content'[event + 1] = data
      /\ links'[event + 1] = assns
      /\ \A e \in 1..NEvents :
           e # event + 1 => content'[e] = content[e] /\ links'[e] = links[e]
  BY <1>1, <1>2
<1>4. TypeOK'
  BY <1>1, <1>2 DEF TypeOK, TranslatorTypeOK, Ids, Id
<1>5. MapIsKept'
  BY <1>1, <1>2 DEF MapIsKept, BatchIsLost, Kept
<1>6. ContentMapped'
  BY <1>1, <1>2, <1>3 DEF ContentMapped
<1>7. LinksInside'
  <2>1. \A e \in Events : \A a \in links'[e] : Ends[a] \subseteq content'[e]
    BY <1>1, <1>2, <1>3 DEF LinksInside
  <2> QED
    BY <2>1, <1>1, <1>2 DEF LinksInside
<1>8. WrittenIsKept'
  <2> SUFFICES ASSUME NEW e \in Events,
                      e < event + 1 \/ (e = event + 1 /\ pc' \notin {"hevent", "aevent"}),
                      NEW n \in (content'[e] \cap StoredNames) \ Dropped
               PROVE  \E id \in Kept' : id.event = e /\ id.name = n
    BY <1>2 DEF WrittenIsKept, BatchIsLost
  <2>1. e < event + 1
    BY <1>1, <1>2, <1>3
  <2>2. content'[e] = content[e]
    BY <1>2, <1>3, <2>1
  <2>3. e < event \/ e = event
    BY <1>2, <2>1
  <2>4. \E id \in Kept : id.event = e /\ id.name = n
    BY <1>2, <2>2, <2>3 DEF WrittenIsKept, BatchIsLost
  <2> QED
    BY <1>1, <1>2, <2>4 DEF Kept
<1>9. EventsAhead'
  BY <1>1, <1>2, <1>3 DEF EventsAhead
<1>10. FailsOnlyOnDroppedEnds'
  BY <1>1 DEF FailsOnlyOnDroppedEnds
<1> QED
  BY <1>4, <1>5, <1>6, <1>7, <1>8, <1>9, <1>10

\* update_map_hevent only adds ids of products that are in the store.
LEMMA UpdateMapHeventKeeps ==
  ASSUME IInv, UpdateMapHevent(Listed, "aevent", {}), UNCHANGED <<module, batch>>
  PROVE  IInv'
<1> USE DEF IInv, UpdateMapHevent, writeVars
<1>1. /\ DOMAIN Listed = {m \in DataNames : Id(event, m, "previous") \in stored}
      /\ \A n \in DOMAIN Listed : Listed[n] = Id(event, n, "previous") /\ Listed[n] \in stored
  BY DEF Listed
<1>2. /\ DOMAIN translator_' = DOMAIN translator_ \cup DOMAIN Listed
      /\ \A n \in DOMAIN translator_' :
           \/ n \in DOMAIN translator_ /\ translator_'[n] = translator_[n]
           \/ n \in DOMAIN Listed /\ translator_'[n] = Listed[n]
  BY InsertFacts
<1>3. TypeOK'
  BY <1>1, <1>2 DEF TypeOK, TranslatorTypeOK
<1>4. MapIsKept'
  BY <1>1, <1>2 DEF MapIsKept, BatchIsLost, Kept
<1>5. ContentMapped'
  <2>1. \A n \in content[event] \cap Forwarded :
          n \in DataNames /\ Id(event, n, "previous") \in stored
    BY CommandsAssumption, TypesAssumption DEF ContentMapped
  <2> QED
    BY <2>1, <1>1, <1>2 DEF ContentMapped
<1>6. LinksInside'
  BY DEF LinksInside
<1>7. WrittenIsKept'
  BY DEF WrittenIsKept, BatchIsLost, Kept
<1>8. EventsAhead' /\ FailsOnlyOnDroppedEnds'
  BY DEF EventsAhead, FailsOnlyOnDroppedEnds
<1> QED
  BY <1>3, <1>4, <1>5, <1>6, <1>7, <1>8

\* update_map_aevent batches what it enters; with the forwarded products every
\* product that is not dropped is then in the map.
LEMMA UpdateMapAeventKeeps ==
  ASSUME IInv, UpdateMapAevent
  PROVE  IInv'
<1>1. /\ DOMAIN New = Wanted
      /\ \A n \in Wanted : New[n] = Id(event, n, "current") /\ New[n] \in batch'
  <2>1. DOMAIN New = Wanted /\ \A n \in Wanted : New[n] = Id(event, n, "current")
    BY DEF New
  <2> QED
    BY <2>1 DEF UpdateMapAevent
<1>2. /\ DOMAIN translator_' = DOMAIN translator_ \cup DOMAIN New
      /\ \A n \in DOMAIN translator_' :
           \/ n \in DOMAIN translator_ /\ translator_'[n] = translator_[n]
           \/ n \in DOMAIN New /\ translator_'[n] = New[n]
  <2>1. translator_' = Insert(translator_, New)
    BY DEF UpdateMapAevent
  <2> QED
    BY <2>1, InsertFacts
<1> USE DEF IInv, UpdateMapAevent, writeVars
<1>3. event \in Events /\ content[event] \subseteq DataNames /\ links[event] \subseteq AssnNames
  BY DEF EventsAhead, TypeOK, TranslatorTypeOK
<1>4. \A n \in Wanted : New[n] \in Ids
  <2>1. \A n \in DataNames : Id(event, n, "current") \in Ids
    BY <1>3 DEF Ids, Id
  <2>2. Wanted \subseteq DataNames
    BY <1>3 DEF Wanted
  <2> QED
    BY <1>1, <2>1, <2>2
<1>5. TypeOK'
  BY <1>1, <1>2, <1>3, <1>4 DEF TypeOK, TranslatorTypeOK, Wanted, Visited
<1>6. MapIsKept'
  BY <1>1, <1>2 DEF MapIsKept, BatchIsLost, Kept
<1>7. ContentMapped'
  BY <1>1, <1>2 DEF ContentMapped, Wanted
<1>8. LinksInside'
  BY DEF LinksInside, Visited
<1>9. WrittenIsKept'
  <2> SUFFICES ASSUME NEW e \in Events, e < event \/ e = event,
                      NEW n \in (content[e] \cap StoredNames) \ Dropped
               PROVE  \E id \in Kept' : id.event = e /\ id.name = n
    BY DEF WrittenIsKept, BatchIsLost
  <2>1. CASE e < event
    BY <2>1 DEF WrittenIsKept, BatchIsLost, Kept
  <2>2. CASE e = event /\ n \in Forwarded
    <3>1. Id(event, n, "previous") \in Kept'
      BY <2>2 DEF ContentMapped, Kept
    <3> QED
      BY <2>2, <3>1 DEF Id
  <2>3. CASE e = event /\ n \notin Forwarded
    <3>1. Id(event, n, "current") \in Kept'
      BY <2>3, <1>1 DEF Wanted, Kept
    <3> QED
      BY <2>3, <3>1 DEF Id
  <2> QED
    BY <2>1, <2>2, <2>3
<1>10. EventsAhead' /\ FailsOnlyOnDroppedEnds'
  BY DEF EventsAhead, FailsOnlyOnDroppedEnds
<1> QED
  BY <1>5, <1>6, <1>7, <1>8, <1>9, <1>10

\* The association loop takes its pointers from the map.
LEMMA StoreAssnKeeps ==
  ASSUME IInv, NEW a \in AssnNames, StoreAssn(a), UNCHANGED <<module, batch>>
  PROVE  IInv'
<1> USE DEF IInv, StoreAssn, Pointers, writeVars
<1>1. \A p \in pointers' :
        \/ p \in pointers
        \/ \E n \in DOMAIN translator_ : p = [from |-> event, assn |-> a, to |-> translator_[n]]
  OBVIOUS
<1>2. event \in Events
  BY DEF EventsAhead
<1>3. TypeOK'
  BY <1>1, <1>2 DEF TypeOK, TranslatorTypeOK
<1>4. MapIsKept'
  BY <1>1 DEF MapIsKept, BatchIsLost, Kept
<1>5. ContentMapped' /\ LinksInside'
  BY DEF ContentMapped, LinksInside
<1>6. WrittenIsKept'
  BY DEF WrittenIsKept, BatchIsLost, Kept
<1>7. EventsAhead' /\ FailsOnlyOnDroppedEnds'
  BY DEF EventsAhead, FailsOnlyOnDroppedEnds
<1> QED
  BY <1>3, <1>4, <1>5, <1>6, <1>7

\* The only ends that are not in the map are those of dropped products.
LEMMA TranslationFailsKeeps ==
  ASSUME IInv, NEW a \in AssnNames, TranslationFails(a), UNCHANGED <<module, batch>>
  PROVE  IInv'
<1> USE DEF IInv, TranslationFails, writeVars
<1>1. event \in Events
  BY DEF EventsAhead
<1>2. FailsOnlyOnDroppedEnds'
  <2>1. a \in links[event] /\ Ends[a] \subseteq content[event] \cap StoredNames
    BY <1>1, TypesAssumption DEF LinksInside
  <2>2. \A n \in (content[event] \cap StoredNames) \ Dropped : n \in DOMAIN translator_
    BY DEF ContentMapped
  <2>3. Ends[a] \cap Dropped # {}
    BY <2>1, <2>2
  <2> QED
    BY <2>1, <2>3 DEF FailsOnlyOnDroppedEnds
<1>3. TypeOK' /\ MapIsKept'
  BY DEF TypeOK, TranslatorTypeOK, MapIsKept, BatchIsLost, Kept
<1>4. ContentMapped' /\ LinksInside'
  BY DEF ContentMapped, LinksInside
<1>5. WrittenIsKept' /\ EventsAhead'
  BY DEF WrittenIsKept, BatchIsLost, Kept, EventsAhead
<1> QED
  BY <1>2, <1>3, <1>4, <1>5

\* The engine and the flush move products from the batch to the store.
LEMMA AsyncStoreKeeps ==
  ASSUME IInv, AsyncStore
  PROVE  IInv'
<1> USE DEF IInv, AsyncStore, writeVars
<1>1. Kept' = Kept /\ stored \subseteq stored' /\ batch' \subseteq batch /\ stored' \subseteq Kept
  BY DEF Kept
<1>2. TypeOK'
  BY <1>1 DEF TypeOK, TranslatorTypeOK, Kept
<1>3. MapIsKept' /\ WrittenIsKept'
  BY <1>1 DEF MapIsKept, BatchIsLost, WrittenIsKept
<1>4. ContentMapped'
  BY <1>1 DEF ContentMapped
<1>5. LinksInside' /\ EventsAhead' /\ FailsOnlyOnDroppedEnds'
  BY <1>1 DEF LinksInside, EventsAhead, FailsOnlyOnDroppedEnds
<1> QED
  BY <1>2, <1>3, <1>4, <1>5

\* The flush at the end stores what is left of the batch.
LEMMA FlushKeeps ==
  ASSUME IInv, Flush
  PROVE  IInv'
<1> USE DEF IInv, Flush, writeVars
<1>1. Kept' = Kept /\ stored \subseteq stored'
  BY DEF Kept
<1>2. TypeOK'
  BY DEF TypeOK, TranslatorTypeOK
<1>3. MapIsKept' /\ WrittenIsKept'
  BY <1>1 DEF MapIsKept, BatchIsLost, WrittenIsKept
<1>4. ContentMapped' /\ LinksInside' /\ EventsAhead' /\ FailsOnlyOnDroppedEnds'
  BY DEF ContentMapped, LinksInside, EventsAhead, FailsOnlyOnDroppedEnds
<1> QED
  BY <1>2, <1>3, <1>4

\* After a failure the batch is flushed or, with the claims about it, lost.
LEMMA UnwindKeeps ==
  ASSUME IInv, Unwind
  PROVE  IInv'
<1> USE DEF IInv, Unwind, writeVars
<1>1. BatchIsLost' \/ (Kept' = Kept /\ ~ BatchIsLost)
  BY DEF BatchIsLost, Kept, Modules, TypeOK
<1>2. TypeOK'
  BY DEF TypeOK, TranslatorTypeOK
<1>3. MapIsKept' /\ WrittenIsKept'
  BY <1>1 DEF MapIsKept, WrittenIsKept
<1>4. ContentMapped' /\ LinksInside' /\ EventsAhead' /\ FailsOnlyOnDroppedEnds'
  BY DEF ContentMapped, LinksInside, EventsAhead, FailsOnlyOnDroppedEnds
<1> QED
  BY <1>2, <1>3, <1>4

\* A death loses the batch, and with it what is claimed of kept products.
LEMMA DieKeeps ==
  ASSUME IInv, Die
  PROVE  IInv'
BY DEF IInv, Die, writeVars, TypeOK, TranslatorTypeOK, MapIsKept, BatchIsLost, ContentMapped,
       LinksInside, WrittenIsKept, EventsAhead, FailsOnlyOnDroppedEnds

\* write() returns: the current event is one of the written ones.
LEMMA WriteEndsKeeps ==
  ASSUME IInv, WriteEnds, UNCHANGED <<module, batch>>
  PROVE  IInv'
<1> USE DEF IInv, WriteEnds, writeVars
<1>1. TypeOK' /\ MapIsKept' /\ WrittenIsKept'
  BY DEF TypeOK, TranslatorTypeOK, MapIsKept, BatchIsLost, WrittenIsKept, Kept
<1>2. ContentMapped' /\ LinksInside' /\ EventsAhead' /\ FailsOnlyOnDroppedEnds'
  BY DEF ContentMapped, LinksInside, EventsAhead, FailsOnlyOnDroppedEnds
<1> QED
  BY <1>1, <1>2

\* A step that changes nothing keeps IInv.
LEMMA StutterKeeps == IInv /\ UNCHANGED vars => IInv'
BY DEF IInv, vars, TypeOK, TranslatorTypeOK, MapIsKept, BatchIsLost, ContentMapped, LinksInside,
       WrittenIsKept, EventsAhead, FailsOnlyOnDroppedEnds, Kept

\* Every action of write(), of the engine and of the end of a job keeps IInv.
LEMMA IInvStep == IInv /\ [BatchedNext]_vars => IInv'
<1> SUFFICES ASSUME IInv, [BatchedNext]_vars
             PROVE  IInv'
  OBVIOUS
<1>1. CASE Unbatched /\ UNCHANGED <<module, batch>>
  BY <1>1, WriteKeeps, UpdateMapHeventKeeps, StoreAssnKeeps, TranslationFailsKeeps,
     WriteEndsKeeps DEF Unbatched
<1>2. CASE UpdateMapAevent
  BY <1>2, UpdateMapAeventKeeps
<1>3. CASE AsyncStore
  BY <1>3, AsyncStoreKeeps
<1>4. CASE Flush
  BY <1>4, FlushKeeps
<1>5. CASE Die
  BY <1>5, DieKeeps
<1>6. CASE Unwind
  BY <1>6, UnwindKeeps
<1>7. CASE Terminated \/ UNCHANGED vars
  BY <1>7, StutterKeeps DEF Terminated
<1> QED
  BY <1>1, <1>2, <1>3, <1>4, <1>5, <1>6, <1>7 DEF BatchedNext

-------------------------------------------------------------------------------
(* HepnosOutput *)

USE NEventsAssumption, NamesAssumption, EndsAssumption, TypesAssumption, OriginAssumption

\* Where write() is inside an event.
Writing == {"hevent", "products", "assns"}

\* An entry of the map is the id of a stored product of its name and process, of this
\* event or an earlier one; the pointers were made from such entries.
MapIsStored ==
  /\ \A n \in DOMAIN translator_ :
       /\ translator_[n] \in stored
       /\ translator_[n].name = n
       /\ translator_[n].process = Origin[n]
       /\ translator_[n].event <= event
  /\ \A p \in pointers : p.to \in stored

\* The loops visit what is left of the event; products visited are in the map.
LoopsCover ==
  /\ pc \in Writing => event \in Events
  /\ pc = "products" =>
       /\ pending \subseteq content[event]
       /\ (content[event] \cap StoredNames) \ pending \subseteq DOMAIN translator_
  /\ pc = "assns" =>
       /\ pending \subseteq links[event] \cap StoredAssns
       /\ content[event] \cap StoredNames \subseteq DOMAIN translator_

PlainLinksInside == \A e \in Events : \A a \in links[e] : Ends[a] \subseteq content[e]

NothingAhead == \A e \in Events : e > event => content[e] = {}

\* Products of stored types of events write() is through with are in the map, and
\* stored, then or before.
WrittenIsStored ==
  \A e \in Events :
    (e < event \/ (e = event /\ pc \notin {"hevent", "products"})) =>
      \A n \in content[e] \cap StoredNames :
        /\ n \in DOMAIN translator_
        /\ \E id \in stored : id.name = n /\ id.process = Origin[n] /\ id.event <= e

\* What this process stored is of the first event that came with it.
FirstOnly ==
  \A id \in stored :
    /\ id.event <= event
    /\ id.process = "current" => \A d \in 1..(id.event - 1) : id.name \notin content[d]

PlainInv ==
  /\ PlainTypeOK
  /\ MapIsStored
  /\ LoopsCover
  /\ PlainLinksInside
  /\ NothingAhead
  /\ WrittenIsStored
  /\ FirstOnly

\* A job starts with an empty map and no event written.
LEMMA PlainInvInit == Init /\ module = "HepnosOutput" => PlainInv
BY DEF Init, TranslatorInit, PlainInv, PlainTypeOK, TranslatorTypeOK, MapIsStored, LoopsCover,
       PlainLinksInside, NothingAhead, WrittenIsStored, FirstOnly, Events, Writing, Ids, Id

\* The next event: nothing of it is written, and its links point inside it.
LEMMA PlainWriteKeeps ==
  ASSUME PlainInv, Write("hevent", {})
  PROVE  PlainInv'
<1> USE DEF PlainInv, Write, Events
<1>1. PICK data \in SUBSET DataNames, old \in SUBSET StoredNames, assns \in SUBSET AssnNames :
        /\ data \cap {} \subseteq old
        /\ \A a \in assns : Ends[a] \subseteq data
        /\ content' = [content EXCEPT ![event + 1] = data]
        /\ links' = [links EXCEPT ![event + 1] = assns]
        /\ stored' = stored \cup {Id(event + 1, n, "previous") : n \in old}
        /\ pc' = IF data \cup assns = {} THEN "idle" ELSE "hevent"
  OBVIOUS
<1>2. /\ event \in Nat
      /\ event' = event + 1
      /\ event + 1 \in 1..NEvents
      /\ pc = "idle"
      /\ content \in [1..NEvents -> SUBSET DataNames]
      /\ links \in [1..NEvents -> SUBSET AssnNames]
      /\ UNCHANGED <<pending, translator_, pointers>>
  BY DEF PlainTypeOK, TranslatorTypeOK
<1>3. /\ content'[event + 1] = data
      /\ links'[event + 1] = assns
      /\ \A e \in 1..NEvents :
           e # event + 1 => content'[e] = content[e] /\ links'[e] = links[e]
  BY <1>1, <1>2
<1>4. PlainTypeOK'
  BY <1>1, <1>2 DEF PlainTypeOK, TranslatorTypeOK, Ids, Id
<1>5. MapIsStored'
  <2>1. \A n \in DOMAIN translator_ : translator_[n].event \in Nat
    BY DEF PlainTypeOK, TranslatorTypeOK, Ids
  <2> QED
    BY <1>1, <1>2, <2>1 DEF MapIsStored
<1>6. LoopsCover'
  BY <1>1, <1>2 DEF LoopsCover, Writing
<1>7. PlainLinksInside'
  BY <1>1, <1>2, <1>3 DEF PlainLinksInside
<1>8. NothingAhead'
  BY <1>1, <1>2, <1>3 DEF NothingAhead
<1>9. WrittenIsStored'
  <2> SUFFICES ASSUME NEW e \in Events,
                      e < event + 1 \/ (e = event + 1 /\ pc' \notin {"hevent", "products"}),
                      NEW n \in content'[e] \cap StoredNames
               PROVE  /\ n \in DOMAIN translator_
                      /\ \E id \in stored' : id.name = n /\ id.process = Origin[n] /\ id.event <= e
    BY <1>2 DEF WrittenIsStored
  <2>1. e < event + 1
    BY <1>1, <1>2, <1>3
  <2>2. e < event \/ e = event
    BY <1>2, <2>1
  <2>3. content'[e] = content[e]
    BY <1>2, <1>3, <2>1
  <2>4. /\ n \in DOMAIN translator_
        /\ \E id \in stored : id.name = n /\ id.process = Origin[n] /\ id.event <= e
    BY <1>2, <2>2, <2>3 DEF WrittenIsStored
  <2> QED
    BY <1>1, <2>4
<1>10. FirstOnly'
  <2> SUFFICES ASSUME NEW id \in stored'
               PROVE  /\ id.event <= event + 1
                      /\ id.process = "current" =>
                           \A d \in 1..(id.event - 1) : id.name \notin content'[d]
    BY <1>2 DEF FirstOnly
  <2>1. CASE id \in stored
    <3>1. id.event \in 1..NEvents /\ id.event <= event
      BY <2>1 DEF PlainTypeOK, TranslatorTypeOK, Ids, FirstOnly
    <3>2. \A d \in 1..(id.event - 1) : content'[d] = content[d]
      BY <1>2, <1>3, <3>1
    <3> QED
      BY <1>2, <2>1, <3>1, <3>2 DEF FirstOnly
  <2>2. CASE id \notin stored
    BY <1>1, <1>2, <2>2 DEF Id
  <2> QED
    BY <2>1, <2>2
<1> QED
  BY <1>4, <1>5, <1>6, <1>7, <1>8, <1>9, <1>10

\* The products the event already has in the store enter the map.
LEMMA PlainUpdateMapHeventKeeps ==
  ASSUME PlainInv, UpdateMapHevent(OwnListed, "products", content[event])
  PROVE  PlainInv'
<1> USE DEF PlainInv, UpdateMapHevent, writeVars
<1>1. event \in Events /\ event \in Nat /\ content[event] \subseteq DataNames
  BY DEF LoopsCover, Writing, PlainTypeOK, TranslatorTypeOK, Events
<1>2. \A n \in DOMAIN OwnListed :
        /\ n \in DataNames
        /\ OwnListed[n] \in stored
        /\ OwnListed[n].name = n
        /\ OwnListed[n].process = Origin[n]
        /\ OwnListed[n].event = event
  BY DEF OwnListed, OwnId, Id
<1>3. /\ DOMAIN translator_' = DOMAIN translator_ \cup DOMAIN OwnListed
      /\ \A n \in DOMAIN translator_' :
           \/ n \in DOMAIN translator_ /\ translator_'[n] = translator_[n]
           \/ n \in DOMAIN OwnListed /\ translator_'[n] = OwnListed[n]
  <2>1. translator_' = Insert(translator_, OwnListed)
    OBVIOUS
  <2> QED
    BY ONLY <2>1, InsertFacts
<1>4. PlainTypeOK'
  BY <1>1, <1>2, <1>3 DEF PlainTypeOK, TranslatorTypeOK
<1>5. MapIsStored'
  BY <1>1, <1>2, <1>3 DEF MapIsStored
<1>6. LoopsCover'
  BY <1>1 DEF LoopsCover, Writing
<1>7. PlainLinksInside' /\ NothingAhead'
  BY DEF PlainLinksInside, NothingAhead
<1>8. WrittenIsStored' /\ FirstOnly'
  BY <1>3 DEF WrittenIsStored, FirstOnly
<1> QED
  BY <1>4, <1>5, <1>6, <1>7, <1>8

\* A product visited is in the map afterwards, and in the store.
LEMMA StoreProductKeeps ==
  ASSUME PlainInv, NEW n \in DataNames, StoreProduct(n)
  PROVE  PlainInv'
<1> USE DEF PlainInv, StoreProduct, writeVars
<1>1. event \in Events /\ event \in Nat
  BY DEF LoopsCover, Writing, PlainTypeOK, TranslatorTypeOK, Events
<1>2. OwnId(n) \in Ids
  BY <1>1 DEF OwnId, Id, Ids
<1>3. CASE n \in DOMAIN translator_ \/ n \notin StoredNames
  <2>1. UNCHANGED <<translator_, stored>>
    BY <1>3
  <2>2. PlainTypeOK' /\ MapIsStored'
    BY <2>1 DEF PlainTypeOK, TranslatorTypeOK, MapIsStored
  <2>3. LoopsCover'
    BY <1>3, <2>1 DEF LoopsCover, Writing
  <2>4. PlainLinksInside' /\ NothingAhead' /\ WrittenIsStored' /\ FirstOnly'
    BY <2>1 DEF PlainLinksInside, NothingAhead, WrittenIsStored, FirstOnly
  <2> QED
    BY <2>2, <2>3, <2>4
<1>4. CASE ~ (n \in DOMAIN translator_ \/ n \notin StoredNames)
  <2> DEFINE new == [m \in {n} |-> OwnId(n)]
  <2>1. /\ translator_' = Insert(translator_, new)
        /\ stored' = stored \cup {OwnId(n)}
    BY <1>4
  <2>2. DOMAIN new = {n} /\ new[n] = OwnId(n)
    OBVIOUS
  <2> HIDE DEF new
  <2>3. /\ DOMAIN translator_' = DOMAIN translator_ \cup {n}
        /\ \A m \in DOMAIN translator_' :
             \/ m \in DOMAIN translator_ /\ translator_'[m] = translator_[m]
             \/ m = n /\ translator_'[m] = OwnId(n)
    <3>1. translator_' = Insert(translator_, new)
      BY <2>1
    <3>2. /\ DOMAIN translator_' = DOMAIN translator_ \cup DOMAIN new
          /\ \A m \in DOMAIN translator_' :
               \/ m \in DOMAIN translator_ /\ translator_'[m] = translator_[m]
               \/ m \in DOMAIN new /\ translator_'[m] = new[m]
      BY ONLY <3>1, InsertFacts
    <3> QED
      BY ONLY <3>2, <2>2
  <2>4. PlainTypeOK'
    BY <1>1, <1>2, <2>1, <2>3 DEF PlainTypeOK, TranslatorTypeOK
  <2>5. MapIsStored'
    BY <1>1, <2>1, <2>3 DEF MapIsStored, OwnId, Id
  <2>6. LoopsCover'
    BY <2>3 DEF LoopsCover, Writing
  <2>7. PlainLinksInside' /\ NothingAhead'
    BY DEF PlainLinksInside, NothingAhead
  <2>8. WrittenIsStored'
    BY <2>1, <2>3 DEF WrittenIsStored
  <2>9. FirstOnly'
    <3>1. \A d \in 1..(event - 1) : n \notin content[d]
      BY <1>1, <1>4 DEF WrittenIsStored, Events
    <3> QED
      BY <1>1, <2>1, <3>1 DEF FirstOnly, OwnId, Id
  <2> QED
    BY <2>4, <2>5, <2>6, <2>7, <2>8, <2>9
<1> QED
  BY <1>3, <1>4

\* The association loop starts when no product is left: all of them are in the map.
LEMMA ProductsDoneKeeps ==
  ASSUME PlainInv, ProductsDone
  PROVE  PlainInv'
<1> USE DEF PlainInv, ProductsDone, writeVars
<1>1. event \in Events /\ event \in Nat
  BY DEF LoopsCover, Writing, PlainTypeOK, TranslatorTypeOK, Events
<1>2. content[event] \subseteq DataNames /\ links[event] \subseteq AssnNames
  BY <1>1 DEF PlainTypeOK, TranslatorTypeOK
<1>3. content[event] \cap StoredNames \subseteq DOMAIN translator_
  BY <1>2 DEF LoopsCover
<1>4. PlainTypeOK'
  BY <1>2 DEF PlainTypeOK, TranslatorTypeOK
<1>5. MapIsStored'
  BY DEF MapIsStored
<1>6. LoopsCover'
  BY <1>1, <1>3 DEF LoopsCover, Writing
<1>7. PlainLinksInside' /\ NothingAhead' /\ FirstOnly'
  BY DEF PlainLinksInside, NothingAhead, FirstOnly
<1>8. WrittenIsStored'
  <2> SUFFICES ASSUME NEW e \in Events, e < event \/ e = event, NEW n \in content[e] \cap StoredNames
               PROVE  /\ n \in DOMAIN translator_
                      /\ \E id \in stored : id.name = n /\ id.process = Origin[n] /\ id.event <= e
    BY DEF WrittenIsStored
  <2>1. CASE e < event
    BY <2>1 DEF WrittenIsStored
  <2>2. CASE e = event
    BY <2>2, <1>3 DEF MapIsStored
  <2> QED
    BY <2>1, <2>2
<1> QED
  BY <1>4, <1>5, <1>6, <1>7, <1>8

\* The pointers of an association are made from the map.
LEMMA PlainStoreAssnKeeps ==
  ASSUME PlainInv, NEW a \in AssnNames, StoreAssn(a)
  PROVE  PlainInv'
<1> USE DEF PlainInv, StoreAssn, Pointers, writeVars
<1>1. event \in Events
  BY DEF LoopsCover, Writing
<1>2. \A p \in pointers' :
        \/ p \in pointers
        \/ \E n \in DOMAIN translator_ : p = [from |-> event, assn |-> a, to |-> translator_[n]]
  OBVIOUS
<1>3. PlainTypeOK'
  BY <1>1, <1>2 DEF PlainTypeOK, TranslatorTypeOK
<1>4. MapIsStored'
  BY <1>2 DEF MapIsStored
<1>5. LoopsCover'
  BY DEF LoopsCover
<1>6. PlainLinksInside' /\ NothingAhead' /\ WrittenIsStored' /\ FirstOnly'
  BY DEF PlainLinksInside, NothingAhead, WrittenIsStored, FirstOnly
<1> QED
  BY <1>3, <1>4, <1>5, <1>6

\* write() returns, or the job ends, or nothing changes.
LEMMA RestKeeps ==
  ASSUME PlainInv, WriteEnds \/ EndJob \/ UNCHANGED plainVars
  PROVE  PlainInv'
<1> USE DEF PlainInv, WriteEnds, EndJob, plainVars, writeVars
<1>1. PlainTypeOK' /\ MapIsStored'
  BY DEF PlainTypeOK, TranslatorTypeOK, MapIsStored
<1>2. LoopsCover'
  BY DEF LoopsCover, Writing
<1>3. PlainLinksInside' /\ NothingAhead' /\ WrittenIsStored' /\ FirstOnly'
  BY DEF PlainLinksInside, NothingAhead, WrittenIsStored, FirstOnly
<1> QED
  BY <1>1, <1>2, <1>3

\* Every step of the job keeps PlainInv.
LEMMA PlainInvStep == PlainInv /\ [PlainNext]_plainVars => PlainInv'
BY PlainWriteKeeps, PlainUpdateMapHeventKeeps, StoreProductKeeps, ProductsDoneKeeps, PlainStoreAssnKeeps,
   RestKeeps DEF PlainNext, PlainTerminated

-------------------------------------------------------------------------------
(* A job with any of the modules *)

JobInv ==
  \/ module \in Modules /\ IInv
  \/ module = "HepnosOutput" /\ batch = {} /\ PlainInv

\* Whatever the module, the job starts in its invariant.
LEMMA JobInvInit == Init => JobInv
BY IInvInit, PlainInvInit DEF Init, JobInv

\* A job never changes its module, and every step keeps the invariant of that one.
LEMMA JobInvStep == JobInv /\ [Next]_vars => JobInv'
<1> SUFFICES ASSUME JobInv, [Next]_vars
             PROVE  JobInv'
  OBVIOUS
<1>1. CASE module \in Modules
  <2>1. IInv /\ [BatchedNext]_vars
    BY <1>1 DEF JobInv, Next, Modules
  <2>2. IInv'
    BY <2>1, IInvStep
  <2> QED
    BY <2>2 DEF JobInv, IInv, TypeOK
<1>2. CASE module = "HepnosOutput"
  <2>1. PlainInv /\ batch = {}
    BY <1>2 DEF JobInv, Modules
  <2>2. [PlainNext]_plainVars /\ UNCHANGED <<module, batch>>
    BY <1>2 DEF Next, Modules, vars, plainVars
  <2>3. PlainInv'
    BY <2>1, <2>2, PlainInvStep
  <2> QED
    BY <1>2, <2>1, <2>2, <2>3 DEF JobInv
<1> QED
  BY <1>1, <1>2 DEF JobInv

\* JobInv holds throughout.
LEMMA JobInvAlways == Spec => []JobInv
BY JobInvInit, JobInvStep, PTL DEF Spec

\* The types of a job's state, whatever its module and whatever it writes.
THEOREM OutputTypes == Spec => []JobTypeOK
<1>1. JobInv => JobTypeOK
  BY DEF JobInv, JobTypeOK, IInv, PlainInv
<1> QED
  BY JobInvAlways, <1>1, PTL

\* No pointer of a stored association dangles unless the job dies or is a failed one
\* of LoadbalancingOutput: its product is stored or batched, and stored once the
\* flush is done, that of HepnosSPOutput's destructor after a failure included.
\* Neither the order of the products, nor the engine's pace, nor a stale map entry
\* changes that.
THEOREM PointersAreKept == Spec => []PointersHaveProducts
<1>1. IInv => PointersHaveProducts
  BY DEF IInv, MapIsKept, BatchIsLost, EventsAhead, Kept, PointersHaveProducts
<1>2. PlainInv => PointersHaveProducts
  BY DEF PlainInv, MapIsStored, PointersHaveProducts
<1> QED
  BY JobInvAlways, <1>1, <1>2, PTL DEF JobInv

\* A job fails only on an association with an end that a drop command matches: the
\* map is filled with every other product of the event before it is used.
THEOREM OnlyDroppedEndsFail == Spec => []FailsOnlyOnDroppedEnds
<1>1. IInv => FailsOnlyOnDroppedEnds
  BY DEF IInv
<1>2. PlainInv => FailsOnlyOnDroppedEnds
  BY DEF PlainInv, PlainTypeOK, FailsOnlyOnDroppedEnds
<1> QED
  BY JobInvAlways, <1>1, <1>2, PTL DEF JobInv

\* After the flush every product of a stored type that was not dropped is in the
\* store of its own event, the forwarded ones by the copy of the process before.
THEOREM FlushStoresEverything == Spec => []EveryProductStored
<1>1. IInv => EveryProductStored
  <2> SUFFICES ASSUME IInv, pc = "done", NEW e \in Events, NEW n \in (content[e] \cap StoredNames) \ Dropped
               PROVE  \E id \in stored : id.event = e /\ id.name = n
    BY DEF EveryProductStored
  <2>1. Kept = stored
    BY DEF IInv, EventsAhead, Kept
  <2>2. CASE e > event
    BY <2>2 DEF IInv, EventsAhead
  <2>3. CASE e < event \/ e = event
    BY <2>1, <2>3 DEF IInv, WrittenIsKept, BatchIsLost
  <2> QED
    BY <2>2, <2>3, NEventsAssumption DEF IInv, TypeOK, TranslatorTypeOK, Events
<1>2. module = "HepnosOutput" => EveryProductStored
  BY DEF EveryProductStored, Modules
<1> QED
  BY JobInvAlways, <1>1, <1>2, PTL DEF JobInv

\* In whatever order products and associations come, at() finds both ends of every
\* association of a stored type, and no pointer leads to a product that is not in the store.
THEOREM AtNeverThrows == Spec => []MapIsComplete
<1>1. PlainInv => MapIsComplete
  BY DEF PlainInv, MapIsComplete, MapIsStored, LoopsCover, PlainLinksInside, Writing
<1>2. module \in Modules => MapIsComplete
  BY DEF MapIsComplete, Modules
<1> QED
  BY JobInvAlways, <1>1, <1>2, PTL DEF JobInv

\* Of a product that events have in common HepnosOutput stores the first copy and no
\* other, for any number of events: each product of a stored type is in the store
\* under its event or an earlier one, and one of this process only under the first.
THEOREM FirstCopiesAreStored == Spec => []FirstCopyIsStored
<1>1. PlainInv => FirstCopyIsStored
  <2> SUFFICES ASSUME PlainInv, pc = "done", NEW e \in Events, NEW n \in content[e] \cap StoredNames
               PROVE  /\ \E id \in stored : id.name = n /\ id.process = Origin[n] /\ id.event <= e
                      /\ Id(e, n, "current") \in stored => \A d \in 1..(e - 1) : n \notin content[d]
    BY DEF FirstCopyIsStored
  <2>1. e < event \/ e = event
    BY DEF PlainInv, NothingAhead, PlainTypeOK, TranslatorTypeOK, Events
  <2> QED
    BY <2>1 DEF PlainInv, WrittenIsStored, FirstOnly, Id
<1>2. module \in Modules => FirstCopyIsStored
  BY DEF FirstCopyIsStored, Modules
<1> QED
  BY JobInvAlways, <1>1, <1>2, PTL DEF JobInv
===============================================================================
