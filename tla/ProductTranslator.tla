--------------------------- MODULE ProductTranslator ---------------------------
(***************************************************************************)
(* What the HEPnOS output modules share: the events an art job gives them, *)
(* the translator_ map from art product ids to HEPnOS product ids, and the *)
(* associations, stored as pairs of pointers made from that map.           *)
(*                                                                         *)
(* An art product id is a hash of the product's name and the same in every *)
(* event, so a name stands for it; a HEPnOS id belongs to one event.  The  *)
(* map is a member of the module and is never cleared.                     *)
(*                                                                         *)
(* A module stores the types it names in its code and no other: a product  *)
(* of any other type, a track or a shower, is passed over without a word.  *)
(***************************************************************************)
EXTENDS Naturals, FiniteSets

CONSTANTS
  NEvents,      \* events the job writes
  DataNames,    \* names of the data products
  AssnNames,    \* names of the association collections
  Ends,         \* the data products each association collection points into
  StoredNames,  \* names of the data products of a type the module stores
  StoredAssns   \* names of the associations of a type the module stores

ASSUME NEventsAssumption == NEvents \in Nat
ASSUME NamesAssumption == DataNames \cap AssnNames = {}
ASSUME EndsAssumption == Ends \in [AssnNames -> SUBSET DataNames]

\* The types on both sides of every association type a module stores are among the
\* product types it stores.
ASSUME TypesAssumption ==
  /\ StoredNames \subseteq DataNames
  /\ StoredAssns \subseteq AssnNames
  /\ \A a \in StoredAssns : Ends[a] \subseteq StoredNames

VARIABLES
  module,       \* the output module of the job
  pc,           \* where write() is; "idle" between events
  event,        \* number of the current event
  content,      \* history: the data products of each event written
  links,        \* history: the association collections of each event
  pending,      \* products or associations the current loop has still to visit
  translator_,  \* HEPnOS ids by product name
  stored,       \* HEPnOS ids of the data products in the store
  pointers      \* pointers of the stored associations: [from, assn, to]

writeVars == <<event, content, links>>

Events == 1..NEvents
Id(e, n, process) == [event |-> e, name |-> n, process |-> process]
Ids == [event : Events, name : DataNames, process : {"previous", "current"}]

\* std::map::insert: a key that is already there keeps its value.
Insert(map, more) ==
  [n \in DOMAIN map \cup DOMAIN more |->
     IF n \in DOMAIN map THEN map[n] ELSE more[n]]

TranslatorInit ==
  /\ pc = "idle"
  /\ event = 0
  /\ content = [e \in Events |-> {}]
  /\ links = [e \in Events |-> {}]
  /\ pending = {}
  /\ translator_ = [n \in {} |-> Id(1, n, "current")]
  /\ stored = {}
  /\ pointers = {}

\* Mutant: the job goes on after its last event.
WriteMut(first, read) ==
  /\ pc = "idle"
  /\ event' = event + 1
  /\ pc' = first
  /\ UNCHANGED <<content, links, pending, translator_, stored, pointers>>

\* The job processes the next event and calls write.  `old` are the products the
\* event has in HEPnOS from the process before; the job read those named `read`
\* from there.  An association in the event points to products of the event.
Write(first, read) ==
  /\ pc = "idle"
  /\ event < NEvents
  /\ event' = event + 1
  /\ \E data \in SUBSET DataNames, old \in SUBSET StoredNames,
        assns \in SUBSET AssnNames :
       /\ data \cap read \subseteq old
       /\ \A a \in assns : Ends[a] \subseteq data
       /\ content' = [content EXCEPT ![event + 1] = data]
       /\ links' = [links EXCEPT ![event + 1] = assns]
       /\ stored' = stored \cup {Id(event + 1, n, "previous") : n \in old}
       /\ pc' = IF data \cup assns = {} THEN "idle" ELSE first
  /\ UNCHANGED <<pending, translator_, pointers>>

\* The ids HEPnOS lists for the event are entered in the map first, each under the
\* art id the module takes it for: `listed`.
UpdateMapHevent(listed, next, visit) ==
  /\ pc = "hevent"
  /\ translator_' = Insert(translator_, listed)
  /\ pc' = next
  /\ pending' = visit
  /\ UNCHANGED <<writeVars, stored, pointers>>

\* Both pointers of every pair come out of the map.
Pointers(a) ==
  {[from |-> event, assn |-> a, to |-> translator_[n]] : n \in Ends[a]}

\* One turn of the association loop: the collection goes to the store at once.
StoreAssn(a) ==
  /\ pc = "assns"
  /\ a \in pending
  /\ Ends[a] \subseteq DOMAIN translator_
  /\ pointers' = pointers \cup Pointers(a)
  /\ pending' = pending \ {a}
  /\ UNCHANGED <<writeVars, pc, translator_, stored>>

\* std::map::at throws for an id that is not in the map: the job fails.
TranslationFails(a) ==
  /\ pc = "assns"
  /\ a \in pending
  /\ ~ Ends[a] \subseteq DOMAIN translator_
  /\ pc' = "failed"
  /\ UNCHANGED <<writeVars, pending, translator_, stored, pointers>>

\* write returns.
WriteEnds ==
  /\ pc = "assns"
  /\ pending = {}
  /\ pc' = "idle"
  /\ UNCHANGED <<writeVars, pending, translator_, stored, pointers>>

-------------------------------------------------------------------------------
(* Properties *)

TranslatorTypeOK ==
  /\ event \in 0..NEvents
  /\ content \in [Events -> SUBSET DataNames]
  /\ links \in [Events -> SUBSET AssnNames]
  /\ pending \subseteq DataNames \cup AssnNames
  /\ DOMAIN translator_ \subseteq DataNames
  /\ \A n \in DOMAIN translator_ : translator_[n] \in Ids
  /\ stored \subseteq Ids
  /\ pointers \subseteq [from : Events, assn : AssnNames, to : Ids]

\* The map holds the ids of the event whose associations are made from it.
PointersStayInTheEvent == \A p \in pointers : p.to.event = p.from
===============================================================================
