----------------------------- MODULE HepnosOutput -----------------------------
(***************************************************************************)
(* write() of HepnosOutput: no batch, every product goes to the store at   *)
(* once, and a product whose id the map already has is passed over.  The   *)
(* names that BatchedOutput has as well start with Plain here.             *)
(***************************************************************************)
EXTENDS ProductTranslator

CONSTANT Origin   \* the process in whose name art has each product

ASSUME OriginAssumption == Origin \in [DataNames -> {"previous", "current"}]

plainVars == <<module, pc, event, content, links, pending, translator_, stored, pointers>>

\* The id under which a product of art is stored: its tag names its own process.
OwnId(n) == Id(event, n, Origin[n])

\* listProducts: a listed id is taken for the art product of its own process, so one
\* that another process stored is not found by the products of this job.
OwnListed == [n \in {m \in DataNames : OwnId(m) \in stored} |-> OwnId(n)]

\* Mutant: the product is stored and its id is not entered in the map.
StoreProductMut(n) ==
  /\ pc = "products"
  /\ n \in pending
  /\ stored' = stored \cup {OwnId(n)}
  /\ pending' = pending \ {n}
  /\ UNCHANGED <<writeVars, pc, translator_, pointers>>

\* Mutant: the id is entered in the map and the product is not stored.
StoreProductMut2(n) ==
  /\ pc = "products"
  /\ n \in pending
  /\ translator_' = Insert(translator_, [m \in {n} |-> OwnId(n)])
  /\ pending' = pending \ {n}
  /\ UNCHANGED <<writeVars, pc, stored, pointers>>

\* One turn of the product loop: a product of another type is passed over, and so
\* is one whose art id the map already has.
StoreProduct(n) ==
  /\ pc = "products"
  /\ n \in pending
  /\ IF n \in DOMAIN translator_ \/ n \notin StoredNames
       THEN UNCHANGED <<translator_, stored>>
       ELSE /\ translator_' =
                 Insert(translator_, [m \in {n} |-> OwnId(n)])
            /\ stored' = stored \cup {OwnId(n)}
  /\ pending' = pending \ {n}
  /\ UNCHANGED <<writeVars, pc, pointers>>

ProductsDone ==
  /\ pc = "products"
  /\ pending \cap DataNames = {}
  /\ pc' = "assns"
  /\ pending' = links[event] \cap StoredAssns
  /\ UNCHANGED <<writeVars, translator_, stored, pointers>>

EndJob ==
  /\ pc = "idle"
  /\ pc' = "done"
  /\ UNCHANGED <<writeVars, pending, translator_, stored, pointers>>

PlainTerminated == pc = "done" /\ UNCHANGED plainVars

PlainNext ==
  \/ Write("hevent", {})
  \/ UpdateMapHevent(OwnListed, "products", content[event])
  \/ \E n \in DataNames : StoreProduct(n)
  \/ ProductsDone
  \/ \E a \in AssnNames : StoreAssn(a)
  \/ WriteEnds \/ EndJob \/ PlainTerminated

-------------------------------------------------------------------------------
(* Properties *)

PlainTypeOK ==
  /\ TranslatorTypeOK
  /\ pc \in {"idle", "hevent", "products", "assns", "done"}

\* Whatever order the products of an event come in, both pointers of every
\* association of a stored type are in the map when the association loop starts:
\* at() never throws, and each pointer leads to a product in the store.
MapIsComplete ==
  module = "HepnosOutput" =>
    /\ pc = "assns" =>
         \A a \in links[event] \cap StoredAssns : Ends[a] \subseteq DOMAIN translator_
    /\ \A p \in pointers : p.to \in stored

\* The comment over the product loop says it is to "store all the products".  The map
\* has the art ids of every event before, so of a product that events have in common
\* only the first copy is: when the job has ended, each product of a stored type is in
\* the store under the event it came with or an earlier one, and one that this process
\* made under no event but the first that came with it.
FirstCopyIsStored ==
  module = "HepnosOutput" /\ pc = "done" =>
    \A e \in Events : \A n \in content[e] \cap StoredNames :
      /\ \E id \in stored : id.name = n /\ id.process = Origin[n] /\ id.event <= e
      /\ Id(e, n, "current") \in stored => \A d \in 1..(e - 1) : n \notin content[d]
===============================================================================
