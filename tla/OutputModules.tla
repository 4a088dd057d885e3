----------------------------- MODULE OutputModules -----------------------------
(***************************************************************************)
(* An art job that writes to HEPnOS, with the output module its fcl file   *)
(* names: HepnosSPOutput or LoadbalancingOutput (BatchedOutput), or        *)
(* HepnosOutput.                                                           *)
(***************************************************************************)
EXTENDS BatchedOutput, HepnosOutput

\* The job builds the module: its map and its batch are empty.
Init ==
  /\ TranslatorInit
  /\ batch = {}
  /\ module \in Modules \cup {"HepnosOutput"}

Next ==
  \/ module \in Modules /\ BatchedNext
  \/ module = "HepnosOutput" /\ PlainNext /\ UNCHANGED <<module, batch>>

Spec == Init /\ [][Next]_vars

-------------------------------------------------------------------------------
(* Properties *)

\* The types of the state of a job, where each module has its own places in write.
JobTypeOK == TypeOK \/ (module = "HepnosOutput" /\ batch = {} /\ PlainTypeOK)
===============================================================================
