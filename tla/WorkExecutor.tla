----------------------------- MODULE WorkExecutor -----------------------------
(***************************************************************************)
(* What HepnosDataStore promises the art modules that call it: a function  *)
(* handed over with set_work_function / set_work_state / wait behaves like *)
(* a synchronous call made on the thread that owns the HEPnOS connection.  *)
(* One job is in flight at a time, it runs once, and the caller continues  *)
(* only when it has run.                                                   *)
(***************************************************************************)
EXTENDS Naturals

CONSTANT NJobs     \* jobs submitted in the life of the service

VARIABLES
  phase,   \* where the current job is: "ready", "submitted", "executed", "stopped"
  job,     \* number of the job that is, or is next to be, submitted
  ran      \* how often each job has been executed

avars == <<phase, job, ran>>

Jobs == 1..NJobs

Init ==
  /\ phase = "ready"
  /\ job = 1
  /\ ran = [j \in Jobs |-> 0]

\* The caller hands the next job to the executor.
Submit ==
  /\ phase = "ready"
  /\ job \in Jobs
  /\ phase' = "submitted"
  /\ UNCHANGED <<job, ran>>

\* The executor runs it.
Execute ==
  /\ phase = "submitted"
  /\ ran' = [ran EXCEPT ![job] = @ + 1]
  /\ phase' = "executed"
  /\ UNCHANGED job

\* The caller continues.
Return ==
  /\ phase = "executed"
  /\ job' = job + 1
  /\ phase' = "ready"
  /\ UNCHANGED ran

\* The service is gone; every job has been through.
Stop ==
  /\ phase = "ready"
  /\ job \notin Jobs
  /\ phase' = "stopped"
  /\ UNCHANGED <<job, ran>>

Next == Submit \/ Execute \/ Return \/ Stop

SafeSpec == Init /\ [][Next]_avars
===============================================================================
