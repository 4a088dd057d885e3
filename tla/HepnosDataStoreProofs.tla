------------------------- MODULE HepnosDataStoreProofs -------------------------
(***************************************************************************)
(* What holds of the worker hand-over for every number of jobs: the types  *)
(* whatever the wakeups, and, until a wakeup is spurious, that every job   *)
(* is executed exactly once inside its own call and that the service       *)
(* implements the synchronous executor; and that, whatever the wakeups,    *)
(* each spurious one spoils at most two jobs.                              *)
(***************************************************************************)
EXTENDS HepnosDataStore, Integers, FiniteSetTheorems, TLAPS

-------------------------------------------------------------------------------
(* Types *)

\* The art thread has no job in hand any more.
Finalizing == {"deactivate", "raise_flag", "notify", "destroyed", "aborted"}

\* Where the worker is inside a function, and how far the jobs are.
TypeInv ==
  /\ TypeOK
  /\ worker = "running" => running \in Jobs
  /\ caller \notin Finalizing => job \in Jobs

\* The constructor leaves a well-typed state.
LEMMA TypeInvInit == Init => TypeInv
BY NJobsAssumption, MaxSpuriousAssumption
   DEF Init, TypeInv, TypeOK, Finalizing, Jobs, NoWork, CallerStates, WorkerStates

\* Every step of either thread, and every spurious wakeup, keeps the types.
LEMMA TypeInvStep == TypeInv /\ [Next]_vars => TypeInv'
<1> SUFFICES ASSUME TypeInv, [Next]_vars
             PROVE  TypeInv'
  OBVIOUS
<1> USE NJobsAssumption, MaxSpuriousAssumption
    DEF TypeInv, TypeOK, Finalizing, Jobs, NoWork, CallerStates, WorkerStates,
        callerVars, workerVars
<1>1. CASE Caller
  <2>1. CASE SetWorkFunction
    BY <2>1 DEF SetWorkFunction
  <2>2. CASE SetWorkStateRejected
    BY <2>2 DEF SetWorkStateRejected, AfterSubmission
  <2>3. CASE SetWorkStateLock
    BY <2>3 DEF SetWorkStateLock
  <2>4. CASE SetWorkStateStore
    BY <2>4 DEF SetWorkStateStore, AfterSubmission, WakeWorker
  <2>5. CASE ConstructorSpin
    BY <2>5 DEF ConstructorSpin, Continue
  <2>6. CASE WaitLock
    BY <2>6 DEF WaitLock
  <2>7. CASE WaitTest
    BY <2>7 DEF WaitTest, Continue
  <2>8. CASE WaitBlock
    BY <2>8 DEF WaitBlock
  <2>9. CASE WaitReturn
    BY <2>9 DEF WaitReturn, Continue
  <2>10. CASE FinalizeDeactivate
    BY <2>10 DEF FinalizeDeactivate
  <2>11. CASE FinalizeRaiseFlag
    BY <2>11 DEF FinalizeRaiseFlag
  <2>12. CASE FinalizeNotify
    BY <2>12 DEF FinalizeNotify, WakeWorker
  <2> QED
    BY <1>1, <2>1, <2>2, <2>3, <2>4, <2>5, <2>6, <2>7, <2>8, <2>9, <2>10, <2>11,
       <2>12 DEF Caller
<1>2. CASE Worker
  <2>1. CASE WorkerLock
    BY <2>1 DEF WorkerLock
  <2>2. CASE WorkerTest
    BY <2>2 DEF WorkerTest
  <2>3. CASE WorkerBlock
    BY <2>3 DEF WorkerBlock
  <2>4. CASE WorkerRelock
    BY <2>4 DEF WorkerRelock
  <2>5. CASE WorkerCheckActive
    BY <2>5 DEF WorkerCheckActive
  <2>6. CASE WorkerLockResume
    BY <2>6 DEF WorkerLockResume
  <2>7. CASE WorkerCall
    BY <2>7 DEF WorkerCall
  <2>8. CASE WorkerCallEmpty
    BY <2>8 DEF WorkerCallEmpty
  <2>9. CASE WorkerReturn
    BY <2>9 DEF WorkerReturn
  <2>10. CASE WorkerClear
    BY <2>10 DEF WorkerClear
  <2>11. CASE WorkerNotify
    BY <2>11 DEF WorkerNotify, WakeCaller
  <2> QED
    BY <1>2, <2>1, <2>2, <2>3, <2>4, <2>5, <2>6, <2>7, <2>8, <2>9, <2>10, <2>11
       DEF Worker
<1>3. CASE SpuriousWakeup
  <2>1. CASE CallerSpuriousWakeup
    BY <2>1 DEF CallerSpuriousWakeup
  <2>2. CASE WorkerSpuriousWakeup
    BY <2>2 DEF WorkerSpuriousWakeup
  <2> QED
    BY <1>3, <2>1, <2>2 DEF SpuriousWakeup
<1>4. CASE UNCHANGED vars
  BY <1>4 DEF vars
<1> QED
  BY <1>1, <1>2, <1>3, <1>4 DEF Next, Terminated

\* The types of the service's state, for every number of jobs and of spurious
\* wakeups: in particular the worker never counts a run of no job.
THEOREM TypeCorrect == SafeSpec => []TypeOK
<1>1. TypeInv => TypeOK
  BY DEF TypeInv
<1> QED
  BY TypeInvInit, TypeInvStep, <1>1, PTL DEF SafeSpec

-------------------------------------------------------------------------------
(* The hand-over without spurious wakeups *)

\* Which thread owns which mutex, by where it is.
LockInv ==
  /\ mutexHepnos = "worker" <=>
       worker \in {"test", "block", "check_active", "lock_resume", "call",
                   "running", "clear", "notify"}
  /\ mutexHepnos = "caller" <=> caller = "store_flag"
  /\ mutexResume = "worker" <=> worker \in {"call", "running", "clear", "notify"}
  /\ mutexResume = "caller" <=> caller \in {"wait_test", "wait_block"}

\* Every job before n has run once and none from n on has run.
RanUpTo(n) == ran = [j \in Jobs |-> IF j < n THEN 1 ELSE 0]

\* Between two calls the flag is down and the worker is on its way to sleep.
BetweenInv ==
  caller \in {"set_function", "set_state", "store_flag", "deactivate", "raise_flag"} =>
    /\ work_to_do = 0
    /\ RanUpTo(job)
    /\ worker \in {"lock", "test", "block", "asleep", "notify"}
    /\ caller \in {"set_state", "store_flag"} => work = job

\* Inside a call the flag is up until the job has run; the caller sleeps only
\* if its notification is still to come, and is woken only when the job has run.
CallInv ==
  caller \in Blocked =>
    /\ work = job
    /\ \/ /\ work_to_do = 1
          /\ worker \in {"lock", "test", "relock", "check_active", "lock_resume",
                         "call", "running"}
          /\ RanUpTo(job)
       \/ work_to_do = 1 /\ worker = "clear" /\ RanUpTo(job + 1)
       \/ /\ work_to_do = 0
          /\ worker \in {"lock", "test", "block", "asleep", "notify"}
          /\ RanUpTo(job + 1)
    /\ caller = "wait_block" => work_to_do = 1
    /\ caller = "asleep" => work_to_do = 1 \/ worker = "notify"
    /\ caller = "resumed" => work_to_do = 0

\* Once the flag has been raised to stop the worker, no job runs again.
StopInv ==
  caller \in {"notify", "destroyed"} =>
    /\ ~ active
    /\ RanUpTo(job)
    /\ worker \in {"lock", "test", "block", "asleep", "relock", "check_active",
                   "exited", "notify"}

PhaseInv ==
  /\ caller # "aborted" /\ worker # "aborted"
  /\ caller \in {"deactivate", "raise_flag", "notify", "destroyed"} <=> job = NJobs + 1
  /\ caller \in {"raise_flag", "notify", "destroyed"} <=> ~ active
  /\ worker = "running" <=> running # NoWork
  /\ worker = "running" => caller \in Blocked /\ running = job
  /\ spurious = 0

Inv ==
  /\ TypeInv
  /\ LockInv
  /\ BetweenInv
  /\ CallInv
  /\ StopInv
  /\ PhaseInv

\* The hand-over invariant holds before the worker has started.
LEMMA InvInit == Init => Inv
<1> SUFFICES ASSUME Init PROVE Inv
  OBVIOUS
<1>1. TypeInv
  BY TypeInvInit
<1>2. LockInv /\ BetweenInv /\ CallInv /\ StopInv /\ PhaseInv
  BY NJobsAssumption DEF Init, LockInv, BetweenInv, CallInv, StopInv, PhaseInv,
     RanUpTo, Blocked, Jobs, NoWork
<1> QED
  BY <1>1, <1>2 DEF Inv

\* Every step that is not a spurious wakeup keeps the hand-over invariant.
LEMMA InvStep == Inv /\ [Next]_vars /\ spurious' = 0 => Inv'
<1> SUFFICES ASSUME Inv, [Next]_vars, spurious' = 0
             PROVE  Inv'
  OBVIOUS
<1>0. TypeInv'
  BY TypeInvStep DEF Inv
<1> USE NJobsAssumption
    DEF Inv, TypeInv, TypeOK, LockInv, BetweenInv, CallInv, StopInv, PhaseInv,
        Finalizing, Blocked, Jobs, NoWork, CallerStates, WorkerStates,
        callerVars, workerVars, RanUpTo
<1>1. CASE Caller
  <2>1. CASE SetWorkFunction
    BY <1>0, <2>1 DEF SetWorkFunction
  <2>2. CASE SetWorkStateRejected
    BY <1>0, <2>2 DEF SetWorkStateRejected, AfterSubmission
  <2>3. CASE SetWorkStateLock
    BY <1>0, <2>3 DEF SetWorkStateLock
  <2>4. CASE SetWorkStateStore
    BY <1>0, <2>4 DEF SetWorkStateStore, AfterSubmission, WakeWorker
  <2>5. CASE ConstructorSpin
    BY <1>0, <2>5 DEF ConstructorSpin, Continue
  <2>6. CASE WaitLock
    BY <1>0, <2>6 DEF WaitLock
  <2>7. CASE WaitTest
    <3>1. CASE work_to_do = 0
      <4>1. RanUpTo(job + 1) /\ job' = job + 1 /\ UNCHANGED ran
        BY <2>7, <3>1 DEF WaitTest, Continue
      <4>2. worker \in {"lock", "test", "block", "asleep"} /\ UNCHANGED worker
        BY <2>7, <3>1 DEF WaitTest
      <4> QED
        BY <1>0, <2>7, <3>1, <4>1, <4>2 DEF WaitTest, Continue
    <3>2. CASE work_to_do # 0
      BY <1>0, <2>7, <3>2 DEF WaitTest
    <3> QED
      BY <3>1, <3>2
  <2>8. CASE WaitBlock
    BY <1>0, <2>8 DEF WaitBlock
  <2>9. CASE WaitReturn
    BY <1>0, <2>9 DEF WaitReturn, Continue
  <2>10. CASE FinalizeDeactivate
    BY <1>0, <2>10 DEF FinalizeDeactivate
  <2>11. CASE FinalizeRaiseFlag
    BY <1>0, <2>11 DEF FinalizeRaiseFlag
  <2>12. CASE FinalizeNotify
    BY <1>0, <2>12 DEF FinalizeNotify, WakeWorker
  <2> QED
    BY <1>1, <2>1, <2>2, <2>3, <2>4, <2>5, <2>6, <2>7, <2>8, <2>9,
       <2>10, <2>11, <2>12 DEF Caller
<1>2. CASE Worker
  <2>1. CASE WorkerLock
    BY <1>0, <2>1 DEF WorkerLock
  <2>2. CASE WorkerTest
    BY <1>0, <2>2 DEF WorkerTest
  <2>3. CASE WorkerBlock
    BY <1>0, <2>3 DEF WorkerBlock
  <2>4. CASE WorkerRelock
    BY <1>0, <2>4 DEF WorkerRelock
  <2>5. CASE WorkerCheckActive
    BY <1>0, <2>5 DEF WorkerCheckActive
  <2>6. CASE WorkerLockResume
    BY <1>0, <2>6 DEF WorkerLockResume
  <2>7. CASE WorkerCall
    BY <1>0, <2>7 DEF WorkerCall
  <2>8. CASE WorkerCallEmpty
    BY <1>0, <2>8 DEF WorkerCallEmpty
  <2>9. CASE WorkerReturn
    <3>1. running = job /\ job \in Jobs /\ RanUpTo(job) /\ caller \in Blocked
      BY <2>9 DEF WorkerReturn
    <3>2. ran' = [j \in Jobs |-> IF j < job + 1 THEN 1 ELSE 0]
      <4>1. ran' = [ran EXCEPT ![job] = @ + 1]
        BY <2>9, <3>1 DEF WorkerReturn
      <4>2. ASSUME NEW j \in Jobs
            PROVE  ran'[j] = IF j < job + 1 THEN 1 ELSE 0
        BY <3>1, <4>1
      <4> QED
        BY <3>1, <4>1, <4>2
    <3>3. job' = job /\ caller' = caller /\ work' = work /\ work_to_do = 1
          /\ worker' = "clear" /\ UNCHANGED work_to_do
      BY <2>9, <3>1 DEF WorkerReturn
    <3>4. RanUpTo(job + 1)'
      BY <3>2, <3>3
    <3> QED
      BY <1>0, <2>9, <3>1, <3>3, <3>4 DEF WorkerReturn
  <2>10. CASE WorkerClear
    BY <1>0, <2>10 DEF WorkerClear
  <2>11. CASE WorkerNotify
    BY <1>0, <2>11 DEF WorkerNotify, WakeCaller
  <2> QED
    BY <1>2, <2>1, <2>2, <2>3, <2>4, <2>5, <2>6, <2>7, <2>8, <2>9,
       <2>10, <2>11 DEF Worker
<1>3. CASE SpuriousWakeup
  BY <1>3 DEF SpuriousWakeup, CallerSpuriousWakeup, WorkerSpuriousWakeup
<1>4. CASE UNCHANGED vars
  BY <1>4 DEF vars
<1> QED
  BY <1>1, <1>2, <1>3, <1>4 DEF Next, Terminated

\* The hand-over invariant until the first spurious wakeup.
SteadyInv == TypeInv /\ (spurious = 0 => Inv)

\* Spurious wakeups are never uncounted: a state without one comes from another.
LEMMA SpuriousGrows == TypeInv /\ [Next]_vars => (spurious' = 0 => spurious = 0)
<1> SUFFICES ASSUME TypeInv, [Next]_vars, spurious' = 0
             PROVE  spurious = 0
  OBVIOUS
<1>1. CASE Caller
  BY <1>1 DEF Caller, SetWorkFunction, SetWorkStateRejected, SetWorkStateLock,
     SetWorkStateStore, ConstructorSpin, WaitLock, WaitTest, WaitBlock, WaitReturn,
     FinalizeDeactivate, FinalizeRaiseFlag, FinalizeNotify
<1>2. CASE Worker
  BY <1>2 DEF Worker, WorkerLock, WorkerTest, WorkerBlock, WorkerRelock,
     WorkerCheckActive, WorkerLockResume, WorkerCall, WorkerCallEmpty, WorkerReturn,
     WorkerClear, WorkerNotify
<1>3. CASE SpuriousWakeup
  BY <1>3, MaxSpuriousAssumption
     DEF SpuriousWakeup, CallerSpuriousWakeup, WorkerSpuriousWakeup, TypeInv, TypeOK
<1>4. CASE UNCHANGED vars
  BY <1>4 DEF vars
<1> QED
  BY <1>1, <1>2, <1>3, <1>4 DEF Next, Terminated

\* So it holds throughout.
LEMMA SteadyInvHolds == SafeSpec => []SteadyInv
<1>1. Init => SteadyInv
  BY InvInit DEF SteadyInv, Inv
<1>2. SteadyInv /\ [Next]_vars => SteadyInv'
  BY TypeInvStep, InvStep, SpuriousGrows DEF SteadyInv
<1> QED
  BY <1>1, <1>2, PTL DEF SafeSpec

\* Until a wakeup is spurious no function is lost, repeated or run ahead of its
\* turn, for every number of hand-overs.
THEOREM JobsRunExactlyOnce == SafeSpec => []ExactlyOnce
<1>1. SteadyInv => ExactlyOnce
  <2> SUFFICES ASSUME Inv PROVE ExactlyOnce
    BY DEF SteadyInv, ExactlyOnce
  <2>1. caller \in {"set_function", "set_state", "store_flag", "deactivate",
                    "raise_flag", "notify", "destroyed"} \cup Blocked
    BY DEF Inv, TypeInv, TypeOK, PhaseInv, CallerStates, Blocked
  <2>2. RanUpTo(job) \/ (RanUpTo(job + 1) /\ job \in Jobs)
    BY <2>1 DEF Inv, TypeInv, BetweenInv, CallInv, StopInv, Blocked, Finalizing
  <2> QED
    BY <2>2, NJobsAssumption
       DEF ExactlyOnce, RanUpTo, Inv, TypeInv, TypeOK, Jobs
<1> QED
  BY <1>1, SteadyInvHolds, PTL

\* Until a wakeup is spurious a function runs only inside the call that set it, so
\* the locals it captured by reference are alive.
THEOREM FunctionsRunInsideTheirCall == SafeSpec => []WorkInsideItsCall
<1>1. SteadyInv => WorkInsideItsCall
  BY DEF SteadyInv, Inv, PhaseInv, WorkInsideItsCall
<1> QED
  BY <1>1, SteadyInvHolds, PTL

-------------------------------------------------------------------------------
(* The service implements the synchronous executor *)

\* The service starts where the executor does, with no call in progress.
LEMMA ExecutorInit == Init => Executor!Init
BY DEF Init, Executor!Init, phase, Blocked, Jobs, Executor!Jobs

\* Under the invariant a step of the service is a step of the executor, or none.
LEMMA ExecutorStep == Inv /\ Inv' /\ [Next]_vars => [Executor!Next]_(Executor!avars)
<1> SUFFICES ASSUME Inv, Inv', [Next]_vars
             PROVE  [Executor!Next]_(Executor!avars)
  OBVIOUS
<1> USE NJobsAssumption DEF Executor!avars, Executor!Jobs, Jobs
<1>1. ASSUME caller' = caller, UNCHANGED <<job, ran>>
      PROVE  UNCHANGED Executor!avars
  BY <1>1 DEF phase
<1>2. ASSUME {caller, caller'} \subseteq Blocked, UNCHANGED <<job, ran>>
      PROVE  UNCHANGED Executor!avars
  BY <1>2 DEF phase, Blocked
<1>3. ASSUME {caller, caller'} \subseteq
                {"set_function", "set_state", "store_flag", "deactivate", "raise_flag",
                 "notify"},
             UNCHANGED <<job, ran>>
      PROVE  UNCHANGED Executor!avars
  BY <1>3 DEF phase, Blocked
<1>4. ASSUME caller \in Blocked, Continue, UNCHANGED <<ran, work_to_do>>,
             work_to_do = 0
      PROVE  Executor!Return
  <2>1. phase = "executed"
    BY <1>4 DEF phase, Inv, TypeInv, TypeOK, Finalizing, CallInv, RanUpTo, Blocked
  <2>2. phase' = "ready"
    BY <1>4 DEF phase, Blocked, Continue
  <2> QED
    BY <1>4, <2>1, <2>2 DEF Executor!Return, Continue
<1>5. CASE Caller
  <2>1. CASE SetWorkFunction
    BY <2>1, <1>3 DEF SetWorkFunction, workerVars
  <2>2. CASE SetWorkStateRejected
    BY <2>2 DEF SetWorkStateRejected, Inv, BetweenInv
  <2>3. CASE SetWorkStateLock
    BY <2>3, <1>3 DEF SetWorkStateLock, workerVars
  <2>4. CASE SetWorkStateStore
    <3>1. phase = "ready" /\ job \in Jobs
      BY <2>4 DEF SetWorkStateStore, phase, Blocked, Inv, TypeInv, Finalizing
    <3>2. caller' \in Blocked /\ UNCHANGED <<job, ran>>
      BY <2>4 DEF SetWorkStateStore, AfterSubmission, Blocked
    <3>3. ran[job] = 0
      BY <2>4, <3>1 DEF SetWorkStateStore, Inv, BetweenInv, RanUpTo, TypeInv, TypeOK
    <3>4. phase' = "submitted"
      BY <3>2, <3>3 DEF phase, Blocked
    <3> QED
      BY <3>1, <3>2, <3>4 DEF Executor!Next, Executor!Submit
  <2>5. CASE ConstructorSpin
    BY <2>5, <1>4 DEF ConstructorSpin, Blocked, workerVars, Executor!Next
  <2>6. CASE WaitLock
    BY <2>6, <1>2 DEF WaitLock, Blocked, workerVars
  <2>7. CASE WaitTest
    <3>1. CASE work_to_do = 0
      BY <2>7, <3>1, <1>4 DEF WaitTest, Blocked, workerVars, Executor!Next
    <3>2. CASE work_to_do # 0
      BY <2>7, <3>2, <1>2 DEF WaitTest, Blocked, workerVars
    <3> QED
      BY <3>1, <3>2
  <2>8. CASE WaitBlock
    BY <2>8, <1>2 DEF WaitBlock, Blocked, workerVars
  <2>9. CASE WaitReturn
    BY <2>9, <1>4 DEF WaitReturn, Blocked, workerVars, Executor!Next, Inv, CallInv
  <2>10. CASE FinalizeDeactivate
    BY <2>10, <1>3 DEF FinalizeDeactivate, workerVars
  <2>11. CASE FinalizeRaiseFlag
    BY <2>11, <1>3 DEF FinalizeRaiseFlag, workerVars
  <2>12. CASE FinalizeNotify
    <3>1. phase = "ready" /\ phase' = "stopped" /\ UNCHANGED <<job, ran>>
      BY <2>12 DEF FinalizeNotify, phase, Blocked
    <3>2. job \notin Jobs
      BY <2>12 DEF FinalizeNotify, Inv, PhaseInv, TypeInv, TypeOK
    <3> QED
      BY <3>1, <3>2 DEF Executor!Next, Executor!Stop
  <2> QED
    BY <1>5, <2>1, <2>2, <2>3, <2>4, <2>5, <2>6, <2>7, <2>8, <2>9, <2>10, <2>11,
       <2>12 DEF Caller
<1>6. CASE Worker
  <2>1. CASE WorkerCallEmpty
    BY <2>1 DEF WorkerCallEmpty, Inv, PhaseInv
  <2>2. CASE WorkerReturn
    <3>1. caller \in Blocked /\ running = job /\ job \in Jobs /\ RanUpTo(job)
      BY <2>2 DEF WorkerReturn, Inv, PhaseInv, CallInv, TypeInv
    <3>2. ran' = [ran EXCEPT ![job] = @ + 1] /\ UNCHANGED <<caller, job>>
      BY <2>2, <3>1 DEF WorkerReturn, callerVars
    <3>3. ran[job] = 0 /\ ran'[job] = 1
      BY <3>1, <3>2 DEF RanUpTo
    <3>4. phase = "submitted" /\ phase' = "executed"
      BY <3>1, <3>2, <3>3 DEF phase, Blocked
    <3> QED
      BY <3>2, <3>4 DEF Executor!Next, Executor!Execute
  <2>3. CASE WorkerNotify
    <3>1. UNCHANGED <<job, ran>> /\ (caller' = caller \/ {caller, caller'} \subseteq Blocked)
      BY <2>3 DEF WorkerNotify, WakeCaller, Blocked
    <3> QED
      BY <3>1, <1>1, <1>2
  <2>4. CASE \/ WorkerLock \/ WorkerTest \/ WorkerBlock \/ WorkerRelock
             \/ WorkerCheckActive \/ WorkerLockResume \/ WorkerCall \/ WorkerClear
    <3>1. caller' = caller /\ UNCHANGED <<job, ran>>
      BY <2>4 DEF WorkerLock, WorkerTest, WorkerBlock, WorkerRelock,
         WorkerCheckActive, WorkerLockResume, WorkerCall, WorkerClear, callerVars
    <3> QED
      BY <3>1, <1>1
  <2> QED
    BY <1>6, <2>1, <2>2, <2>3, <2>4 DEF Worker
<1>7. CASE SpuriousWakeup
  <2>1. UNCHANGED <<job, ran>> /\ (caller' = caller \/ {caller, caller'} \subseteq Blocked)
    BY <1>7 DEF SpuriousWakeup, CallerSpuriousWakeup, WorkerSpuriousWakeup, Blocked,
       callerVars, workerVars
  <2> QED
    BY <2>1, <1>1, <1>2
<1>8. CASE UNCHANGED vars
  BY <1>8, <1>1 DEF vars
<1> QED
  BY <1>5, <1>6, <1>7, <1>8 DEF Next, Terminated

\* Until a wakeup is spurious the modules may treat a hand-over as a synchronous
\* call: every step of the service is a step of the executor, or none.
THEOREM ImplementsExecutor == SafeSpec => ExecutorSafeSpec
<1>1. Init => Executor!Init
  BY ExecutorInit
<1>2. SteadyInv /\ SteadyInv' /\ [Next]_vars
        => [spurious' = 0 => [Executor!Next]_(Executor!avars)]_vars
  BY ExecutorStep, SpuriousGrows DEF SteadyInv
<1> QED
  BY <1>1, <1>2, SteadyInvHolds, PTL DEF SafeSpec, ExecutorSafeSpec

-------------------------------------------------------------------------------
(* What spurious wakeups cost *)

\* The worker is past its wait and executes what is set without a look at the flag.
Waking == {"relock", "check_active", "lock_resume", "call"}

\* The function of the job in hand is set and still to be announced.
Announced == caller \in {"set_state", "store_flag"} /\ work = job

\* A function that is set has run, unless the flag is up or it is yet to go up.
HasRun == work = NoWork \/ (work \in Jobs /\ ran[work] >= 1)

\* What the two threads keep to whatever the wakeups.
HandOver ==
  /\ TypeInv
  /\ caller = "aborted" <=> worker = "aborted"
  /\ caller # "aborted" => LockInv
  /\ worker = "running" <=> running # NoWork
  /\ caller \in {"deactivate", "raise_flag", "notify", "destroyed"} => job = NJobs + 1
  /\ caller \in {"raise_flag", "notify", "destroyed"} => ~ active
  /\ \A j \in Jobs : j > job \/ (j = job /\ work # job) => ran[j] = 0
  /\ work <= job /\ (caller = "set_function" => work # job)
  /\ work = NoWork => work_to_do = 0 /\ caller \in {"set_function", "aborted"}
  /\ caller = "store_flag" \/ Announced => work_to_do = 0
  /\ caller \notin Finalizing /\ work_to_do = 1 => worker # "notify"
  /\ work_to_do = 0 /\ ~ Announced => HasRun
  /\ worker = "clear" /\ ~ Announced => HasRun /\ work # NoWork
  /\ running \notin {NoWork, work} =>
       caller = "set_state" /\ work_to_do = 0 /\ Announced /\ ran[running] >= 1

\* A job is spoiled unless it has run once.
Off(count) == IF count = 1 THEN 0 ELSE 1

\* What n more runs of function j add to the spoiled jobs.
Change(j, n) == IF j = NoWork THEN 0 ELSE Off(ran[j] + n) - Off(ran[j])

\* No function has been handed over for the job in hand, or there is no such job.
Idle == caller \in Finalizing \/ (caller = "set_function" /\ work_to_do = 0)

\* What the function that is set and the job in hand add to the spoiled jobs when
\* the function runs n more times before the next one is set: a job whose function
\* was refused does not run.
Owes(n) ==
  IF Idle THEN Change(work, n)
  ELSE IF work = job THEN Off(ran[job] + n)
  ELSE 1 + Change(work, n)

\* The function the worker is inside of when another one has been set meanwhile.
Late == IF running \in {NoWork, work} THEN 0 ELSE Change(running, 1)

\* In finalize the function can run again only if the worker was on its way to it.
StillRuns ==
  \/ worker \in {"lock_resume", "call", "running"}
  \/ active /\ (worker \in Waking \/ (work_to_do = 1 /\ worker # "clear"))

\* The job after the one in hand is at stake too: the worker runs the function early
\* and lowers the flag, or the art thread goes on before its function has run.
NextAtStake(n) ==
  \/ caller \in Blocked \cup {"set_function"} /\ work_to_do = 0 /\ worker \in Waking /\ n = 0
  \/ caller = "resumed" /\ work_to_do = 1 /\ worker # "clear"

\* How often the function that is set may still run before the next one is set,
\* unless another wakeup is spurious.
MayRun(n) ==
  \/ caller \in Finalizing /\ (n = 0 \/ (n = 1 /\ StillRuns))
  \/ caller = "set_function" /\ work_to_do = 0 /\
       (n = 0 \/ (n = 1 /\ worker \in Waking \cup {"running"}))
  \/ caller \in {"set_function", "set_state"} /\ work_to_do = 1 /\
       IF worker = "clear" THEN n \in {0, 1} ELSE n \in {1, 2}
  \/ caller = "set_state" /\ work_to_do = 0 /\
       (n = 1 \/ (n = 2 /\ worker \in Waking \cup {"running"} /\ running \in {NoWork, work}))
  \/ caller = "store_flag" /\ n = 1
  \/ caller \in Blocked /\ work_to_do = 0 /\
       \/ n = 0 /\ worker # "running"
       \/ n = 1 /\ worker \in Waking \cup {"running"}
  \/ caller \in Blocked /\ work_to_do = 1 /\ worker = "clear" /\ n = 0
  \/ caller \in Blocked /\ work_to_do = 1 /\ worker # "clear" /\
       (n = 1 \/ (n = 2 /\ caller = "resumed"))

Stake(n) == IF NextAtStake(n) THEN 1 ELSE 0

Damage == Cardinality(SpoiledJobs)

\* However it goes on, the damage done and the damage to come are paid for.
Paid(n) == Damage + Owes(n) + Late + Stake(n) <= 2 * spurious

Covered == \A n \in 0..2 : MayRun(n) => Paid(n)

DamageInv == HandOver /\ Covered

\* The damage is a number.
LEMMA DamageIsNat == Damage \in Nat
<1>1. IsFiniteSet(Jobs)
  BY NJobsAssumption, FS_Interval DEF Jobs
<1>2. SpoiledJobs \in SUBSET Jobs
  BY DEF SpoiledJobs
<1> QED
  BY <1>1, <1>2, FS_Subset, FS_CardinalityType DEF Damage

\* The jobs are finitely many, so the spoiled ones can be counted.
LEMMA SpoiledIsFinite == IsFiniteSet(SpoiledJobs)
<1>1. IsFiniteSet(Jobs)
  BY NJobsAssumption, FS_Interval DEF Jobs
<1>2. SpoiledJobs \in SUBSET Jobs
  BY DEF SpoiledJobs
<1> QED
  BY <1>1, <1>2, FS_Subset

\* A call that returns adds its job to the damage unless it has run once.
LEMMA DamageOfReturn ==
  ASSUME TypeInv, job \in Jobs, job' = job + 1, ran' = ran
  PROVE  Damage' = Damage + Off(ran[job])
<1>1. job \notin SpoiledJobs
  BY DEF SpoiledJobs, TypeInv, TypeOK, Jobs
<1>2. CASE ran[job] = 1
  <2>1. SpoiledJobs' = SpoiledJobs
    BY <1>2, NJobsAssumption DEF SpoiledJobs, TypeInv, TypeOK, Jobs
  <2> QED
    BY <1>2, <2>1, DamageIsNat DEF Damage, Off
<1>3. CASE ran[job] # 1
  <2>1. SpoiledJobs' = SpoiledJobs \cup {job}
    BY <1>3, NJobsAssumption DEF SpoiledJobs, TypeInv, TypeOK, Jobs
  <2>2. Cardinality(SpoiledJobs \cup {job}) = Cardinality(SpoiledJobs) + 1
    BY <1>1, SpoiledIsFinite, FS_AddElement
  <2> QED
    BY <1>3, <2>1, <2>2 DEF Damage, Off
<1> QED
  BY <1>2, <1>3

\* A function that runs changes the damage if its call has returned.
LEMMA DamageOfRun ==
  ASSUME TypeInv, running \in Jobs, job' = job, ran' = [ran EXCEPT ![running] = @ + 1]
  PROVE  Damage' = Damage + (IF running < job THEN Change(running, 1) ELSE 0)
<1> DEFINE j == running
<1>1. ran[j] \in Nat /\ ran'[j] = ran[j] + 1 /\ j # NoWork
      /\ \A k \in Jobs : k # j => ran'[k] = ran[k]
  BY DEF TypeInv, TypeOK, Jobs, NoWork
<1>2. CASE j < job /\ ran[j] = 0
  <2>1. SpoiledJobs' = SpoiledJobs \ {j} /\ j \in SpoiledJobs
    BY <1>1, <1>2 DEF SpoiledJobs
  <2>2. Cardinality(SpoiledJobs \ {j}) = Cardinality(SpoiledJobs) - 1
    BY <2>1, SpoiledIsFinite, FS_RemoveElement
  <2>3. Change(j, 1) = -1
    BY <1>1, <1>2 DEF Change, Off
  <2> QED
    BY <1>2, <2>1, <2>2, <2>3, DamageIsNat DEF Damage
<1>3. CASE j < job /\ ran[j] = 1
  <2>1. SpoiledJobs' = SpoiledJobs \cup {j} /\ j \notin SpoiledJobs
    BY <1>1, <1>3 DEF SpoiledJobs
  <2>2. Cardinality(SpoiledJobs \cup {j}) = Cardinality(SpoiledJobs) + 1
    BY <2>1, SpoiledIsFinite, FS_AddElement
  <2>3. Change(j, 1) = 1
    BY <1>1, <1>3 DEF Change, Off
  <2> QED
    BY <1>3, <2>1, <2>2, <2>3, DamageIsNat DEF Damage
<1>4. CASE j < job /\ ran[j] > 1
  <2>1. SpoiledJobs' = SpoiledJobs
    BY <1>1, <1>4 DEF SpoiledJobs
  <2>2. Change(j, 1) = 0
    BY <1>1, <1>4 DEF Change, Off
  <2> QED
    BY <1>4, <2>1, <2>2, DamageIsNat DEF Damage
<1>5. CASE ~ (j < job)
  <2>1. SpoiledJobs' = SpoiledJobs
    BY <1>1, <1>5 DEF SpoiledJobs
  <2> QED
    BY <1>5, <2>1, DamageIsNat DEF Damage
<1> QED
  BY <1>1, <1>2, <1>3, <1>4, <1>5

\* What neither ends a call nor runs a function does no damage.
LEMMA DamageStays ==
  ASSUME job' = job, ran' = ran
  PROVE  Damage' = Damage
BY DEF Damage, SpoiledJobs

\* Every step keeps the discipline of the two threads.
LEMMA HandOverStep == HandOver /\ [Next]_vars => HandOver'
<1> SUFFICES ASSUME HandOver, [Next]_vars
             PROVE  HandOver'
  OBVIOUS
<1>0. TypeInv'
  BY TypeInvStep DEF HandOver
<1> USE NJobsAssumption
    DEF HandOver, TypeInv, TypeOK, LockInv, Announced, HasRun, Finalizing, Blocked,
        Jobs, NoWork, CallerStates, WorkerStates, callerVars, workerVars
<1>1. CASE Caller
  <2>1. CASE SetWorkFunction
    BY <1>0, <2>1 DEF SetWorkFunction
  <2>2. CASE SetWorkStateRejected
    BY <1>0, <2>2 DEF SetWorkStateRejected, AfterSubmission
  <2>3. CASE SetWorkStateLock
    BY <1>0, <2>3 DEF SetWorkStateLock
  <2>4. CASE SetWorkStateStore
    BY <1>0, <2>4 DEF SetWorkStateStore, AfterSubmission, WakeWorker
  <2>5. CASE ConstructorSpin
    BY <1>0, <2>5 DEF ConstructorSpin, Continue
  <2>6. CASE WaitLock
    BY <1>0, <2>6 DEF WaitLock
  <2>7. CASE WaitTest
    BY <1>0, <2>7 DEF WaitTest, Continue
  <2>8. CASE WaitBlock
    BY <1>0, <2>8 DEF WaitBlock
  <2>9. CASE WaitReturn
    BY <1>0, <2>9 DEF WaitReturn, Continue
  <2>10. CASE FinalizeDeactivate
    BY <1>0, <2>10 DEF FinalizeDeactivate
  <2>11. CASE FinalizeRaiseFlag
    BY <1>0, <2>11 DEF FinalizeRaiseFlag
  <2>12. CASE FinalizeNotify
    BY <1>0, <2>12 DEF FinalizeNotify, WakeWorker
  <2> QED
    BY <1>1, <2>1, <2>2, <2>3, <2>4, <2>5, <2>6, <2>7, <2>8, <2>9, <2>10, <2>11, <2>12 DEF Caller
<1>2. CASE Worker
  <2>1. CASE WorkerLock
    BY <1>0, <2>1 DEF WorkerLock
  <2>2. CASE WorkerTest
    BY <1>0, <2>2 DEF WorkerTest
  <2>3. CASE WorkerBlock
    BY <1>0, <2>3 DEF WorkerBlock
  <2>4. CASE WorkerRelock
    BY <1>0, <2>4 DEF WorkerRelock
  <2>5. CASE WorkerCheckActive
    BY <1>0, <2>5 DEF WorkerCheckActive
  <2>6. CASE WorkerLockResume
    BY <1>0, <2>6 DEF WorkerLockResume
  <2>7. CASE WorkerCall
    BY <1>0, <2>7 DEF WorkerCall
  <2>8. CASE WorkerCallEmpty
    BY <1>0, <2>8 DEF WorkerCallEmpty
  <2>9. CASE WorkerReturn
    BY <1>0, <2>9 DEF WorkerReturn
  <2>10. CASE WorkerClear
    BY <1>0, <2>10 DEF WorkerClear
  <2>11. CASE WorkerNotify
    BY <1>0, <2>11 DEF WorkerNotify, WakeCaller
  <2> QED
    BY <1>2, <2>1, <2>2, <2>3, <2>4, <2>5, <2>6, <2>7, <2>8, <2>9, <2>10, <2>11 DEF Worker
<1>3. CASE SpuriousWakeup
  <2>1. CASE CallerSpuriousWakeup
    BY <1>0, <2>1 DEF CallerSpuriousWakeup
  <2>2. CASE WorkerSpuriousWakeup
    BY <1>0, <2>2 DEF WorkerSpuriousWakeup
  <2> QED
    BY <1>3, <2>1, <2>2 DEF SpuriousWakeup
<1>4. CASE UNCHANGED vars
  BY <1>0, <1>4 DEF vars
<1> QED
  BY <1>1, <1>2, <1>3, <1>4 DEF Next, Terminated

\* The steps that only move a thread, and bring nothing new to pay for.
LEMMA MoveIsPaid ==
  ASSUME Covered, NEW n \in 0..2, MayRun(n), Owes(n)' = Owes(n), Late' = Late,
         Stake(n)' <= Stake(n), Damage' = Damage, spurious' = spurious,
         Owes(n) \in Int, Late \in Int, Damage \in Nat, spurious \in Nat
  PROVE  Paid(n)'
BY DEF Covered, Paid, Stake

\* A call that returns: what it leaves behind was to come, or was at stake.
LEMMA ReturnIsPaid ==
  ASSUME HandOver, Covered, Continue,
         \/ caller \in {"spin", "wait_test"} /\ work_to_do = 0
         \/ caller = "resumed" /\ worker \notin {"call", "running", "clear", "notify"},
         UNCHANGED <<worker, running, ran, work_to_do, active, work, spurious>>,
         NEW n \in 0..2, MayRun(n)'
  PROVE  Paid(n)'
<1> USE NJobsAssumption DEF Waking, Jobs, NoWork
<1>1. /\ job \in Jobs /\ job' = job + 1 /\ caller \in Blocked /\ work <= job
      /\ work \in Jobs /\ ran \in [Jobs -> Nat] /\ work # job' /\ work' = work
      /\ caller' \in {"set_function", "deactivate"}
      /\ ran[work] \in Nat /\ (work_to_do = 0 => ran[work] >= 1) /\ work_to_do \in {0, 1}
      /\ work # job => ran[job] = 0
  BY DEF HandOver, TypeInv, TypeOK, Continue, Blocked, Finalizing, HasRun, Announced
<1>2. Late = 0 /\ Late' = 0
  BY <1>1 DEF HandOver, Late, Blocked
<1>3. Damage \in Nat /\ Damage' = Damage + Off(ran[job]) /\ spurious' = spurious /\ spurious \in Nat
  BY <1>1, DamageIsNat, DamageOfReturn DEF HandOver, TypeInv, TypeOK
<1> DEFINE off(m) == Off(ran[work] + m)
<1>4. off(0) = Off(ran[work]) /\ \A m \in 0..2 : off(m) \in {0, 1}
      /\ (work_to_do = 0 => off(1) >= off(0)) /\ off(2) >= 1 - off(1) /\ off(2) >= off(0)
  BY <1>1 DEF Off
<1>5. ASSUME NEW m \in 0..2, MayRun(m)
      PROVE  Damage + (IF work = job THEN off(m) ELSE 1 + off(m) - off(0)) + Stake(m) <= 2 * spurious
  <2>1. Owes(m) = IF work = job THEN off(m) ELSE 1 + off(m) - off(0)
    BY <1>1, <1>4 DEF Owes, Idle, Change, Blocked, Finalizing
  <2>2. Damage + Owes(m) + Late + Stake(m) <= 2 * spurious
    BY <1>5 DEF Covered, Paid
  <2> HIDE DEF off
  <2> QED
    BY <1>2, <1>3, <1>4, <2>1, <2>2 DEF Stake
<1>6. Damage' = Damage + (IF work = job THEN off(0) ELSE 1)
  BY <1>1, <1>3, <1>4 DEF Off
<1>7. CASE work_to_do = 0
  <2>1. /\ Owes(n)' = off(n) - off(0)
    BY <1>1, <1>4, <1>7 DEF Owes, Idle, Change, Finalizing
  <2>2. worker # "running" => MayRun(0)
    BY <1>1, <1>7 DEF MayRun
  <2>3. worker \in Waking \cup {"running"} => MayRun(1)
    BY <1>1, <1>7 DEF MayRun
  <2>4. n = 0 \/ (n = 1 /\ worker \in Waking \cup {"running"})
    BY <1>1, <1>7 DEF MayRun, StillRuns, Finalizing, Blocked
  <2>5. Stake(0) = (IF worker \in Waking THEN 1 ELSE 0) /\ Stake(1) = 0
        /\ Stake(n)' <= (IF worker \in Waking /\ n = 0 THEN 1 ELSE 0) /\ Stake(n)' \in {0, 1}
    BY <1>1, <1>7 DEF Stake, NextAtStake, Blocked
  <2>6. CASE n = 1
    <3>1. Damage + (IF work = job THEN off(1) ELSE 1 + off(1) - off(0)) <= 2 * spurious
      BY <1>3, <1>4, <1>5, <2>3, <2>4, <2>5, <2>6
    <3> HIDE DEF off
    <3> QED
      BY <1>2, <1>3, <1>4, <1>6, <1>7, <2>1, <2>5, <2>6, <3>1 DEF Paid
  <2>7. CASE n = 0
    <3>1. worker # "running" =>
            Damage + (IF work = job THEN off(0) ELSE 1) + Stake(0) <= 2 * spurious
      BY <1>4, <1>5, <2>2
    <3>2. worker = "running" =>
            Damage + (IF work = job THEN off(1) ELSE 1 + off(1) - off(0)) <= 2 * spurious
      BY <1>3, <1>4, <1>5, <2>3, <2>5
    <3> HIDE DEF off
    <3> QED
      BY <1>2, <1>3, <1>4, <1>6, <1>7, <2>1, <2>5, <2>7, <3>1, <3>2 DEF Paid
  <2> QED
    BY <2>4, <2>6, <2>7
<1>8. CASE work_to_do = 1
  <2>1. caller = "resumed" /\ worker \notin {"call", "running", "clear", "notify"}
    BY <1>8
  <2>2. MayRun(1) /\ MayRun(2) /\ Stake(1) = 1 /\ Stake(2) = 1 /\ Stake(n)' = 0
    BY <1>1, <1>8, <2>1 DEF MayRun, Stake, NextAtStake, Blocked
  <2>5. \A m \in {1, 2} :
          Damage + (IF work = job THEN off(m) ELSE 1 + off(m) - off(0)) + 1 <= 2 * spurious
    BY <1>5, <2>2
  <2>3. CASE caller' = "set_function"
    <3>1. n \in {1, 2}
      BY <1>1, <1>8, <2>1, <2>3 DEF MayRun, Finalizing, Blocked
    <3>2. Owes(n)' = 1 + off(n) - off(0)
      BY <1>1, <1>4, <1>8, <2>3 DEF Owes, Idle, Change, Finalizing
    <3> HIDE DEF off
    <3> QED
      BY <1>2, <1>3, <1>4, <1>6, <2>2, <2>5, <3>1, <3>2 DEF Paid
  <2>4. CASE caller' = "deactivate"
    <3>1. n \in {0, 1}
      BY <2>4 DEF MayRun, Finalizing, Blocked
    <3>2. Owes(n)' = off(n) - off(0)
      BY <1>1, <1>4, <2>4 DEF Owes, Idle, Change, Finalizing
    <3> HIDE DEF off
    <3> QED
      BY <1>2, <1>3, <1>4, <1>6, <2>2, <2>5, <3>1, <3>2 DEF Paid
  <2> QED
    BY <1>1, <2>3, <2>4
<1> QED
  BY <1>1, <1>7, <1>8

\* Every step keeps what is to come covered.
LEMMA CoveredStep == HandOver /\ Covered /\ [Next]_vars /\ HandOver' => Covered'
<1> SUFFICES ASSUME HandOver, Covered, [Next]_vars, HandOver',
                    NEW n \in 0..2, MayRun(n)'
             PROVE  Paid(n)'
  BY DEF Covered
<1>0. Damage \in Nat /\ (MayRun(0) => Paid(0)) /\ (MayRun(1) => Paid(1)) /\ (MayRun(2) => Paid(2))
  BY DamageIsNat DEF Covered
<1> USE NJobsAssumption
    DEF HandOver, TypeInv, TypeOK, LockInv, Announced, HasRun, Finalizing, Blocked,
        Jobs, NoWork, callerVars, workerVars, MayRun, Paid, Owes, Late, Stake,
        NextAtStake, StillRuns, Idle, Change, Off, Waking
<1>1. CASE Caller
  <2>1. CASE SetWorkFunction
    BY <1>0, DamageStays, <2>1 DEF SetWorkFunction
  <2>2. CASE SetWorkStateRejected
    BY <1>0, DamageStays, <2>2 DEF SetWorkStateRejected, AfterSubmission
  <2>3. CASE SetWorkStateLock
    BY <1>0, DamageStays, <2>3 DEF SetWorkStateLock
  <2>4. CASE SetWorkStateStore
    BY <1>0, DamageStays, <2>4 DEF SetWorkStateStore, AfterSubmission, WakeWorker
  <2>5. CASE ConstructorSpin
    <3>1. /\ Continue
          /\ \/ caller \in {"spin", "wait_test"} /\ work_to_do = 0
             \/ caller = "resumed" /\ worker \notin {"call", "running", "clear", "notify"}
          /\ UNCHANGED <<worker, running, ran, work_to_do, active, work, spurious>>
      BY <2>5 DEF ConstructorSpin
    <3> QED
      BY <3>1, ReturnIsPaid
  <2>6. CASE WaitLock
    BY <1>0, DamageStays, <2>6 DEF WaitLock
  <2>7. CASE WaitTest
    <3>1. CASE work_to_do = 0
      <4>1. /\ Continue /\ caller = "wait_test"
            /\ UNCHANGED <<worker, running, ran, work_to_do, active, work, spurious>>
        BY <2>7, <3>1 DEF WaitTest
      <4> QED
        BY <3>1, <4>1, ReturnIsPaid
    <3>2. CASE work_to_do # 0
      BY <1>0, DamageStays, <2>7, <3>2 DEF WaitTest
    <3> QED
      BY <3>1, <3>2
  <2>8. CASE WaitBlock
    BY <1>0, DamageStays, <2>8 DEF WaitBlock
  <2>9. CASE WaitReturn
    <3>1. /\ Continue
          /\ \/ caller \in {"spin", "wait_test"} /\ work_to_do = 0
             \/ caller = "resumed" /\ worker \notin {"call", "running", "clear", "notify"}
          /\ UNCHANGED <<worker, running, ran, work_to_do, active, work, spurious>>
      BY <2>9 DEF WaitReturn
    <3> QED
      BY <3>1, ReturnIsPaid
  <2>10. CASE FinalizeDeactivate
    BY <1>0, DamageStays, <2>10 DEF FinalizeDeactivate
  <2>11. CASE FinalizeRaiseFlag
    BY <1>0, DamageStays, <2>11 DEF FinalizeRaiseFlag
  <2>12. CASE FinalizeNotify
    BY <1>0, DamageStays, <2>12 DEF FinalizeNotify, WakeWorker
  <2> QED
    BY <1>1, <2>1, <2>2, <2>3, <2>4, <2>5, <2>6, <2>7, <2>8, <2>9, <2>10, <2>11, <2>12 DEF Caller
<1>2. CASE Worker
  <2>1. CASE WorkerLock
    <3>1. /\ MayRun(n) /\ Owes(n)' = Owes(n) /\ Late' = Late /\ Stake(n)' <= Stake(n)
          /\ job' = job /\ ran' = ran /\ spurious' = spurious
          /\ Owes(n) \in Int /\ Late \in Int /\ spurious \in Nat
      BY <2>1 DEF WorkerLock
    <3> QED
      BY <1>0, <3>1, DamageStays, MoveIsPaid
  <2>2. CASE WorkerTest
    <3>1. /\ MayRun(n) /\ Owes(n)' = Owes(n) /\ Late' = Late /\ Stake(n)' <= Stake(n)
          /\ job' = job /\ ran' = ran /\ spurious' = spurious
          /\ Owes(n) \in Int /\ Late \in Int /\ spurious \in Nat
      BY <2>2 DEF WorkerTest
    <3> QED
      BY <1>0, <3>1, DamageStays, MoveIsPaid
  <2>3. CASE WorkerBlock
    <3>1. /\ MayRun(n) /\ Owes(n)' = Owes(n) /\ Late' = Late /\ Stake(n)' <= Stake(n)
          /\ job' = job /\ ran' = ran /\ spurious' = spurious
          /\ Owes(n) \in Int /\ Late \in Int /\ spurious \in Nat
      BY <2>3 DEF WorkerBlock
    <3> QED
      BY <1>0, <3>1, DamageStays, MoveIsPaid
  <2>4. CASE WorkerRelock
    <3>1. /\ MayRun(n) /\ Owes(n)' = Owes(n) /\ Late' = Late /\ Stake(n)' <= Stake(n)
          /\ job' = job /\ ran' = ran /\ spurious' = spurious
          /\ Owes(n) \in Int /\ Late \in Int /\ spurious \in Nat
      BY <2>4 DEF WorkerRelock
    <3> QED
      BY <1>0, <3>1, DamageStays, MoveIsPaid
  <2>5. CASE WorkerCheckActive
    <3>1. /\ MayRun(n) /\ Owes(n)' = Owes(n) /\ Late' = Late /\ Stake(n)' <= Stake(n)
          /\ job' = job /\ ran' = ran /\ spurious' = spurious
          /\ Owes(n) \in Int /\ Late \in Int /\ spurious \in Nat
      BY <2>5 DEF WorkerCheckActive
    <3> QED
      BY <1>0, <3>1, DamageStays, MoveIsPaid
  <2>6. CASE WorkerLockResume
    <3>1. /\ MayRun(n) /\ Owes(n)' = Owes(n) /\ Late' = Late /\ Stake(n)' <= Stake(n)
          /\ job' = job /\ ran' = ran /\ spurious' = spurious
          /\ Owes(n) \in Int /\ Late \in Int /\ spurious \in Nat
      BY <2>6 DEF WorkerLockResume
    <3> QED
      BY <1>0, <3>1, DamageStays, MoveIsPaid
  <2>7. CASE WorkerCall
    BY <1>0, DamageStays, <2>7 DEF WorkerCall
  <2>8. CASE WorkerCallEmpty
    BY <1>0, DamageStays, <2>8 DEF WorkerCallEmpty
  <2>9. CASE WorkerReturn
    <3>1. /\ running \in Jobs /\ job' = job /\ work' = work /\ caller' = caller
          /\ ran' = [ran EXCEPT ![running] = @ + 1] /\ running' = NoWork
          /\ worker = "running" /\ worker' = "clear"
          /\ UNCHANGED <<work_to_do, active, spurious>>
      BY <2>9 DEF WorkerReturn
    <3>2. Damage' = Damage + (IF running < job THEN Change(running, 1) ELSE 0)
      BY <3>1, DamageOfRun DEF Waking
    <3>3. /\ ran[running] \in Nat /\ ran'[running] = ran[running] + 1
          /\ \A j \in Jobs \ {running} : ran'[j] = ran[j]
      BY <3>1
    <3>4. CASE running = work
      BY <1>0, <3>1, <3>2, <3>3, <3>4
    <3>5. CASE running # work
      <4>1. /\ caller = "set_state" /\ work_to_do = 0 /\ work = job /\ work \in Jobs
            /\ running < job /\ running # NoWork
        BY <3>1, <3>5
      <4>2. n = 1 /\ MayRun(1)
        BY <3>1, <4>1
      <4>3. Damage + Off(ran[job] + 1) + Change(running, 1) <= 2 * spurious
        BY <1>0, <3>5, <4>1, <4>2
      <4>4. ran'[job] = ran[job] /\ Owes(n)' = Off(ran[job] + 1) /\ Late' = 0 /\ Stake(n)' = 0
        BY <3>1, <3>3, <4>1, <4>2
      <4> QED
        BY <1>0, <3>1, <3>2, <3>3, <4>1, <4>3, <4>4
    <3> QED
      BY <3>4, <3>5
  <2>10. CASE WorkerClear
    BY <1>0, DamageStays, <2>10 DEF WorkerClear
  <2>11. CASE WorkerNotify
    BY <1>0, DamageStays, <2>11 DEF WorkerNotify, WakeCaller
  <2> QED
    BY <1>2, <2>1, <2>2, <2>3, <2>4, <2>5, <2>6, <2>7, <2>8, <2>9, <2>10, <2>11 DEF Worker
<1>3. CASE SpuriousWakeup
  <2>1. CASE CallerSpuriousWakeup
    BY <1>0, DamageStays, <2>1 DEF CallerSpuriousWakeup
  <2>2. CASE WorkerSpuriousWakeup
    <3>1. CASE caller \in Finalizing
      BY <1>0, DamageStays, <2>2, <3>1, SMTT(60) DEF WorkerSpuriousWakeup
    <3>2. CASE caller = "set_function"
      BY <1>0, DamageStays, <2>2, <3>2, SMTT(60) DEF WorkerSpuriousWakeup
    <3>3. CASE caller \in {"set_state", "store_flag"}
      BY <1>0, DamageStays, <2>2, <3>3, SMTT(60) DEF WorkerSpuriousWakeup
    <3>4. CASE caller \in Blocked
      BY <1>0, DamageStays, <2>2, <3>4, SMTT(60) DEF WorkerSpuriousWakeup
    <3> QED
      BY <3>1, <3>2, <3>3, <3>4 DEF CallerStates
  <2> QED
    BY <1>3, <2>1, <2>2 DEF SpuriousWakeup
<1>4. CASE UNCHANGED vars
  <2>1. /\ MayRun(n) /\ Owes(n)' = Owes(n) /\ Late' = Late /\ Stake(n)' <= Stake(n)
        /\ job' = job /\ ran' = ran /\ spurious' = spurious
        /\ Owes(n) \in Int /\ Late \in Int /\ spurious \in Nat
    BY <1>4 DEF vars
  <2> QED
    BY <1>0, <2>1, DamageStays, MoveIsPaid
<1> QED
  BY <1>1, <1>2, <1>3, <1>4 DEF Next, Terminated

\* At the start nothing is spoiled and nothing is to be paid for.
LEMMA DamageInvInit == Init => DamageInv
<1> SUFFICES ASSUME Init
             PROVE  DamageInv
  OBVIOUS
<1>1. HandOver
  BY TypeInvInit, NJobsAssumption
     DEF Init, HandOver, LockInv, Announced, HasRun, Finalizing, Jobs, NoWork
<1>2. SpoiledJobs = {}
  BY DEF Init, SpoiledJobs, Jobs
<1>3. Damage = 0
  BY <1>2, FS_EmptySet DEF Damage
<1>4. Covered
  <2> SUFFICES ASSUME NEW n \in 0..2, MayRun(n)
               PROVE  Paid(n)
    BY DEF Covered
  <2>1. Owes(n) = 0 /\ Late = 0 /\ Stake(n) = 0
    BY DEF Init, Owes, Idle, Change, Late, Stake, NextAtStake, NoWork, Waking, Finalizing
  <2> QED
    BY <1>3, <2>1 DEF Paid, Init
<1> QED
  BY <1>1, <1>4 DEF DamageInv

\* Of the ways to go on there is always one that takes no damage back.
LEMMA PaidCovers == DamageInv => DamageBounded
<1> SUFFICES ASSUME HandOver, Covered
             PROVE  Damage <= 2 * spurious
  BY DEF DamageInv, DamageBounded, Damage
<1>1. \E n \in 0..2 : MayRun(n) /\ Owes(n) + Late + Stake(n) >= 0
  <2> USE NJobsAssumption
      DEF HandOver, TypeInv, TypeOK, Announced, HasRun, Finalizing, Blocked, Jobs, NoWork,
          CallerStates, MayRun, Owes, Late, Stake, NextAtStake, StillRuns, Idle, Change,
          Off, Waking
  <2>1. CASE caller \in Finalizing
    <3>1. MayRun(0) /\ Owes(0) = 0 /\ Late = 0 /\ Stake(0) = 0
      BY <2>1
    <3> QED
      BY <3>1
  <2>2. CASE caller = "set_function" /\ work_to_do = 0
    BY <2>2
  <2>3. CASE caller \in {"set_function", "set_state"} /\ work_to_do = 1
    BY <2>3
  <2>4. CASE caller \in {"set_state", "store_flag"} /\ work_to_do = 0
    <3>1. MayRun(1) /\ Stake(1) = 0
      BY <2>4
    <3>2. Owes(1) >= 0 /\ Late >= 0 /\ Owes(1) \in Int /\ Late \in Int
      BY <2>4
    <3> HIDE DEF MayRun, Owes, Late, Stake
    <3> QED
      BY <3>1, <3>2
  <2>5. CASE caller \in Blocked
    BY <2>5
  <2> QED
    BY <2>1, <2>2, <2>3, <2>4, <2>5
<1>2. PICK n \in 0..2 : MayRun(n) /\ Owes(n) + Late + Stake(n) >= 0
  BY <1>1
<1>3. Owes(n) \in Int /\ Late \in Int /\ Stake(n) \in Int
  BY DEF HandOver, TypeInv, TypeOK, Finalizing, Jobs, NoWork, Owes, Late, Stake, Change, Off
<1> HIDE DEF Owes, Late, Stake, Damage
<1> QED
  BY <1>2, <1>3, DamageIsNat DEF Covered, Paid, HandOver, TypeInv, TypeOK

\* Whatever the wakeups, each spurious one spoils at most two jobs, for every
\* number of jobs and of wakeups.
THEOREM DamageIsBounded == SafeSpec => []DamageBounded
<1>1. DamageInv /\ [Next]_vars => DamageInv'
  BY HandOverStep, CoveredStep DEF DamageInv
<1> QED
  BY <1>1, DamageInvInit, PaidCovers, PTL DEF SafeSpec

===============================================================================
