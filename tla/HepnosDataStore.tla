---------------------------- MODULE HepnosDataStore ----------------------------
(***************************************************************************)
(* The art service that owns the HEPnOS connection.  A detached worker     *)
(* thread executes every HEPnOS call; the art thread hands a function over *)
(* with set_work_function, raises the flag with set_work_state and blocks  *)
(* in wait until the worker has lowered the flag.  The hand-over uses two  *)
(* mutexes and two condition variables, and neither condition variable is  *)
(* waited for in a loop: `spurious` counts the wakeups nobody asked for,   *)
(* which the C++ standard allows.                                          *)
(*                                                                         *)
(* Job 1 is the connect the constructor submits, job NJobs the reset that  *)
(* finalize submits; the jobs between are the run_hepnos_func calls of the *)
(* source and output modules.                                              *)
(***************************************************************************)
EXTENDS Naturals, FiniteSets

CONSTANTS
  NJobs,         \* functions handed over in the life of the service
  MaxSpurious    \* bound on the spurious wakeups of a behaviour

ASSUME NJobsAssumption == NJobs \in Nat /\ NJobs >= 2
ASSUME MaxSpuriousAssumption == MaxSpurious \in Nat

VARIABLES
  caller,      \* where the art thread is
  worker,      \* where the worker thread is
  mutexHepnos, \* owner of mutex_hepnos_thread
  mutexResume, \* owner of mutex_calling_thread_resume
  work_to_do,  \* the flag, 0 or 1
  active,      \* cleared to stop the worker
  work,        \* the function that is set, NoWork before the first
  job,         \* the job the art thread is submitting
  running,     \* the job the worker is inside, NoWork when none
  ran,         \* history: how often each job has been executed
  spurious     \* history: spurious wakeups so far

callerVars  == <<caller, job>>
workerVars  == <<worker, running, ran>>
vars == <<caller, worker, mutexHepnos, mutexResume, work_to_do, active, work,
          job, running, ran, spurious>>

NoWork == 0
Jobs == 1..NJobs

CallerStates ==
  {"set_function", "set_state", "store_flag", "spin", "wait_lock", "wait_test",
   "wait_block", "asleep", "resumed", "deactivate", "raise_flag", "notify",
   "destroyed", "aborted"}

WorkerStates ==
  {"lock", "test", "block", "asleep", "relock", "check_active", "lock_resume",
   "call", "running", "clear", "notify", "exited", "aborted"}

Init ==
  /\ caller = "set_function"
  /\ worker = "lock"
  /\ mutexHepnos = "none"
  /\ mutexResume = "none"
  /\ work_to_do = 0
  /\ active = TRUE
  /\ work = NoWork
  /\ job = 1
  /\ running = NoWork
  /\ ran = [j \in Jobs |-> 0]
  /\ spurious = 0

-------------------------------------------------------------------------------
(* The art thread *)

\* set_work_function: replaces the function only while the flag is down.
SetWorkFunction ==
  /\ caller = "set_function"
  /\ work' = IF work_to_do = 0 THEN job ELSE work
  /\ caller' = "set_state"
  /\ UNCHANGED <<workerVars, mutexHepnos, mutexResume, work_to_do, active, job,
                 spurious>>

\* The constructor spins on the flag, every other caller calls wait.
AfterSubmission == IF job = 1 THEN "spin" ELSE "wait_lock"

\* set_work_state, entry: with the flag up the call only prints an error.
SetWorkStateRejected ==
  /\ caller = "set_state"
  /\ work_to_do # 0
  /\ caller' = AfterSubmission
  /\ UNCHANGED <<workerVars, mutexHepnos, mutexResume, work_to_do, active, work,
                 job, spurious>>

SetWorkStateLock ==
  /\ caller = "set_state"
  /\ work_to_do = 0
  /\ mutexHepnos = "none"
  /\ mutexHepnos' = "caller"
  /\ caller' = "store_flag"
  /\ UNCHANGED <<workerVars, mutexResume, work_to_do, active, work, job, spurious>>

\* notify_one wakes the thread blocked on the condition variable, if there is one.
WakeWorker == worker' = IF worker = "asleep" THEN "relock" ELSE worker
WakeCaller == caller' = IF caller = "asleep" THEN "resumed" ELSE caller

\* set_work_state: raise the flag, notify the worker, release the mutex.
SetWorkStateStore ==
  /\ caller = "store_flag"
  /\ work_to_do' = 1
  /\ WakeWorker
  /\ mutexHepnos' = "none"
  /\ caller' = AfterSubmission
  /\ UNCHANGED <<running, ran, mutexResume, active, work, job, spurious>>

\* Mutant: the last job is not followed by the rest of finalize.
ContinueMut ==
  /\ job' = job + 1
  /\ caller' = "set_function"

\* The caller's function returns: the next job, or the rest of finalize.
Continue ==
  /\ job' = job + 1
  /\ caller' = IF job = NJobs THEN "deactivate" ELSE "set_function"

\* The busy wait at the end of the constructor.
ConstructorSpin ==
  /\ caller = "spin"
  /\ work_to_do = 0
  /\ Continue
  /\ UNCHANGED <<workerVars, mutexHepnos, mutexResume, work_to_do, active, work,
                 spurious>>

WaitLock ==
  /\ caller = "wait_lock"
  /\ mutexResume = "none"
  /\ mutexResume' = "caller"
  /\ caller' = "wait_test"
  /\ UNCHANGED <<workerVars, mutexHepnos, work_to_do, active, work, job, spurious>>

\* Mutant: wait never blocks.
WaitTestMut ==
  /\ caller = "wait_test"
  /\ Continue
  /\ mutexResume' = "none"
  /\ UNCHANGED <<workerVars, mutexHepnos, work_to_do, active, work, spurious>>

\* wait: a job that is already done lets the caller go on at once.
WaitTest ==
  /\ caller = "wait_test"
  /\ IF work_to_do = 0
       THEN Continue /\ mutexResume' = "none"
       ELSE caller' = "wait_block" /\ UNCHANGED <<job, mutexResume>>
  /\ UNCHANGED <<workerVars, mutexHepnos, work_to_do, active, work, spurious>>

\* Blocking on cond_var_resume_execution releases the mutex atomically.
WaitBlock ==
  /\ caller = "wait_block"
  /\ mutexResume' = "none"
  /\ caller' = "asleep"
  /\ UNCHANGED <<workerVars, mutexHepnos, work_to_do, active, work, job, spurious>>

\* Woken: take the mutex again and return; the flag is not looked at again.
WaitReturn ==
  /\ caller = "resumed"
  /\ mutexResume = "none"
  /\ Continue
  /\ UNCHANGED <<workerVars, mutexHepnos, mutexResume, work_to_do, active, work,
                 spurious>>

\* Mutant: finalize raises the flag and leaves the worker active.
FinalizeDeactivateMut ==
  /\ caller = "deactivate"
  /\ caller' = "raise_flag"
  /\ UNCHANGED <<workerVars, mutexHepnos, mutexResume, work_to_do, active, work,
                 job, spurious>>

\* finalize, after its reset job: three steps without the mutex.
FinalizeDeactivate ==
  /\ caller = "deactivate"
  /\ active' = FALSE
  /\ caller' = "raise_flag"
  /\ UNCHANGED <<workerVars, mutexHepnos, mutexResume, work_to_do, work, job,
                 spurious>>

FinalizeRaiseFlag ==
  /\ caller = "raise_flag"
  /\ work_to_do' = 1
  /\ caller' = "notify"
  /\ UNCHANGED <<workerVars, mutexHepnos, mutexResume, active, work, job, spurious>>

FinalizeNotify ==
  /\ caller = "notify"
  /\ WakeWorker
  /\ caller' = "destroyed"
  /\ UNCHANGED <<running, ran, mutexHepnos, mutexResume, work_to_do, active, work,
                 job, spurious>>

CallerSpuriousWakeup ==
  /\ caller = "asleep"
  /\ spurious < MaxSpurious
  /\ spurious' = spurious + 1
  /\ caller' = "resumed"
  /\ UNCHANGED <<workerVars, mutexHepnos, mutexResume, work_to_do, active, work, job>>

-------------------------------------------------------------------------------
(* The worker thread *)

WorkerLock ==
  /\ worker = "lock"
  /\ mutexHepnos = "none"
  /\ mutexHepnos' = "worker"
  /\ worker' = "test"
  /\ UNCHANGED <<callerVars, running, ran, mutexResume, work_to_do, active, work,
                 spurious>>

\* Mutant: the worker polls the flag with the mutex in hand.
WorkerTestMut ==
  /\ worker = "test"
  /\ worker' = IF work_to_do = 0 THEN "test" ELSE "check_active"
  /\ UNCHANGED <<callerVars, running, ran, mutexHepnos, mutexResume, work_to_do,
                 active, work, spurious>>

WorkerTest ==
  /\ worker = "test"
  /\ worker' = IF work_to_do = 0 THEN "block" ELSE "check_active"
  /\ UNCHANGED <<callerVars, running, ran, mutexHepnos, mutexResume, work_to_do,
                 active, work, spurious>>

WorkerBlock ==
  /\ worker = "block"
  /\ mutexHepnos' = "none"
  /\ worker' = "asleep"
  /\ UNCHANGED <<callerVars, running, ran, mutexResume, work_to_do, active, work,
                 spurious>>

\* Woken: take the mutex again; the flag is not looked at again.
WorkerRelock ==
  /\ worker = "relock"
  /\ mutexHepnos = "none"
  /\ mutexHepnos' = "worker"
  /\ worker' = "check_active"
  /\ UNCHANGED <<callerVars, running, ran, mutexResume, work_to_do, active, work,
                 spurious>>

WorkerCheckActive ==
  /\ worker = "check_active"
  /\ IF active
       THEN worker' = "lock_resume" /\ UNCHANGED mutexHepnos
       ELSE worker' = "exited" /\ mutexHepnos' = "none"
  /\ UNCHANGED <<callerVars, running, ran, mutexResume, work_to_do, active, work,
                 spurious>>

WorkerLockResume ==
  /\ worker = "lock_resume"
  /\ mutexResume = "none"
  /\ mutexResume' = "worker"
  /\ worker' = "call"
  /\ UNCHANGED <<callerVars, running, ran, mutexHepnos, work_to_do, active, work,
                 spurious>>

WorkerCall ==
  /\ worker = "call"
  /\ work # NoWork
  /\ running' = work
  /\ worker' = "running"
  /\ UNCHANGED <<callerVars, ran, mutexHepnos, mutexResume, work_to_do, active,
                 work, spurious>>

\* Calling an empty std::function throws out of the thread: the process ends.
WorkerCallEmpty ==
  /\ worker = "call"
  /\ work = NoWork
  /\ worker' = "aborted"
  /\ caller' = "aborted"
  /\ UNCHANGED <<job, running, ran, mutexHepnos, mutexResume, work_to_do, active,
                 work, spurious>>

WorkerReturn ==
  /\ worker = "running"
  /\ ran' = [ran EXCEPT ![running] = @ + 1]
  /\ running' = NoWork
  /\ worker' = "clear"
  /\ UNCHANGED <<callerVars, mutexHepnos, mutexResume, work_to_do, active, work,
                 spurious>>

\* Mutant: the flag stays up after the job.
WorkerClearMut ==
  /\ worker = "clear"
  /\ worker' = "notify"
  /\ UNCHANGED <<callerVars, running, ran, mutexHepnos, mutexResume, work_to_do,
                 active, work, spurious>>

WorkerClear ==
  /\ worker = "clear"
  /\ work_to_do' = 0
  /\ worker' = "notify"
  /\ UNCHANGED <<callerVars, running, ran, mutexHepnos, mutexResume, active, work,
                 spurious>>

\* Both locks go out of scope at the end of the iteration.
WorkerNotify ==
  /\ worker = "notify"
  /\ WakeCaller
  /\ mutexResume' = "none"
  /\ mutexHepnos' = "none"
  /\ worker' = "lock"
  /\ UNCHANGED <<job, running, ran, work_to_do, active, work, spurious>>

WorkerSpuriousWakeup ==
  /\ worker = "asleep"
  /\ spurious < MaxSpurious
  /\ spurious' = spurious + 1
  /\ worker' = "relock"
  /\ UNCHANGED <<callerVars, running, ran, mutexHepnos, mutexResume, work_to_do,
                 active, work>>

-------------------------------------------------------------------------------
Caller ==
  \/ SetWorkFunction \/ SetWorkStateRejected \/ SetWorkStateLock
  \/ SetWorkStateStore \/ ConstructorSpin \/ WaitLock \/ WaitTest \/ WaitBlock
  \/ WaitReturn \/ FinalizeDeactivate \/ FinalizeRaiseFlag \/ FinalizeNotify

Worker ==
  \/ WorkerLock \/ WorkerTest \/ WorkerBlock \/ WorkerRelock
  \/ WorkerCheckActive \/ WorkerLockResume \/ WorkerCall \/ WorkerCallEmpty
  \/ WorkerReturn \/ WorkerClear \/ WorkerNotify

SpuriousWakeup == CallerSpuriousWakeup \/ WorkerSpuriousWakeup

\* The destructor has returned, or the process has ended.
Terminated == caller \in {"destroyed", "aborted"} /\ UNCHANGED vars

Next == Caller \/ Worker \/ SpuriousWakeup \/ Terminated

\* Both threads are scheduled by the operating system and each mutex is free
\* for good once its owner has blocked, so weak fairness per thread is enough.
Fairness == WF_vars(Caller) /\ WF_vars(Worker)

SafeSpec == Init /\ [][Next]_vars
Spec == SafeSpec /\ Fairness

-------------------------------------------------------------------------------
(* Properties *)

TypeOK ==
  /\ caller \in CallerStates
  /\ worker \in WorkerStates
  /\ mutexHepnos \in {"none", "caller", "worker"}
  /\ mutexResume \in {"none", "caller", "worker"}
  /\ work_to_do \in {0, 1}
  /\ active \in BOOLEAN
  /\ work \in Jobs \cup {NoWork}
  /\ job \in 1..(NJobs + 1)
  /\ running \in Jobs \cup {NoWork}
  /\ ran \in [Jobs -> Nat]
  /\ spurious \in 0..MaxSpurious

\* Where the art thread is while a job of its own may be executing.
Blocked ==
  {"spin", "wait_lock", "wait_test", "wait_block", "asleep", "resumed"}

\* Until a wakeup is spurious: when a call returns its function has been executed,
\* once, and no function runs ahead of its turn, whatever the interleaving.
ExactlyOnce ==
  spurious = 0 => \A j \in Jobs :
    /\ ran[j] <= 1
    /\ j < job => ran[j] = 1
    /\ j > job => ran[j] = 0

\* The functions capture the caller's locals by reference: until a wakeup is
\* spurious one is executed only while the call that set it has not returned, and
\* it is the one that call set.
WorkInsideItsCall ==
  spurious = 0 /\ running # NoWork => running = job /\ caller \in Blocked

\* A spurious wakeup spoils at most two jobs (one executed late or again, and
\* one whose function is refused or replaced); the protocol then recovers.
SpoiledJobs == {j \in Jobs : j < job /\ ran[j] # 1}

DamageBounded == Cardinality(SpoiledJobs) <= 2 * spurious

\* The art thread is never left blocked: the destructor returns, or a wakeup
\* before the first job has ended the process.
CallerNeverStuck == <>(caller \in {"destroyed", "aborted"})

\* The destructor instructs the worker thread to stop, and it stops.
WorkerStops == <>(worker \in {"exited", "aborted"})

\* Where the call in progress is, as the modules see it.
phase ==
  CASE caller = "destroyed" -> "stopped"
    [] caller \in Blocked -> IF ran[job] = 0 THEN "submitted" ELSE "executed"
    [] OTHER -> "ready"

Executor == INSTANCE WorkExecutor WITH NJobs <- NJobs, phase <- phase, job <- job, ran <- ran

\* Seen from the modules the service is the synchronous executor: until a wakeup is
\* spurious every step of the two threads is a step of the executor, or none.
ExecutorSafeSpec ==
  Executor!Init /\ [][spurious' = 0 => [Executor!Next]_(Executor!avars)]_vars
===============================================================================
