------------------------------- MODULE MpiWrapper -------------------------------
(***************************************************************************)
(* mpi_wrapper: a benchmark script is a sequence of mpiexec commands, each *)
(* of which runs one art job on every rank: loading a range of a ROOT file *)
(* into HEPnOS, processing events from the HEPnOS queue, or processing a   *)
(* range of the file without HEPnOS.  Ranks and events count from 0.       *)
(*                                                                         *)
(* A command line may be refused, and an art job may fail.  The scripts    *)
(* for csresearch00 start with set -e and end at the first command whose   *)
(* status is not 0, those for Theta go on whatever it is.                  *)
(***************************************************************************)
EXTENDS Naturals, Sequences, FiniteSets

CONSTANTS
  NRanks,      \* size of MPI_COMM_WORLD
  MaxEvents,   \* bound on the events of the file
  Scripts      \* scripts: [lines, stops], the command lines and whether set -e is on

CommandLines ==
  [hepnos : BOOLEAN, root : BOOLEAN, process : BOOLEAN, path : BOOLEAN, limit : Nat]

\* One of HEPnOS and ROOT, and with HEPnOS one of loading and processing.
Valid(c) == c.root # c.hepnos /\ (c.hepnos => c.process # c.path)

\* Without a path there is nothing to do but process from HEPnOS.
Accepted(c) == Valid(c) /\ ((c.hepnos /\ c.process) \/ c.path)

Loading(c) == Accepted(c) /\ c.hepnos /\ c.path
Processing(c) == Accepted(c) /\ c.hepnos /\ c.process
FromFile(c) == Accepted(c) /\ c.root
ReadsFile(c) == Loading(c) \/ FromFile(c)

ASSUME SizesAssumption == NRanks \in Nat \ {0} /\ MaxEvents \in Nat
ASSUME ScriptsAssumption == Scripts \subseteq [lines : Seq(CommandLines), stops : BOOLEAN]

\* A script reads the file once and the queue once.  Its limits may be anything, and
\* so may the order of its commands and what is refused between them.
ASSUME OnceAssumption ==
  \A s \in Scripts : \A i, j \in DOMAIN s.lines :
    i # j /\ Accepted(s.lines[i]) /\ Accepted(s.lines[j]) =>
      Processing(s.lines[i]) # Processing(s.lines[j])

Ranks == 0..(NRanks - 1)
Numbers == 0..(MaxEvents - 1)

VARIABLES
  script,      \* the script that runs
  at,          \* the number of its current command
  stopped,     \* it ended at that command because of its status
  nfile,       \* events of the file
  pc,          \* "main", "art" or "exited", per rank
  status,      \* what main of each rank returned to the system
  taken,       \* events the art job of each rank has taken
  queue,       \* events on the HEPnOS queue
  processed,   \* history: how often each event has been processed
  lost,        \* history: events a job took from the queue and failed on
  failed       \* history: art jobs that failed, as <<command, rank, wait status>>

vars ==
  <<script, at, stopped, nfile, pc, status, taken, queue, processed, lost, failed>>

Lines == DOMAIN script.lines
config == script.lines[at]
Running == at \in Lines /\ ~ stopped

Init ==
  /\ script \in Scripts
  /\ at = 1
  /\ stopped = FALSE
  /\ nfile \in 0..MaxEvents
  /\ pc = [r \in Ranks |-> "main"]
  /\ status = [r \in Ranks |-> 0]
  /\ taken = [r \in Ranks |-> 0]
  /\ queue = {}
  /\ processed = [e \in Numbers |-> 0]
  /\ lost = {}
  /\ failed = {}

\* Mutant: the ranges of two ranks overlap.
NskipMut(r, k) == r * (script.lines[k].limit - 1)

\* loadData and runSP give a rank the events from here on.
Nskip(r, k) == r * script.lines[k].limit

\* main returns before MPI is initialised.
Reject(r) ==
  /\ Running
  /\ pc[r] = "main"
  /\ ~ Accepted(config)
  /\ pc' = [pc EXCEPT ![r] = "exited"]
  /\ status' = [status EXCEPT ![r] = 1]
  /\ UNCHANGED <<script, at, stopped, nfile, taken, queue, processed, lost, failed>>

Accept(r) ==
  /\ Running
  /\ pc[r] = "main"
  /\ Accepted(config)
  /\ pc' = [pc EXCEPT ![r] = "art"]
  /\ taken' = [taken EXCEPT ![r] = 0]
  /\ UNCHANGED <<script, at, stopped, nfile, status, queue, processed, lost, failed>>

\* The event of the file an art job of a rank takes next.
NextInFile(r) == Nskip(r, at) + taken[r]

\* The job of a rank has room for one event more.
Takes(r) ==
  /\ pc[r] = "art"
  /\ taken[r] < config.limit
  /\ taken' = [taken EXCEPT ![r] = @ + 1]
  /\ UNCHANGED <<script, at, stopped, nfile, pc, status>>

\* Mutant: the job takes as many events as it was told to, whatever the file has.
LoadEventMut(r) ==
  /\ Takes(r)
  /\ Loading(config)
  /\ queue' = queue \cup {NextInFile(r)}
  /\ UNCHANGED <<processed, lost, failed>>

\* loadData: the event is stored and pushed to the queue.
LoadEvent(r) ==
  /\ Takes(r)
  /\ Loading(config)
  /\ NextInFile(r) < nfile
  /\ queue' = queue \cup {NextInFile(r)}
  /\ UNCHANGED <<processed, lost, failed>>

\* runSH: any event of the queue, whichever rank loaded it.
ProcessEvent(r) ==
  /\ Takes(r)
  /\ Processing(config)
  /\ \E e \in queue :
       /\ queue' = queue \ {e}
       /\ processed' = [processed EXCEPT ![e] = @ + 1]
  /\ UNCHANGED <<lost, failed>>

\* runSP: straight from the file.
ProcessFromFile(r) ==
  /\ Takes(r)
  /\ FromFile(config)
  /\ NextInFile(r) < nfile
  /\ processed' = [processed EXCEPT ![NextInFile(r)] = @ + 1]
  /\ UNCHANGED <<queue, lost, failed>>

\* The art job is at its limit, at the end of the file, or finds the queue empty.
ArtEnds(r) ==
  /\ pc[r] = "art"
  /\ \/ taken[r] = config.limit
     \/ IF Processing(config) THEN queue = {} ELSE NextInFile(r) >= nfile
  /\ pc' = [pc EXCEPT ![r] = "exited"]
  /\ status' = [status EXCEPT ![r] = 0]
  /\ UNCHANGED <<script, at, stopped, nfile, taken, queue, processed, lost, failed>>

\* What std::system gives for an exit code, here 1, and for a death of signal 11 when
\* the shell has given way to art.  (A shell that stays gives the exit code 139.)
ExitCode1 == 1 * 256
Signal11 == 11
WaitStatuses == {ExitCode1, Signal11}

\* Mutant: main returns the status of a job after runSP as well.
ReturnedStatusMut(wait) == wait % 256

\* main returns what std::system gave, of which the system keeps the low eight bits:
\* the exit code is not among them.  After runSP main returns 0.
ReturnedStatus(wait) == IF FromFile(config) THEN 0 ELSE wait % 256

\* An art job fails, with an event of the queue in its hands or without.
ArtFails(r) ==
  /\ pc[r] = "art"
  /\ pc' = [pc EXCEPT ![r] = "exited"]
  /\ \E wait \in WaitStatuses :
       /\ status' = [status EXCEPT ![r] = ReturnedStatus(wait)]
       /\ failed' = failed \cup {<<at, r, wait>>}
  /\ \/ /\ Processing(config)
        /\ taken[r] < config.limit
        /\ \E e \in queue : queue' = queue \ {e} /\ lost' = lost \cup {e}
     \/ UNCHANGED <<queue, lost>>
  /\ UNCHANGED <<script, at, stopped, nfile, taken, processed>>

RankStep(r) ==
  Reject(r) \/ Accept(r) \/ LoadEvent(r) \/ ProcessEvent(r) \/ ProcessFromFile(r)
    \/ ArtEnds(r) \/ ArtFails(r)

\* Mutant: the script does not wait for all the ranks of a command.
NextCommandMut ==
  /\ Running
  /\ \E r \in Ranks : pc[r] = "exited"
  /\ at' = at + 1
  /\ pc' = [r \in Ranks |-> "main"]
  /\ UNCHANGED <<script, stopped, nfile, status, taken, queue, processed, lost, failed>>

\* mpiexec returns when every rank has, with a status that is not 0 if that of a rank
\* is not; under set -e it was then the last command of the script.
NextCommand ==
  /\ Running
  /\ \A r \in Ranks : pc[r] = "exited"
  /\ IF script.stops /\ \E r \in Ranks : status[r] # 0
       THEN stopped' = TRUE /\ UNCHANGED <<at, pc>>
       ELSE at' = at + 1 /\ pc' = [r \in Ranks |-> "main"] /\ UNCHANGED stopped
  /\ UNCHANGED <<script, nfile, status, taken, queue, processed, lost, failed>>

Terminated == ~ Running /\ UNCHANGED vars

Next == (\E r \in Ranks : RankStep(r)) \/ NextCommand \/ Terminated

Spec == Init /\ [][Next]_vars

-------------------------------------------------------------------------------
(* Properties *)

TypeOK ==
  /\ script \in Scripts
  /\ at \in 1..(Len(script.lines) + 1)
  /\ stopped \in BOOLEAN
  /\ nfile \in 0..MaxEvents
  /\ pc \in [Ranks -> {"main", "art", "exited"}]
  /\ status \in [Ranks -> 0..255]
  /\ taken \in [Ranks -> Nat]
  /\ at \in Lines /\ Accepted(config) =>
       \A r \in Ranks : pc[r] # "main" => taken[r] <= config.limit
  /\ queue \subseteq 0..(nfile - 1)
  /\ lost \subseteq 0..(nfile - 1)
  /\ processed \in [Numbers -> Nat]
  /\ failed \subseteq Lines \X Ranks \X WaitStatuses

\* The art job of a rank failed in a command.
Failed(k, r) == \E wait \in WaitStatuses : <<k, r, wait>> \in failed

\* The commands of the script that have been run.
Ran(k) == k \in Lines /\ (k < at \/ (k = at /\ stopped))

\* The events a command that reads the file is about, and those of one rank.
Wanted(k) == {e \in Numbers : e < nfile /\ e < NRanks * script.lines[k].limit}
RangeOf(r, k) ==
  {e \in Wanted(k) : Nskip(r, k) <= e /\ e < Nskip(r, k) + script.lines[k].limit}

\* An event the command is about has been processed, or is on the queue, or was lost by
\* a job that failed on it, or is in the range of a rank whose job of this command
\* failed; any other event was left alone.
Accounted(e, k) ==
  IF e \in Wanted(k)
    THEN \/ processed[e] = 1 \/ e \in queue \/ e \in lost
         \/ \E r \in Ranks : Failed(k, r) /\ e \in RangeOf(r, k)
    ELSE processed[e] = 0 /\ e \notin queue /\ e \notin lost

\* Processed once at most, and then neither on the queue nor lost.
Once(e) ==
  \/ processed[e] = 0 /\ ~ (e \in queue /\ e \in lost)
  \/ processed[e] = 1 /\ e \notin queue /\ e \notin lost

\* Whatever the limits, the order of the commands and the jobs that fail, no event is
\* processed twice, and once the file has been read every event in the ranges of its
\* ranks is accounted for.
EventsAreAccountedFor ==
  /\ \A e \in Numbers : Once(e)
  /\ \A k \in Lines : Ran(k) /\ ReadsFile(script.lines[k]) =>
       \A e \in Numbers : Accounted(e, k)

\* A benchmark none of whose jobs failed processes the file once: all events in the
\* ranges of its ranks; with HEPnOS, as many of them as the limits of the processing
\* jobs add up to, whichever rank they fall to, and it leaves the others on the queue:
\* none when the limits are those of the loading jobs.
BenchmarkIsComplete ==
  failed = {} =>
    \A k \in Lines :
      /\ Ran(k) /\ FromFile(script.lines[k]) => \A e \in Wanted(k) : processed[e] = 1
      /\ Ran(k) /\ Loading(script.lines[k]) =>
           \A j \in Lines : k < j /\ Ran(j) /\ Processing(script.lines[j]) =>
             LET loaded == Cardinality(Wanted(k))
                 places == NRanks * script.lines[j].limit
             IN  Cardinality(queue) = IF loaded <= places THEN 0 ELSE loaded - places

\* Under set -e a script ends at the first command that was refused, or one of whose
\* jobs with HEPnOS died of a signal, on whichever rank; without set -e it ends at
\* none.  An art job that failed with an exit code does not end it: none of the bits
\* of that code is in the status main returns.
WhatEndsAScript ==
  \A k \in Lines : Ran(k) =>
    (stopped /\ k = at <=>
       /\ script.stops
       /\ \/ ~ Accepted(script.lines[k])
          \/ /\ ~ FromFile(script.lines[k])
             /\ \E r \in Ranks : <<k, r, Signal11>> \in failed)
===============================================================================
