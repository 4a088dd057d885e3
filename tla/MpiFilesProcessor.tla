--------------------------- MODULE MpiFilesProcessor ---------------------------
(***************************************************************************)
(* mpi_files_processor: every MPI rank takes one line of a list of input   *)
(* files and runs the art jobs of the workflow on it one after another,    *)
(* each on the file the job before wrote, with a barrier after every job.  *)
(*                                                                         *)
(* External: art, which succeeds only on a whole input file, MPI_Barrier,  *)
(* and the MPI launcher, which ends a run one of whose ranks has died.     *)
(***************************************************************************)
EXTENDS Naturals

CONSTANTS
  NRanks,     \* size of MPI_COMM_WORLD
  NStages,    \* fcl files on the command line
  MaxLines    \* bound on the lines of the list

ASSUME SizesAssumption ==
  NRanks \in Nat \ {0} /\ NStages \in Nat \ {0} /\ MaxLines \in Nat

Ranks == 0..(NRanks - 1)
Stages == 1..NStages

VARIABLES
  lines,     \* lines of the list
  newline,   \* whether the last line ends with a newline
  pc,        \* "start", "art", "barrier", "done", "terminated" or "killed", per rank
  stage,     \* the job each rank is at
  output     \* out.root by rank and stage: "pending", "whole" or "broken"

vars == <<lines, newline, pc, stage, output>>

Init ==
  /\ lines \in 0..MaxLines
  /\ newline \in BOOLEAN
  /\ pc = [r \in Ranks |-> "start"]
  /\ stage = [r \in Ranks |-> 1]
  /\ output = [r \in Ranks |-> [s \in Stages |-> "pending"]]

\* calculate_input_file: reading the last line up to the end of the file leaves
\* the stream at eof, which is not good().
HasLine(r) == r + 1 < lines \/ (r + 1 = lines /\ newline)

\* Mutant: a rank reads the list without looking at the state of the stream.
TakeFileMut(r) ==
  /\ pc[r] = "start"
  /\ pc' = [pc EXCEPT ![r] = IF lines > 0 THEN "art" ELSE "terminated"]
  /\ UNCHANGED <<lines, newline, stage, output>>

TakeFile(r) ==
  /\ pc[r] = "start"
  /\ HasLine(r)
  /\ pc' = [pc EXCEPT ![r] = "art"]
  /\ UNCHANGED <<lines, newline, stage, output>>

\* Mutant: a rank without a line looks again.
NoFileMut(r) ==
  /\ pc[r] = "start"
  /\ ~ HasLine(r)
  /\ UNCHANGED vars

\* Nothing catches what calculate_input_file throws: the rank dies.
NoFile(r) ==
  /\ pc[r] = "start"
  /\ ~ HasLine(r)
  /\ pc' = [pc EXCEPT ![r] = "terminated"]
  /\ UNCHANGED <<lines, newline, stage, output>>

\* Mutant: previous_directory stays that of the first job.
WholeInputMut(r) == stage[r] > 1 => output[r][1] = "whole"

\* What the job reads is in order: the input file always, a file of the workflow
\* if the job before wrote all of it.
WholeInput(r) == \A s \in Stages : s + 1 = stage[r] => output[r][s] = "whole"

\* The command ends in popd, whose status is 0 whatever art's was. It is another only
\* when pushd or the shell has failed: then nothing is in the directory of the job, and
\* the rank terminates.
RunArtFor(r) ==
  /\ pc[r] = "art"
  /\ \/ /\ \E result \in {"whole", "broken"} :
             /\ result = "whole" => WholeInput(r)
             /\ output' = [output EXCEPT ![r][stage[r]] = result]
        /\ pc' = [pc EXCEPT ![r] = "barrier"]
     \/ pc' = [pc EXCEPT ![r] = "terminated"] /\ UNCHANGED output
  /\ UNCHANGED <<lines, newline, stage>>

\* Barriers a rank has entered.
Entered(r) == IF pc[r] \in {"barrier", "done"} THEN stage[r] ELSE stage[r] - 1

\* Mutant: the jobs follow one another without a barrier.
BarrierMut(r) ==
  /\ pc[r] = "barrier"
  /\ IF stage[r] < NStages
       THEN /\ stage' = [stage EXCEPT ![r] = @ + 1]
            /\ pc' = [pc EXCEPT ![r] = "art"]
       ELSE pc' = [pc EXCEPT ![r] = "done"] /\ UNCHANGED stage
  /\ UNCHANGED <<lines, newline, output>>

\* Mutant: one job too many.
BarrierMut2(r) ==
  /\ pc[r] = "barrier"
  /\ \A p \in Ranks : Entered(p) >= stage[r]
  /\ IF stage[r] <= NStages
       THEN /\ stage' = [stage EXCEPT ![r] = @ + 1]
            /\ pc' = [pc EXCEPT ![r] = "art"]
       ELSE pc' = [pc EXCEPT ![r] = "done"] /\ UNCHANGED stage
  /\ UNCHANGED <<lines, newline, output>>

\* A rank leaves a barrier when all have entered it, each at its own time, and
\* goes on to the next job.
Barrier(r) ==
  /\ pc[r] = "barrier"
  /\ \A p \in Ranks : Entered(p) >= stage[r]
  /\ IF stage[r] < NStages
       THEN /\ stage' = [stage EXCEPT ![r] = @ + 1]
            /\ pc' = [pc EXCEPT ![r] = "art"]
       ELSE pc' = [pc EXCEPT ![r] = "done"] /\ UNCHANGED stage
  /\ UNCHANGED <<lines, newline, output>>

\* The launcher ends the other ranks of a run in which one has died.
Killed(r) ==
  /\ pc[r] \notin {"done", "terminated", "killed"}
  /\ \E p \in Ranks : pc[p] = "terminated"
  /\ pc' = [pc EXCEPT ![r] = "killed"]
  /\ UNCHANGED <<lines, newline, stage, output>>

RankStep(r) ==
  TakeFile(r) \/ NoFile(r) \/ RunArtFor(r) \/ Barrier(r)

Terminated ==
  (\A r \in Ranks : pc[r] \in {"done", "terminated", "killed"}) /\ UNCHANGED vars

Next == (\E r \in Ranks : RankStep(r) \/ Killed(r)) \/ Terminated

\* Every rank is a process of its own, and art jobs end.
Spec ==
  /\ Init /\ [][Next]_vars
  /\ \A r \in Ranks : WF_vars(RankStep(r)) /\ WF_vars(Killed(r))

-------------------------------------------------------------------------------
(* Properties *)

TypeOK ==
  /\ lines \in 0..MaxLines /\ newline \in BOOLEAN
  /\ pc \in [Ranks -> {"start", "art", "barrier", "done", "terminated", "killed"}]
  /\ stage \in [Ranks -> Stages]
  /\ output \in [Ranks -> [Stages -> {"pending", "whole", "broken"}]]

\* The ranks are in step: no rank has run a job before every rank has run all
\* the jobs in front of it.
InStep ==
  \A r, p \in Ranks : \A s \in Stages : \A before \in 1..(s - 1) :
    output[r][s] # "pending" => output[p][before] # "pending"

\* A job that failed is not made up for, though its status is lost: where the file
\* of a later job is whole, so are the files of all the jobs before it.
FailureIsKept ==
  \A r \in Ranks : \A s \in Stages : \A before \in 1..(s - 1) :
    output[r][s] = "whole" => output[r][before] = "whole"

\* A list that is too short for the ranks stops the workflow: the jobs after the
\* first run only when every rank has a file.  A last line without a newline is none.
NoPartialWorkflow ==
  LET files == IF newline \/ lines = 0 THEN lines ELSE lines - 1
  IN  files < NRanks => \A r \in Ranks : \A s \in 2..NStages : output[r][s] = "pending"

\* Every rank ends, by itself or by the launcher: none is left in a barrier.
RanksEnd == <>(\A r \in Ranks : pc[r] \in {"done", "terminated", "killed"})
===============================================================================
