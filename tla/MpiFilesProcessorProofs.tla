------------------------ MODULE MpiFilesProcessorProofs ------------------------
(***************************************************************************)
(* What the barriers of mpi_files_processor guarantee, for any number of   *)
(* ranks, of jobs and of lines in the list.                                *)
(***************************************************************************)
EXTENDS MpiFilesProcessor, Integers, TLAPS

\* A rank has an output for the jobs it is through with, and for no other.
OutputsFollowStage ==
  \A r \in Ranks : \A s \in Stages :
    /\ s < stage[r] \/ (s = stage[r] /\ pc[r] \in {"barrier", "done"}) =>
         output[r][s] # "pending"
    /\ s > stage[r] \/ (s = stage[r] /\ pc[r] \in {"start", "art", "terminated"}) =>
         output[r][s] = "pending"

\* A rank is at a job only if every rank has run the jobs in front of it.
JobsInFrontAreRun ==
  \A r, p \in Ranks : \A s \in Stages : s < stage[r] => output[p][s] # "pending"

\* Only a rank with a line of its own runs a job.
FileHasLine ==
  \A r \in Ranks :
    /\ pc[r] \in {"art", "barrier", "done"} => HasLine(r)
    /\ \A s \in Stages : output[r][s] # "pending" => HasLine(r)

IInv == TypeOK /\ OutputsFollowStage /\ JobsInFrontAreRun /\ FileHasLine

\* At the start no job has run.
LEMMA IInvInit == Init => IInv
BY SizesAssumption
   DEF Init, IInv, TypeOK, OutputsFollowStage, JobsInFrontAreRun, FileHasLine, Ranks, Stages

\* Taking a file, or being turned away.
LEMMA ListKeeps ==
  ASSUME IInv, NEW r \in Ranks, TakeFile(r) \/ NoFile(r)
  PROVE  IInv'
BY DEF IInv, TypeOK, OutputsFollowStage, JobsInFrontAreRun, FileHasLine, TakeFile, NoFile,
       HasLine

\* A job writes the output of its own rank and stage, or none when its rank terminates.
LEMMA ArtKeeps ==
  ASSUME IInv, NEW r \in Ranks, RunArtFor(r)
  PROVE  IInv'
<1> USE DEF IInv
<1>1. /\ pc[r] = "art" /\ UNCHANGED <<lines, newline, stage>>
      /\ stage[r] \in Stages /\ stage \in [Ranks -> Stages]
  BY DEF TypeOK, RunArtFor
<1>2. ASSUME NEW result \in {"whole", "broken"},
             output' = [output EXCEPT ![r][stage[r]] = result],
             pc' = [pc EXCEPT ![r] = "barrier"]
      PROVE  IInv'
  <2>1. \A p \in Ranks : \A s \in Stages :
          output'[p][s] = IF p = r /\ s = stage[r] THEN result ELSE output[p][s]
    BY <1>1, <1>2 DEF TypeOK
  <2>2. TypeOK'
    BY <1>1, <1>2 DEF TypeOK
  <2>3. OutputsFollowStage'
    BY <1>1, <1>2, <2>1, SizesAssumption DEF OutputsFollowStage, TypeOK, Stages
  <2>4. JobsInFrontAreRun'
    BY <1>1, <2>1 DEF JobsInFrontAreRun
  <2>5. FileHasLine'
    BY <1>1, <1>2, <2>1 DEF FileHasLine, TypeOK, HasLine
  <2> QED
    BY <2>2, <2>3, <2>4, <2>5
<1>3. CASE pc' = [pc EXCEPT ![r] = "terminated"] /\ UNCHANGED output
  <2>1. TypeOK'
    BY <1>1, <1>3 DEF TypeOK
  <2>2. OutputsFollowStage' /\ JobsInFrontAreRun' /\ FileHasLine'
    BY <1>1, <1>3 DEF TypeOK, OutputsFollowStage, JobsInFrontAreRun, FileHasLine, HasLine
  <2> QED
    BY <2>1, <2>2
<1> QED
  BY <1>2, <1>3 DEF RunArtFor

\* Leaving a barrier: every rank has entered it, so has run the job before it.
LEMMA BarrierKeeps ==
  ASSUME IInv, NEW r \in Ranks, Barrier(r)
  PROVE  IInv'
<1> USE DEF IInv, Barrier
<1>1. /\ stage \in [Ranks -> Stages] /\ stage' \in [Ranks -> Stages]
      /\ \A p \in Ranks : p # r => stage'[p] = stage[p] /\ pc'[p] = pc[p]
      /\ \/ stage'[r] = stage[r] + 1 /\ pc'[r] = "art"
         \/ stage'[r] = stage[r] /\ pc'[r] = "done"
  BY SizesAssumption DEF TypeOK, Stages
<1>2. TypeOK'
  BY <1>1 DEF TypeOK
<1>3. \A p \in Ranks : output[p][stage[r]] # "pending"
  <2> SUFFICES ASSUME NEW p \in Ranks
               PROVE  output[p][stage[r]] # "pending"
    OBVIOUS
  <2>1. stage[r] \in Stages /\ stage[p] \in Stages /\ Entered(p) >= stage[r]
    BY <1>1
  <2>2. CASE pc[p] \in {"barrier", "done"}
    BY <2>1, <2>2 DEF Entered, OutputsFollowStage, Stages
  <2>3. CASE pc[p] \notin {"barrier", "done"}
    BY <2>1, <2>3 DEF Entered, OutputsFollowStage, Stages
  <2> QED
    BY <2>2, <2>3
<1>4. OutputsFollowStage'
  BY <1>1, <1>3 DEF OutputsFollowStage, Stages
<1>5. JobsInFrontAreRun'
  BY <1>1, <1>3 DEF JobsInFrontAreRun, Stages
<1>6. FileHasLine'
  BY <1>1 DEF FileHasLine, HasLine
<1> QED
  BY <1>2, <1>4, <1>5, <1>6

\* A rank that is killed leaves its outputs as they are.
LEMMA KilledKeeps ==
  ASSUME IInv, NEW r \in Ranks, Killed(r)
  PROVE  IInv'
BY DEF IInv, TypeOK, OutputsFollowStage, JobsInFrontAreRun, FileHasLine, Killed, HasLine

\* Every step keeps IInv.
LEMMA IInvStep == IInv /\ [Next]_vars => IInv'
<1> SUFFICES ASSUME IInv, [Next]_vars
             PROVE  IInv'
  OBVIOUS
<1>1. CASE \E r \in Ranks : RankStep(r) \/ Killed(r)
  BY <1>1, ListKeeps, ArtKeeps, BarrierKeeps, KilledKeeps DEF RankStep
<1>2. CASE UNCHANGED vars
  BY <1>2 DEF vars, IInv, TypeOK, OutputsFollowStage, JobsInFrontAreRun, FileHasLine, HasLine
<1> QED
  BY <1>1, <1>2 DEF Next, Terminated

\* IInv holds throughout.
LEMMA IInvAlways == Spec => []IInv
BY IInvInit, IInvStep, PTL DEF Spec

\* The types of the state of mpi_files_processor, whatever its list of files.
THEOREM ProcessorTypes == Spec => []TypeOK
<1>1. IInv => TypeOK
  BY DEF IInv
<1> QED
  BY IInvAlways, <1>1, PTL

\* The barriers keep any number of ranks in step through any number of jobs.
THEOREM RanksAreInStep == Spec => []InStep
<1>1. IInv => InStep
  <2> SUFFICES ASSUME IInv, NEW r \in Ranks, NEW p \in Ranks, NEW s \in Stages,
                      NEW before \in 1..(s - 1), output[r][s] # "pending"
               PROVE  output[p][before] # "pending"
    BY DEF InStep
  <2>1. before \in Stages /\ before < s /\ stage[r] \in Stages
    BY SizesAssumption DEF IInv, TypeOK, Stages
  <2>2. before < stage[r]
    BY <2>1 DEF IInv, OutputsFollowStage, Stages
  <2> QED
    BY <2>1, <2>2 DEF IInv, JobsInFrontAreRun
<1> QED
  BY IInvAlways, <1>1, PTL

\* With a list too short for the ranks, or just long enough but for the newline at
\* its end, no job after the first ever runs.
THEOREM ShortListStopsAll == Spec => []NoPartialWorkflow
<1>1. IInv => NoPartialWorkflow
  <2> DEFINE files == IF newline \/ lines = 0 THEN lines ELSE lines - 1
  <2> SUFFICES ASSUME IInv, files < NRanks, NEW r \in Ranks, NEW s \in 2..NStages,
                      output[r][s] # "pending"
               PROVE  FALSE
    BY DEF NoPartialWorkflow, IInv, TypeOK, Stages
  <2> DEFINE p == NRanks - 1
  <2>0. p \in Ranks /\ ~ HasLine(p)
    BY SizesAssumption DEF Ranks, HasLine, IInv, TypeOK
  <2>1. 1 \in Stages /\ s \in Stages /\ stage[r] \in Stages
    BY SizesAssumption DEF IInv, TypeOK, Stages
  <2>2. 1 < stage[r]
    BY <2>1 DEF IInv, OutputsFollowStage, Stages
  <2>3. output[p][1] # "pending"
    BY <2>0, <2>1, <2>2 DEF IInv, JobsInFrontAreRun
  <2> QED
    BY <2>0, <2>1, <2>3 DEF IInv, FileHasLine
<1> QED
  BY IInvAlways, <1>1, PTL

\* A job that failed leaves no whole file behind it in its rank, through any number
\* of jobs, though its status is lost.
THEOREM FailuresAreKept == Spec => []FailureIsKept
<1>1. Init => FailureIsKept
  BY SizesAssumption DEF Init, FailureIsKept, Stages
<1>2. IInv /\ FailureIsKept /\ [Next]_vars => FailureIsKept'
  <2> SUFFICES ASSUME IInv, FailureIsKept, [Next]_vars
               PROVE  FailureIsKept'
    OBVIOUS
  <2>1. CASE UNCHANGED output
    BY <2>1 DEF FailureIsKept
  <2>2. ASSUME NEW r \in Ranks, RunArtFor(r), ~ UNCHANGED output
        PROVE  FailureIsKept'
    <3>1. PICK result \in {"whole", "broken"} :
            /\ result = "whole" => WholeInput(r)
            /\ output' = [output EXCEPT ![r][stage[r]] = result]
      BY <2>2 DEF RunArtFor
    <3>2. pc[r] = "art" /\ stage[r] \in Stages
      BY <2>2 DEF RunArtFor, IInv, TypeOK
    <3>3. \A p \in Ranks : \A s \in Stages :
            output'[p][s] = IF p = r /\ s = stage[r] THEN result ELSE output[p][s]
      BY <3>1, <3>2 DEF IInv, TypeOK
    <3> SUFFICES ASSUME NEW p \in Ranks, NEW s \in Stages, NEW before \in 1..(s - 1),
                        output'[p][s] = "whole"
                 PROVE  output'[p][before] = "whole"
      BY DEF FailureIsKept
    <3>4. before \in Stages /\ before < s
      BY SizesAssumption DEF Stages
    <3>5. CASE p = r /\ s = stage[r]
      <4>1. s - 1 \in Stages /\ (s - 1) + 1 = stage[r]
        BY <3>4, <3>5, SizesAssumption DEF Stages
      <4>2. output[r][s - 1] = "whole"
        BY <3>1, <3>3, <3>5, <4>1 DEF WholeInput
      <4>3. before = s - 1 \/ before \in 1..((s - 1) - 1)
        BY <3>4 DEF Stages
      <4>4. output[r][before] = "whole"
        BY <4>1, <4>2, <4>3 DEF FailureIsKept
      <4> QED
        BY <3>3, <3>4, <3>5, <4>4 DEF Stages
    <3>6. CASE p = r /\ s # stage[r]
      <4>1. output[r][s] = "whole"
        BY <3>3, <3>6
      <4>2. s < stage[r]
        BY <3>2, <3>6, <4>1 DEF IInv, OutputsFollowStage, Stages
      <4> QED
        BY <3>3, <3>4, <3>6, <4>1, <4>2 DEF FailureIsKept, Stages
    <3>7. CASE p # r
      BY <3>3, <3>4, <3>7 DEF FailureIsKept
    <3> QED
      BY <3>5, <3>6, <3>7
  <2> QED
    BY <2>1, <2>2 DEF Next, RankStep, TakeFile, NoFile, Barrier, Killed, Terminated, vars
<1> QED
  BY <1>1, <1>2, IInvAlways, PTL DEF Spec
===============================================================================
