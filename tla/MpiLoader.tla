------------------------------- MODULE MpiLoader -------------------------------
(***************************************************************************)
(* mpi_loader: every MPI rank reads the list of input files, chooses the   *)
(* file it helps to load, finds its place among the ranks of that file     *)
(* with MPI_Comm_split, and runs art on its share of the file's events.    *)
(* Ranks and files are numbered from 0, as in the code.                    *)
(***************************************************************************)
EXTENDS Integers, FiniteSets, LoaderArithmetic

CONSTANTS
  NRanks,     \* size of MPI_COMM_WORLD
  MaxFiles,   \* bound on the records of the events file
  MaxEvents,  \* bound on the events of a file
  MaxFailures \* bound on the art jobs that fail

Ranks == 0..(NRanks - 1)
Numbers == 0..(MaxEvents - 1)
NoFile == -1

ASSUME SizesAssumption ==
  NRanks \in Nat \ {0} /\ MaxFiles \in Nat /\ MaxEvents \in Nat /\ MaxFailures \in Nat

VARIABLES
  pc,       \* "start", "split", "share", "art", "done" or "failed", per rank
  nfiles,   \* records in the events file
  nevents,  \* events in each file, as its record says
  index,    \* the file each rank loads
  local,    \* the communicator each rank has after the split: its members
  share,    \* the events of its file each rank passes to art: [nskip, nevents]
  loaded,   \* how often each event of each file has been stored
  broken    \* the ranks whose art job failed (history)

vars == <<pc, nfiles, nevents, index, local, share, loaded, broken>>

Files == 0..(nfiles - 1)

NoShare == [nskip |-> 0, nevents |-> 0]

Init ==
  /\ pc = [r \in Ranks |-> "start"]
  /\ nfiles \in 0..MaxFiles
  /\ nevents \in [Files -> 0..MaxEvents]
  /\ index = [r \in Ranks |-> NoFile]
  /\ local = [r \in Ranks |-> {}]
  /\ share = [r \in Ranks |-> NoShare]
  /\ loaded = [f \in Files |-> [e \in Numbers |-> 0]]
  /\ broken = {}

\* Mutant: a rank without a file tries again.
TooManyFilesMut(r) ==
  /\ pc[r] = "start"
  /\ nfiles > NRanks \/ nfiles = 0
  /\ UNCHANGED vars

\* calculate_index throws when there are more files than ranks, and divides by
\* zero when there are none.
TooManyFiles(r) ==
  /\ pc[r] = "start"
  /\ nfiles > NRanks \/ nfiles = 0
  /\ pc' = [pc EXCEPT ![r] = "failed"]
  /\ UNCHANGED <<nfiles, nevents, index, local, share, loaded, broken>>

\* Mutant: files are counted from 1.
CalculateIndexMut(r) ==
  /\ pc[r] = "start"
  /\ nfiles \in 1..NRanks
  /\ index' = [index EXCEPT ![r] = FileForRank(nfiles, r, NRanks) + 1]
  /\ pc' = [pc EXCEPT ![r] = "split"]
  /\ UNCHANGED <<nfiles, nevents, local, share, loaded, broken>>

CalculateIndex(r) ==
  /\ pc[r] = "start"
  /\ nfiles \in 1..NRanks
  /\ index' = [index EXCEPT ![r] = FileForRank(nfiles, r, NRanks)]
  /\ pc' = [pc EXCEPT ![r] = "split"]
  /\ UNCHANGED <<nfiles, nevents, local, share, loaded, broken>>

\* MPI_Comm_split is collective: no rank goes on before all have called it.
CommSplit ==
  /\ \A r \in Ranks : pc[r] = "split"
  /\ local' = [r \in Ranks |-> {p \in Ranks : index[p] = index[r]}]
  /\ pc' = [r \in Ranks |-> "share"]
  /\ UNCHANGED <<nfiles, nevents, index, share, loaded, broken>>

\* Equal keys: the new ranks are in the order of the old ones.
LocalRank(r) == Cardinality({p \in local[r] : p < r})

ShareEvents(r) ==
  /\ pc[r] = "share"
  /\ share' = [share EXCEPT ![r] =
       SkipForRank(LocalRank(r), Cardinality(local[r]), nevents[index[r]])]
  /\ pc' = [pc EXCEPT ![r] = "art"]
  /\ UNCHANGED <<nfiles, nevents, index, local, loaded, broken>>

\* The first n events of a rank's share.
FirstOfShare(r, n) == {e \in Slice(share[r]) : e < share[r].nskip + n}

\* art stores the events of the share that the file has, one after the other: all
\* of them, or those before the one it fails at. load_data does not look at its
\* status, so the rank is done either way.
Stores(r, n) ==
  /\ loaded' = [loaded EXCEPT ![index[r]] =
       [e \in DOMAIN @ |->
          IF e \in FirstOfShare(r, n) /\ e < nevents[index[r]] THEN @[e] + 1 ELSE @[e]]]
  /\ pc' = [pc EXCEPT ![r] = "done"]
  /\ UNCHANGED <<nfiles, nevents, index, local, share>>

\* Mutant: the rank looks at the status and runs its failed job a second time.
RunArtMut(r) ==
  /\ pc[r] = "art"
  /\ \/ Stores(r, share[r].nevents) /\ UNCHANGED broken
     \/ /\ Cardinality(broken) < MaxFailures
        /\ \E n \in 0..(share[r].nevents - 1) :
             loaded' = [loaded EXCEPT ![index[r]] =
               [e \in DOMAIN @ |-> IF e \in FirstOfShare(r, n) THEN @[e] + 1 ELSE @[e]]]
        /\ broken' = broken \cup {r}
        /\ UNCHANGED <<pc, nfiles, nevents, index, local, share>>

RunArt(r) ==
  /\ pc[r] = "art"
  /\ \/ Stores(r, share[r].nevents) /\ UNCHANGED broken
     \/ /\ Cardinality(broken) < MaxFailures
        /\ \E n \in 0..(share[r].nevents - 1) : Stores(r, n)
        /\ broken' = broken \cup {r}

RankStep(r) ==
  TooManyFiles(r) \/ CalculateIndex(r) \/ ShareEvents(r) \/ RunArt(r)

Terminated == (\A r \in Ranks : pc[r] \in {"done", "failed"}) /\ UNCHANGED vars

Next == (\E r \in Ranks : RankStep(r)) \/ CommSplit \/ Terminated

Spec == Init /\ [][Next]_vars /\ WF_vars(Next)

-------------------------------------------------------------------------------
(* Properties *)

TypeOK ==
  /\ pc \in [Ranks -> {"start", "split", "share", "art", "done", "failed"}]
  /\ nfiles \in 0..MaxFiles
  /\ nevents \in [Files -> 0..MaxEvents]
  /\ index \in [Ranks -> Files \cup {NoFile}]
  /\ local \in [Ranks -> SUBSET Ranks]
  /\ share \in [Ranks -> [nskip : Nat, nevents : Nat]]
  /\ loaded \in [Files -> [Numbers -> Nat]]
  /\ broken \in SUBSET Ranks

\* No event is loaded by two ranks, and when all ranks are done the events that
\* are missing are in the shares of ranks whose art job failed: a job that fails
\* costs events of its own share and no others.
LoadedOnce ==
  \A f \in Files : \A e \in Numbers :
    /\ loaded[f][e] <= 1
    /\ e >= nevents[f] => loaded[f][e] = 0
    /\ (\A r \in Ranks : pc[r] = "done") /\ e < nevents[f] =>
         \/ loaded[f][e] = 1
         \/ \E r \in broken : index[r] = f /\ e \in Slice(share[r])

\* The ranks are spread evenly over the files, and the events of a file over its
\* ranks: no two files differ by more than one rank, no two shares by more than
\* one event.
Balanced ==
  (\A r \in Ranks : pc[r] \in {"art", "done"}) =>
    /\ \A f, g \in Files :
         Cardinality({r \in Ranks : index[r] = f})
           <= Cardinality({r \in Ranks : index[r] = g}) + 1
    /\ \A r, p \in Ranks :
         index[r] = index[p] => share[r].nevents <= share[p].nevents + 1

\* The loader and mpi_numerology choose the same file and the same share.
AgreesWithNumerology ==
  \A r \in Ranks :
    /\ pc[r] = "split" => index[r] = RanksBySlot(NRanks, nfiles)[r + 1]
    /\ pc[r] = "art" =>
         LET slice == CalculateSliceForRank(LocalRank(r), Cardinality(local[r]),
                                            nevents[index[r]])
         IN /\ share[r].nskip = slice.low
            /\ share[r].nskip + share[r].nevents = slice.high

\* Every rank ends: no rank that has thrown leaves others waiting in the split.
LoadingEnds == <>(\A r \in Ranks : pc[r] \in {"done", "failed"})
===============================================================================
