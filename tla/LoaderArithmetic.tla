---------------------------- MODULE LoaderArithmetic ----------------------------
(***************************************************************************)
(* The pure functions of mpi_loader, and the functions of mpi_numerology   *)
(* that compute the same things another way.                               *)
(***************************************************************************)
EXTENDS Integers, Sequences

\* Mutant: the ranks after the remainder start without it.
SkipForRankMut(my_rank, nranks, nevents) ==
  LET q == nevents \div nranks
      r == nevents % nranks
  IN IF my_rank < r
       THEN [nskip |-> (q + 1) * my_rank, nevents |-> q + 1]
       ELSE [nskip |-> q * my_rank, nevents |-> q]

\* The events a rank skips and reads, out of nranks ranks that share nevents.
SkipForRank(my_rank, nranks, nevents) ==
  LET q == nevents \div nranks
      r == nevents % nranks
  IN IF my_rank < r
       THEN [nskip |-> (q + 1) * my_rank, nevents |-> q + 1]
       ELSE [nskip |-> q * my_rank + r, nevents |-> q]

\* The events of a share.
Slice(share) == share.nskip..(share.nskip + share.nevents - 1)

\* Mutant: one file more than the remainder gets an extra rank.
RanksForFileMut(nfiles, nranks, i) ==
  nranks \div nfiles + (IF i <= nranks % nfiles THEN 1 ELSE 0)

\* The first files, as many as the remainder, get one rank more.
RanksForFile(nfiles, nranks, i) ==
  nranks \div nfiles + (IF i < nranks % nfiles THEN 1 ELSE 0)

\* The loop of calculate_index: ranks of the files before file i.
RanksBefore(nfiles, nranks) ==
  LET sum[i \in 0..nfiles] ==
        IF i = 0 THEN 0 ELSE sum[i - 1] + RanksForFile(nfiles, nranks, i - 1)
  IN sum

\* The file a rank loads: the first whose ranks reach beyond it.
FileForRank(nfiles, my_rank, nranks) ==
  CHOOSE i \in 0..(nfiles - 1) :
    /\ my_rank < RanksBefore(nfiles, nranks)[i + 1]
    /\ \A k \in 0..(i - 1) : my_rank >= RanksBefore(nfiles, nranks)[k + 1]

\* mpi_numerology.calculate_slice_for_rank: [low, high).
CalculateSliceForRank(myrank, nranks, arraysz) ==
  LET minsize == arraysz \div nranks
      leftovers == arraysz % nranks
      slice_size == IF myrank < leftovers THEN minsize + 1 ELSE minsize
      low == IF myrank < leftovers
               THEN myrank * slice_size
               ELSE leftovers + myrank * slice_size
  IN [low |-> low, high |-> low + slice_size]

\* mpi_numerology.ranks_by_slot: the slot of every rank, in the order of the slots.
RanksBySlot(nranks, arraysz) ==
  LET list[i \in 0..arraysz] ==
        IF i = 0 THEN <<>>
        ELSE list[i - 1] \o [k \in 1..RanksForFile(arraysz, nranks, i - 1) |-> i - 1]
  IN list[arraysz]
===============================================================================
