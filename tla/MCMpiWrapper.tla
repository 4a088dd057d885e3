------------------------------ MODULE MCMpiWrapper ------------------------------
(* The command lines of the scripts with limits that do and do not cover   *)
(* what is loaded, and a script one of whose commands asks for loading and *)
(* processing and is refused.                                              *)
EXTENDS MpiWrapper

Flags(hepnos, root, process, path, limit) ==
  [hepnos |-> hepnos, root |-> root, process |-> process, path |-> path,
   limit |-> limit]

Load(limit) == Flags(TRUE, FALSE, FALSE, TRUE, limit)
Process(limit) == Flags(TRUE, FALSE, TRUE, FALSE, limit)
Both(limit) == Flags(TRUE, FALSE, TRUE, TRUE, limit)
FromRoot(limit) == Flags(FALSE, TRUE, FALSE, TRUE, limit)

\* run_icaruswf_hepnos_mpi_dist_queue_bench.sh and
\* run_icaruswf_root_mpi_dist_queue_bench.sh, and their twins for Theta
MCScripts ==
  [lines : {<<Load(1), Process(1)>>, <<Load(2), Process(1)>>, <<Load(1), Process(2)>>,
            <<FromRoot(2)>>, <<Load(1), Both(1), Process(1)>>},
   stops : BOOLEAN]
===============================================================================
