------------------------------- MODULE MCDaemon -------------------------------
(***************************************************************************)
(* Daemon on small instances.  DPUs that are all on the same side may be   *)
(* permuted.                                                               *)
(***************************************************************************)
EXTENDS Daemon, TLC

DpuSymmetry == Permutations(Dpus)
===============================================================================
