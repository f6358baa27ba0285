---------------------------- MODULE MCNetworkFn ----------------------------
(***************************************************************************)
(* Instances of NetworkFn for TLC.                                         *)
(***************************************************************************)
EXTENDS NetworkFn
=============================================================================
