----------------------------- MODULE MCOperator -----------------------------
(***************************************************************************)
(* Operator on small instances: two steps of Reconcile, the first with two *)
(* files.                                                                  *)
(***************************************************************************)
EXTENDS Operator

CONSTANTS role, daemonset, nad

TwoSteps == <<<<role, daemonset>>, <<nad>>>>
=============================================================================
