--------------------------- MODULE MCVendorPlugin ---------------------------
(***************************************************************************)
(* Instances of VendorPlugin for TLC.  Plugins, callers and ports are      *)
(* model values; the operations of each instance are given in the cfg.     *)
(***************************************************************************)
EXTENDS VendorPlugin, TLC

Symmetry == Permutations(Callers)
=============================================================================
