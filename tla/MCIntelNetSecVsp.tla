-------------------------- MODULE MCIntelNetSecVsp --------------------------
(* Small instances of IntelNetSecVsp; the bounds are in the cfg files.     *)
EXTENDS IntelNetSecVsp
=============================================================================
