---------------------------- MODULE MCMarvellVsp ----------------------------
(* Small instances of MarvellVsp; the bounds are in the cfg files.         *)
EXTENDS MarvellVsp
=============================================================================
