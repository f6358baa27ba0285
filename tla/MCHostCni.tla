------------------------------ MODULE MCHostCni ------------------------------
(***************************************************************************)
(* Small instances of HostCni for TLC.                                     *)
(***************************************************************************)
EXTENDS HostCni, TLC

\* Sandboxes that ask for neither a MAC nor an IPAM address are alike.
Symmetry == Permutations(Sandboxes)
=============================================================================
