----------------------- MODULE MCServiceFunctionChain -----------------------
(* Small instances of ServiceFunctionChain; fw is a network function.      *)
EXTENDS ServiceFunctionChain
CONSTANT fw
=============================================================================
