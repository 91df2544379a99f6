------------------------------ MODULE MCHLSStream ------------------------------
(* Instance of HLSStream: the constants are given in the configurations.       *)
EXTENDS HLSStream
==============================================================================
