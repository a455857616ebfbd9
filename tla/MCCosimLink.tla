---------------------------- MODULE MCCosimLink ----------------------------
(* Instances of CosimLink for TLC. *)
EXTENDS CosimLink

CONSTANT timer \* the one interrupt line of the instances
=============================================================================
