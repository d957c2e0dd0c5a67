------------------------------- MODULE MCPlic -------------------------------
(***************************************************************************)
(* Instances of the interrupt controller for TLC.                          *)
(***************************************************************************)
EXTENDS PlicArbiter

AllKinds == Kinds
=============================================================================
