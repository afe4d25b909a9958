------------------------------ MODULE ViewerState ------------------------------
(***************************************************************************)
(* The state of a part of the whitepaper viewer is the record st; part     *)
(* tells which of them runs.                                               *)
(***************************************************************************)
VARIABLES part, st
=============================================================================
