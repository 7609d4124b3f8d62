------------------------------- MODULE MCScreen -------------------------------
(***************************************************************************)
(* Screen for TLC: the .cfg gives the constants their values.              *)
(***************************************************************************)
EXTENDS Screen
=============================================================================
