------------------------------- MODULE MCKeys -------------------------------
(***************************************************************************)
(* Keys for TLC: the .cfg gives the constants their values.                *)
(***************************************************************************)
EXTENDS Keys
=============================================================================
