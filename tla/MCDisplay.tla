----------------------------- MODULE MCDisplay -----------------------------
(***************************************************************************)
(* Display as TLC checks it.                                               *)
(***************************************************************************)
EXTENDS Display
=============================================================================
