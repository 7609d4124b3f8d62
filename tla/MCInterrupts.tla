---------------------------- MODULE MCInterrupts ----------------------------
(***************************************************************************)
(* Interrupts as TLC checks it.                                            *)
(***************************************************************************)
EXTENDS Interrupts
=============================================================================
