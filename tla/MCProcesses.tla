---------------------------- MODULE MCProcesses ----------------------------
(***************************************************************************)
(* Values of the constants of Processes for TLC.                           *)
(***************************************************************************)
EXTENDS Processes

\* Only programs and their waiting loops are struck.
UserOnly == {"user", "wait"}
LaunchOnly == {"exec"}

\* The run with text files ends where the search for a slot first fails.
SlotFound == ~hist.overrun
=============================================================================
