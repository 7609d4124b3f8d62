---------------------------- MODULE MCLineInput ----------------------------
(***************************************************************************)
(* Values of the constants of LineInput for TLC.                           *)
(***************************************************************************)
EXTENDS LineInput

\* A negative size, none, and one that takes a line of two bytes whole and
\* cuts one of three.
Sizes == {-1, 0, 3}
=============================================================================
