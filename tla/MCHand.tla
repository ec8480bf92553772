------------------------------- MODULE MCHand -------------------------------
(***************************************************************************)
(* Hand with opening positions, for model checking.                        *)
(***************************************************************************)
EXTENDS Hand, Positions
==============================================================================
