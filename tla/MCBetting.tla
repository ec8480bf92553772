----------------------------- MODULE MCBetting -----------------------------
(***************************************************************************)
(* Betting with opening positions, for model checking.                     *)
(***************************************************************************)
EXTENDS Betting, Positions
==============================================================================
