----------------------------- MODULE MCCashier -----------------------------
(***************************************************************************)
(* The cashier, for model checking.                                        *)
(***************************************************************************)
EXTENDS Cashier

CONSTANTS w1, w2, w3, d1, t1, t2, k1, k2
==============================================================================
