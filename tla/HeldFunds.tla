----------------------------- MODULE HeldFunds -----------------------------
(***************************************************************************)
(* What the cashier promises a player about money on its way out: a        *)
(* request takes the money from the player at once, and then either the    *)
(* money comes back, or it is paid out, once.  It may also be held for     *)
(* ever: nothing promises that a request is decided.                       *)
(***************************************************************************)
EXTENDS Naturals

CONSTANTS Requests, Amounts

VARIABLES
  funds,     \* what the player can spend
  fate,      \* of each request: none, held, returned or gone
  held,      \* the amount a request took
  payments   \* how often a request was paid out
vars == <<funds, fate, held, payments>>

Init ==
  /\ funds \in Nat
  /\ fate = [r \in Requests |-> "none"]
  /\ held = [r \in Requests |-> 0]
  /\ payments = [r \in Requests |-> 0]

(* Money paid in from outside. *)
Receive ==
  /\ \E a \in Amounts : funds' = funds + a
  /\ UNCHANGED <<fate, held, payments>>

Hold(r) ==
  /\ fate[r] = "none"
  /\ \E a \in Amounts :
       /\ a <= funds
       /\ funds' = funds - a
       /\ held' = [held EXCEPT ![r] = a]
  /\ fate' = [fate EXCEPT ![r] = "held"]
  /\ UNCHANGED payments

Return(r) ==
  /\ fate[r] = "held"
  /\ funds' = funds + held[r]
  /\ fate' = [fate EXCEPT ![r] = "returned"]
  /\ UNCHANGED <<held, payments>>

PayOut(r) ==
  /\ fate[r] = "held"
  /\ fate' = [fate EXCEPT ![r] = "gone"]
  /\ payments' = [payments EXCEPT ![r] = 1]
  /\ UNCHANGED <<funds, held>>

Next == Receive \/ \E r \in Requests : Hold(r) \/ Return(r) \/ PayOut(r)

Spec == Init /\ [][Next]_vars
==============================================================================
