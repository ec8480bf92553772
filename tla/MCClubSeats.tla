---------------------------- MODULE MCClubSeats ----------------------------
(* A member, a guest with club chips, and a stranger who may be lent some. *)
EXTENDS ClubSeats

CONSTANTS member, guest, stranger

MCFunds  == [p \in Players |-> IF p = member THEN 5 ELSE 0]
MCGrants == [p \in Players |-> IF p = guest THEN 3 ELSE 0]
==============================================================================
