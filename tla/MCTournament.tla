---------------------------- MODULE MCTournament ----------------------------
(* Three players and tables of two: two have entered, the third clicks     *)
(* twice, and a start makes one table or two.                              *)
EXTENDS Tournament, TLC

CONSTANTS a, b, c, s1, s2, f1

MCRequests == {<<a, 1>>, <<a, 2>>}
MCLadder   == <<[from |-> 1, to |-> 1, bps |-> 7000], [from |-> 2, to |-> 2, bps |-> 3000]>>
Alike      == Permutations({b, c}) \cup Permutations({s1, s2})
==============================================================================
