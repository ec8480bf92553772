-------------------------------- MODULE Chips --------------------------------
(***************************************************************************)
(* The ring of seats of a poker table and sums of chips over it.  Seats    *)
(* are numbered from 0 as in the Go array Table.Seats.                     *)
(***************************************************************************)
EXTENDS Integers, Functions

CONSTANT MaxSeats   \* length of the seat ring

ASSUME MaxSeatsAssumption == MaxSeats \in Nat \ {0}

Seats == 0 .. (MaxSeats - 1)

Lesser(a, b)  == IF a <= b THEN a ELSE b
Greater(a, b) == IF a >= b THEN a ELSE b

(* The sum of f over all seats. *)
Total(f) == SumFunctionOnSet(f, Seats)

(* How far clockwise of `from` seat s lies: 0 for the next seat round, and *)
(* MaxSeats - 1 for `from` itself, which a walk reaches last.              *)
Steps(from, s) == (s - from - 1) % MaxSeats

(* The first member of a non-empty S met walking clockwise from `from`. *)
FirstFrom(from, S) ==
  CHOOSE s \in S : \A r \in S : Steps(from, s) <= Steps(from, r)
==============================================================================
