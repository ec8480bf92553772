----------------------------- MODULE Positions -----------------------------
(***************************************************************************)
(* Tables between hands, from which the runs of Betting and Hand start.    *)
(***************************************************************************)
EXTENDS PokerTable

CONSTANTS
  MaxStack,    \* bound on the chips a seat starts the hand with
  Start        \* which of the sets below a run starts from

BothToggles == BOOLEAN
Off == {FALSE}

(* A table between hands with the given stacks; a seat without chips is    *)
(* empty unless it is in `felted`.                                         *)
Opening(stacks, felted, sb, bb) ==
  [NewTable EXCEPT
     !.stack  = stacks,
     !.status = [s \in Seats |-> IF stacks[s] > 0 \/ s \in felted
                                 THEN "seated" ELSE "empty"],
     !.sbSeat = sb, !.bbSeat = bb]

(* Every distribution of chips over the seats on a fresh table. *)
Fresh(max) ==
  {Opening(stacks, {}, None, None) :
     stacks \in {f \in [Seats -> 0 .. max] : Cardinality({s \in Seats : f[s] > 0}) >= 2}}

(* A table that has been playing: blind anchors anywhere, the last seat    *)
(* owing a post, posting on entry, sitting out or without chips.           *)
LastSeat == MaxSeats - 1
Played(max) ==
  UNION {
    LET t == Opening(stacks, {LastSeat}, sb, (sb + 1) % MaxSeats)
    IN  { t,
          [t EXCEPT !.owesPost = {LastSeat}],
          [t EXCEPT !.owesPost = {LastSeat}, !.postNow = {LastSeat}],
          [t EXCEPT !.sittingOut = {LastSeat}] } :
    stacks \in {f \in [Seats -> 0 .. max] : \A s \in Seats \ {LastSeat} : f[s] > 0},
    sb \in Seats }

PotLimitTables(S) == {[t EXCEPT !.potLimit = TRUE] : t \in S}

MCOpenings ==
  CASE Start = "fresh" -> Fresh(MaxStack)
    [] Start = "any"   -> Fresh(MaxStack) \cup Played(MaxStack - 2)
                            \cup PotLimitTables(Fresh(MaxStack - 1))
==============================================================================
