------------------------------ MODULE Betting ------------------------------
(***************************************************************************)
(* One hand at one table, from the deal to the showdown.                   *)
(***************************************************************************)
EXTENDS BettingRound

vars == <<table, phase>>

Init == table \in Openings /\ phase = "waiting"

(* The hand is over as far as this module goes. *)
Resolved == phase = "resolving_sidepots" /\ UNCHANGED vars

Next ==
  \/ AutoStartHand
  \/ PlayerFold
  \/ PlayerCheck
  \/ PlayerCall
  \/ PlayerRaise
  \/ PlayerShove
  \/ TimeOut
  \/ Resolved

Spec == Init /\ [][Next]_vars

(* The deadline check runs on every tick of the match loop, so a turn that *)
(* nobody takes is eventually taken by it.                                 *)
FairSpec == Spec /\ WF_vars(TimeOut)

----------------------------------------------------------------------------
(* Correctness. *)

(* The table and the phase have the types of Table and MatchState.Phase.   *)
TypeOK == table \in Tables /\ phase \in Phases

(* The pot is exactly what the seats have put into it this hand, blinds,   *)
(* antes and posts included: Table.Pot never drifts from the sum of        *)
(* Seat.TotalContributed, from which the side pots are later cut.          *)
PotIsContributions == table.pot = Total(table.contrib)

(* No seat has more on the current street than the bet to match, or more   *)
(* than it has contributed: toCall in ApplyAction is never negative, so a  *)
(* "call" can never take chips out of the pot.                             *)
BetsAreCovered ==
  \A s \in Seats : /\ table.bet[s] <= table.currentBet
                   /\ table.bet[s] <= table.contrib[s]

(* In the betting phase the seat on the clock can act and somebody else is *)
(* still in the hand: the turn never rests on a seat that is empty,        *)
(* folded, all in or out of chips, where it would hang the table.          *)
TurnIsPlayable ==
  phase = "betting" => /\ table.action \in CanAct(table)
                       /\ Cardinality(Contenders(table)) >= 2

(* Only a seat that was dealt cards puts chips in or stays in the hand: a  *)
(* player held out for owing a post, sitting out or having no chips is     *)
(* neither charged a blind nor left eligible for the pot.                  *)
OnlyTheDealtPlay ==
  phase # "waiting" =>
    /\ NonFoldedSeats(table) \subseteq table.cards
    /\ \A s \in Seats \ table.cards : table.contrib[s] = 0

(* Whatever ValidActions offers as a raise, ApplyAction accepts as a shove *)
(* from the player whose turn it is.                                       *)
OfferedShoveIsAccepted ==
  (Turn /\ OffersRaise(table, table.action)) =>
    CanRaise(table, table.action, ShoveTotal(table, table.action))

(* Chips move only between a seat's own stack and its own contribution: no *)
(* step of a hand pays, charges or refunds anybody.                        *)
ChipsStayWithTheirSeat ==
  [][\A s \in Seats : table'.stack[s] + table'.contrib[s]
                        = table.stack[s] + table.contrib[s]]_vars

(* What seat s had on the street the step closes, its last action included. *)
StreetBet(s) == table.bet[s] + table'.contrib[s] - table.contrib[s]

(* A street ends only when every seat that can still act has acted since   *)
(* the last full raise and has paid as much on it as anyone: allMatched    *)
(* lets no live player see the next card for less.                         *)
StreetClosesEven ==
  [][phase = "betting" /\ table'.street # table.street =>
       \A s \in CanAct(table') :
         /\ s \in table.acted \cup {table.action}
         /\ \A r \in Seats : StreetBet(r) <= StreetBet(s)]_vars

(* Betting is over in finitely many turns even if every player walks away: *)
(* the action clock alone brings the hand to its showdown.                 *)
EveryHandEnds == phase = "betting" ~> phase = "resolving_sidepots"

----------------------------------------------------------------------------
(* What comments and tests of the repository say, and the code does not do. *)

(* "prior actors may only call or fold" after a short all-in               *)
(* (table.go:825-828): a player who has acted since the last full raise    *)
(* does not raise.                                                         *)
ShortAllInDoesNotReopen ==
  [][phase = "betting" /\ table.action \in table.acted =>
       table'.currentBet <= table.currentBet]_vars

(* The first to show is "the last aggressor on the final betting round,    *)
(* or ... the first active seat to the left of the button"                 *)
(* (table.go:744-746): if a bet decides it, the seat is still in the hand.  *)
FirstToShowIsAContender ==
  phase = "resolving_sidepots" /\ ~Uncontested(table) /\ table.aggressor # None =>
    FirstToShowSeat(table) \in Contenders(table)
==============================================================================
