---------------------------- MODULE BettingRound ----------------------------
(***************************************************************************)
(* The parts of match/holdem/handler.go that drive poker/table.go from the *)
(* deal to the moment betting is over and the showdown is handed to the    *)
(* side-pot resolver.  Bots act through the same ApplyAction as people, so *)
(* a bot's turn is a player's turn.  These are the actions of Betting,     *)
(* which follows one hand, and part of those of Hand, which plays on.      *)
(***************************************************************************)
EXTENDS PokerTable

CONSTANTS
  Openings,         \* the idle tables a hand may start from
  Straddles,        \* values StraddleRequested may have: {FALSE} or BOOLEAN
  BombPots,         \* values BombPotRequested may have: {FALSE} or BOOLEAN
  AutoAway,         \* AutoAwayOnTimeout
  MaxAmount         \* bound: the largest total a raise request may name

(* Between hands: what ResetBetweenHands, StandUp and SitDown leave.       *)
Idle(t) ==
  /\ t.street = "waiting" /\ t.board = 0 /\ t.pot = 0 /\ t.currentBet = 0
  /\ t.bet = NoBets /\ t.contrib = NoBets
  /\ \A s \in Seats : /\ t.status[s] \in {"empty", "seated"}
                      /\ t.status[s] = "empty" => t.stack[s] = 0
  /\ t.sittingOut \cup t.owesPost \cup t.postNow \subseteq Occupied(t)
  /\ t.sbSeat = None <=> t.bbSeat = None

ASSUME OpeningsAssumption ==
  /\ Openings \subseteq Tables
  /\ \A t \in Openings : Idle(t)
ASSUME TogglesAssumption ==
  /\ Straddles \subseteq BOOLEAN /\ BombPots \subseteq BOOLEAN
  /\ AutoAway \in BOOLEAN /\ MaxAmount \in Nat

Phases == {"waiting", "betting", "resolving_sidepots"}

VARIABLES table, phase

----------------------------------------------------------------------------
(* beginShowdownResolution: the plan is taken from the table as it stands. *)
BeginShowdown(t) == table' = t /\ phase' = "resolving_sidepots"

(* What follows every accepted action of a player, a bot or the clock.     *)
After(acted) ==
  \E t \in {acted} :
    \/ Uncontested(t) /\ BeginShowdown(t)
    \/ /\ ~Uncontested(t)
       /\ \E moved \in {AdvanceAction(t)} :
            \/ BettingOver(moved) /\ BeginShowdown(moved)
            \/ ~BettingOver(moved) /\ table' = moved /\ phase' = "betting"

(* autoStartHand, with dealAndBeginBetting.  The phase becomes betting     *)
(* even when StartHand found too few players and left the street waiting.  *)
AutoStartHand ==
  /\ phase = "waiting" /\ table.street = "waiting"
  /\ Cardinality(Occupied(table)) >= 2
  /\ \E t \in {StartHand(table, straddle, bomb) :
                  straddle \in Straddles, bomb \in BombPots} :
       \/ t.action = None /\ BeginShowdown(t)
       \/ t.action # None /\ table' = t /\ phase' = "betting"

(* ApplyAction is reached in the betting phase only, and refuses everyone  *)
(* but the occupant of the action seat.                                    *)
Turn == phase = "betting" /\ table.action \in Occupied(table)

PlayerFold  == Turn /\ After(Fold(table, table.action))
PlayerCheck == Turn /\ CanCheck(table, table.action) /\ After(Check(table, table.action))
PlayerCall  == Turn /\ After(Call(table, table.action))

RaiseTo(asked) ==
  /\ CanRaise(table, table.action, asked)
  /\ After(Raise(table, table.action, asked))

PlayerRaise == Turn /\ \E asked \in 0 .. MaxAmount : RaiseTo(asked)
PlayerShove == Turn /\ RaiseTo(ShoveTotal(table, table.action))

(* enforceActionDeadline once the clock and the time bank have run out:    *)
(* check if it is free, otherwise fold; a repeat offender is sat out.      *)
TimeOut ==
  LET s == table.action
      acted == IF CanCheck(table, s) THEN Check(table, s) ELSE Fold(table, s)
  IN  /\ Turn /\ table.status[s] = "seated"
      /\ \E away \in {FALSE, AutoAway} :
           After([acted EXCEPT !.sittingOut = IF away THEN @ \cup {s} ELSE @])

Act == PlayerFold \/ PlayerCheck \/ PlayerCall \/ PlayerRaise \/ PlayerShove \/ TimeOut
==============================================================================
