----------------------------- MODULE PokerTable -----------------------------
(***************************************************************************)
(* poker/table.go: the rules engine of one table, as operators that take a *)
(* table record and return the table the Go method leaves behind.  A seat  *)
(* whose status is "empty" is a nil *Seat.  Cards are abstracted to which  *)
(* seats hold some (cards) and how many are on the board (board).          *)
(***************************************************************************)
EXTENDS Chips, FiniteSets

CONSTANTS
  SmallBlind, BigBlind,   \* the blinds in force for the hand
  FallbackBlind,          \* the 200 that BigBlindAmount returns when MinRaise is 0
  BombAnte                \* BombPotAnte; 0 means one big blind

ASSUME BlindsAssumption ==
  /\ SmallBlind \in Nat \ {0} /\ BigBlind \in Nat \ {0} /\ SmallBlind <= BigBlind
  /\ FallbackBlind \in Nat \ {0} /\ BombAnte \in Nat

None == -1

SeatStatus == {"empty", "seated", "folded", "all_in"}
Streets == {"waiting", "preflop", "flop", "turn", "river", "showdown"}

Tables ==
  [potLimit : BOOLEAN, stack : [Seats -> Nat], bet : [Seats -> Nat], contrib : [Seats -> Nat],
   status : [Seats -> SeatStatus], cards : SUBSET Seats,
   sittingOut : SUBSET Seats, owesPost : SUBSET Seats, postNow : SUBSET Seats,
   pot : Nat, currentBet : Nat, minRaise : Nat, street : Streets, board : 0 .. 5,
   button : Seats, action : Seats \cup {None}, aggressor : Seats \cup {None},
   sbSeat : Seats \cup {None}, bbSeat : Seats \cup {None}, acted : SUBSET Seats]

NoBets == [s \in Seats |-> 0]

----------------------------------------------------------------------------
(* Who is where. *)

Occupied(t) == {s \in Seats : t.status[s] # "empty"}

(* May act in the current hand: seated, not folded, with chips behind. *)
CanAct(t) == {s \in Seats : t.status[s] = "seated" /\ t.stack[s] > 0}

(* Would play the next hand if they owed no post. *)
Ready(t) == CanAct(t) \ t.sittingOut

(* Are dealt into the next hand. *)
Active(t) == Ready(t) \ t.owesPost

(* Can post the big blind, an owed one included. *)
BlindPayers(t) ==
  {s \in Occupied(t) : t.stack[s] > 0 /\ s \notin t.sittingOut}

NonFoldedSeats(t) == {s \in Seats : t.status[s] \in {"seated", "all_in"}}

NextActiveSeat(t, from) ==
  IF CanAct(t) = {} THEN None ELSE FirstFrom(from, CanAct(t))

NextEligible(t, from) ==
  IF Active(t) = {} THEN from ELSE FirstFrom(from, Active(t))

NextBBSeat(t, from) ==
  IF BlindPayers(t) = {} THEN from ELSE FirstFrom(from, BlindPayers(t))

----------------------------------------------------------------------------
(* Chips into the pot.  addContribution, for every seat at once: paid[s]   *)
(* leaves the stack of seat s for the pot.                                 *)

Collect(t, paid) ==
  [t EXCEPT !.stack   = [s \in Seats |-> t.stack[s] - paid[s]],
            !.contrib = [s \in Seats |-> t.contrib[s] + paid[s]],
            !.pot     = @ + Total(paid)]

Only(seat, n) == [s \in Seats |-> IF s = seat THEN n ELSE 0]

(* Mutant: the blind reaches the pot without leaving the stack. *)
PostBlindOnCredit(t, seat, amount) ==
  LET pay == Lesser(amount, t.stack[seat])
  IN  IF seat \notin Occupied(t) THEN t
      ELSE [t EXCEPT !.contrib[seat] = @ + pay, !.pot = @ + pay, !.bet[seat] = pay]

(* A blind is a live bet, but a stack it empties stays "seated". *)
PostBlind(t, seat, amount) ==
  LET pay == Lesser(amount, t.stack[seat])
  IN  IF seat \notin Occupied(t) THEN t
      ELSE [Collect(t, Only(seat, pay)) EXCEPT !.bet[seat] = pay]

(* Mutant: the ante reaches the pot but not TotalContributed. *)
PostAntesUncounted(t, S, amount) ==
  LET paid == [s \in Seats |-> IF s \in S THEN Lesser(amount, t.stack[s]) ELSE 0]
  IN  [t EXCEPT !.stack = [s \in Seats |-> t.stack[s] - paid[s]], !.pot = @ + Total(paid)]

(* An ante is dead money: no live bet, and a stack it empties is all in. *)
PostAntes(t, S, amount) ==
  LET paid == [s \in Seats |-> IF s \in S THEN Lesser(amount, t.stack[s]) ELSE 0]
  IN  [Collect(t, paid) EXCEPT
         !.status = [s \in Seats |-> IF s \in S /\ paid[s] = t.stack[s]
                                     THEN "all_in" ELSE t.status[s]]]

(* postReturn for every seat of R: a dead small blind and a live big one. *)
PostReturns(t, R) ==
  LET ante == PostAntes(t, R, SmallBlind)
      paid == [s \in Seats |-> IF s \in R THEN Lesser(BigBlind, ante.stack[s]) ELSE 0]
  IN  [Collect(ante, paid) EXCEPT
         !.bet        = [s \in Seats |-> IF s \in R THEN paid[s] ELSE t.bet[s]],
         !.owesPost   = @ \ R,
         !.postNow    = @ \ R,
         !.sittingOut = @ \ R]

ForcePostBB(t, seat) ==
  IF seat \notin Occupied(t) THEN t
  ELSE PostBlind([t EXCEPT !.owesPost = @ \ {seat}, !.sittingOut = @ \ {seat}],
                 seat, BigBlind)

----------------------------------------------------------------------------
(* The opening of a hand. *)

(* Button and blinds by the forward-moving big blind; dead means that no   *)
(* small blind is posted.  Called with at least two active seats.          *)
AssignButtonAndBlinds(t) ==
  LET active == Active(t)
      lowest == CHOOSE s \in active : \A r \in active : s <= r
      headsUpButton == IF t.bbSeat \in active THEN t.bbSeat ELSE lowest
  IN  IF Cardinality(active) = 2 /\ Cardinality(Ready(t)) = 2
      THEN [button |-> headsUpButton, sb |-> headsUpButton,
            bb |-> CHOOSE s \in active : s # headsUpButton, dead |-> FALSE]
      ELSE IF t.bbSeat = None
      THEN LET sb == NextEligible(t, lowest)
           IN  [button |-> lowest, sb |-> sb, bb |-> NextEligible(t, sb), dead |-> FALSE]
      ELSE [button |-> t.sbSeat, sb |-> t.bbSeat,
            bb |-> NextBBSeat(t, t.bbSeat), dead |-> t.bbSeat \notin active]

(* The seats dealt cards: the active ones, the big blind, and those who    *)
(* elected to post on entry.                                               *)
DealtIn(t, bb) ==
  Active(t) \cup {bb} \cup (BlindPayers(t) \cap t.owesPost \cap t.postNow)

(* Mutant: players held out of the hand keep the status "seated". *)
DealCardsToSome(t, pos) ==
  [t EXCEPT !.button = pos.button, !.bet = NoBets, !.cards = DealtIn(t, pos.bb),
            !.status = [s \in Seats |-> IF s \in Occupied(t) THEN "seated" ELSE "empty"]]

DealCards(t, pos) ==
  LET dealt == DealtIn(t, pos.bb)
  IN  [t EXCEPT !.button = pos.button,
                !.bet    = NoBets,
                !.cards  = dealt,
                !.status = [s \in Seats |-> IF s \notin Occupied(t) THEN "empty"
                                            ELSE IF s \in dealt THEN "seated"
                                            ELSE "folded"]]

(* Everyone dealt in antes and the hand opens on the flop. *)
OpenBombPot(t, pos) ==
  LET ante == PostAntes(t, t.cards, IF BombAnte > 0 THEN BombAnte ELSE BigBlind)
  IN  [ante EXCEPT !.board = 3, !.street = "flop", !.currentBet = 0,
                   !.minRaise = BigBlind, !.acted = {},
                   !.action = NextActiveSeat(ante, pos.button),
                   !.sbSeat = pos.sb, !.bbSeat = pos.bb]

(* The voluntary straddle, when under the gun can cover twice the blind. *)
PostStraddle(t, pos) ==
  LET utg == NextActiveSeat(t, pos.bb)
      posted == PostBlind(t, utg, 2 * BigBlind)
  IN  IF utg \notin {None, pos.bb, pos.sb} /\ t.stack[utg] >= 2 * BigBlind
      THEN [posted EXCEPT !.currentBet = 2 * BigBlind,
                          !.minRaise   = BigBlind,
                          !.action     = NextActiveSeat(posted, utg)]
      ELSE t

OpenWithBlinds(t, pos, straddle) ==
  LET small    == IF pos.dead \/ pos.sb = pos.bb THEN t
                  ELSE PostBlind(t, pos.sb, SmallBlind)
      big      == ForcePostBB(small, pos.bb)
      posting  == {s \in t.cards \ {pos.bb} : s \in big.owesPost \cap big.postNow}
      returned == PostReturns(big, posting)
      opened   == [returned EXCEPT !.action = NextActiveSeat(returned, pos.bb),
                                   !.sbSeat = pos.sb, !.bbSeat = pos.bb]
  IN  IF straddle THEN PostStraddle(opened, pos) ELSE opened

(* Owed posts are forgiven when only they stand between the table and a    *)
(* game: a new game forms, with fresh blind anchors.                       *)
FormGame(t) ==
  IF Cardinality(Active(t)) >= 2 THEN t
  ELSE [t EXCEPT !.owesPost = @ \ Ready(t), !.postNow = @ \ Ready(t),
                 !.sbSeat = None, !.bbSeat = None]

StartHand(t, straddle, bomb) ==
  LET fresh == [t EXCEPT !.pot = 0, !.currentBet = BigBlind, !.minRaise = BigBlind,
                         !.board = 0, !.cards = {}, !.acted = {}, !.aggressor = None,
                         !.street = "preflop"]
      game  == FormGame(fresh)
      pos   == AssignButtonAndBlinds(game)
      dealt == DealCards(game, pos)
  IN  IF Cardinality(Active(t)) < 2 /\ Cardinality(Ready(t)) < 2
      THEN [fresh EXCEPT !.street = "waiting"]
      ELSE IF bomb THEN OpenBombPot(dealt, pos)
      ELSE OpenWithBlinds(dealt, pos, straddle)

----------------------------------------------------------------------------
(* Betting.  Each operator is one branch of ApplyAction for the seat whose *)
(* turn it is; the Can... operator beside it is what the branch requires.  *)

ToCall(t, s) == t.currentBet - t.bet[s]

BigBlindAmount(t) == IF t.minRaise > 0 THEN t.minRaise ELSE FallbackBlind

PotLimitMaxTotal(t, s) == t.bet[s] + t.pot + 2 * ToCall(t, s)

Acts(t, s) == [t EXCEPT !.acted = @ \cup {s}]

AllInIfFelted(t, s) ==
  [t EXCEPT !.status[s] = IF t.stack[s] = 0 THEN "all_in" ELSE @]

Fold(t, s) == Acts([t EXCEPT !.status[s] = "folded"], s)

CanCheck(t, s) == ToCall(t, s) <= 0
Check(t, s) == Acts(t, s)

(* Mutant: a call is not capped at the stack. *)
CallUncapped(t, s) ==
  Acts([Collect(t, Only(s, ToCall(t, s))) EXCEPT !.bet[s] = t.currentBet], s)

Call(t, s) ==
  LET pay  == Lesser(ToCall(t, s), t.stack[s])
      paid == [Collect(t, Only(s, pay)) EXCEPT !.bet[s] = @ + pay]
  IN  Acts(AllInIfFelted(paid, s), s)

(* The total bet that a "raise" to amount, or an "all_in", comes to: a     *)
(* shove over the pot limit shrinks to the pot, a raise over the stack to  *)
(* the stack.                                                              *)
ShoveTotal(t, s) ==
  IF t.potLimit THEN Lesser(t.bet[s] + t.stack[s], PotLimitMaxTotal(t, s))
  ELSE t.bet[s] + t.stack[s]

MinRaiseTo(t) == Greater(t.currentBet + t.minRaise, BigBlindAmount(t))

(* Mutant: no exception for a shove below the minimum raise. *)
CanRaiseInFull(t, s, asked) ==
  /\ t.potLimit => asked <= PotLimitMaxTotal(t, s)
  /\ asked - t.bet[s] > ToCall(t, s)
  /\ asked >= MinRaiseTo(t)

(* The checks a raise or a shove has to pass; asked is the total named by  *)
(* the player (for a shove, ShoveTotal).                                   *)
CanRaise(t, s, asked) ==
  /\ t.potLimit => asked <= PotLimitMaxTotal(t, s)
  /\ asked - t.bet[s] > ToCall(t, s)
  /\ asked < MinRaiseTo(t) => asked >= t.bet[s] + t.stack[s]

(* Betting is re-opened by a full raise only; a short all-in leaves the    *)
(* others' having acted, and the raise size, as they were.                 *)
Raise(t, s, asked) ==
  LET total == Lesser(asked, t.bet[s] + t.stack[s])
      full  == total - t.currentBet >= t.minRaise
      paid  == [Collect(t, Only(s, total - t.bet[s])) EXCEPT !.bet[s] = total]
      bet   == IF total > t.currentBet
               THEN [paid EXCEPT !.minRaise   = IF full THEN total - t.currentBet ELSE @,
                                 !.currentBet = total,
                                 !.aggressor  = s]
               ELSE paid
  IN  [AllInIfFelted(bet, s) EXCEPT !.acted = IF full THEN {s} ELSE @ \cup {s}]

(* ValidActions: what the client is offered. *)
OffersRaise(t, s) == t.stack[s] > Greater(ToCall(t, s), 0)

----------------------------------------------------------------------------
(* The end of a betting round. *)

(* Mutant: matching the bet is enough, having acted is not asked for. *)
AllMatchedUnacted(t) == \A s \in CanAct(t) : t.bet[s] >= t.currentBet

(* Mutant: a seated player without chips is waited for. *)
AllMatchedByFelted(t) ==
  \A s \in Seats : t.status[s] = "seated" =>
    s \in t.acted /\ (t.stack[s] > 0 => t.bet[s] >= t.currentBet)

AllMatched(t) ==
  \A s \in CanAct(t) : t.bet[s] >= t.currentBet /\ s \in t.acted

NextStreet ==
  [preflop |-> "flop", flop |-> "turn", turn |-> "river", river |-> "showdown"]
BoardOn == [flop |-> 3, turn |-> 4, river |-> 5, showdown |-> 5]

(* Mutant: Bet is not reset for the new street. *)
AdvanceStreetKeepingBets(t) ==
  LET next == IF Cardinality(CanAct(t)) <= 1 THEN "showdown" ELSE NextStreet[t.street]
  IN  IF t.street \in {"waiting", "showdown"} THEN t
      ELSE [t EXCEPT !.street = next, !.board = BoardOn[next], !.currentBet = 0,
                     !.minRaise = 0, !.acted = {}, !.action = NextActiveSeat(t, t.button)]

(* When fewer than two seats can still act the remaining streets are dealt *)
(* at once: advanceStreet calls itself up to the showdown.                 *)
AdvanceStreet(t) ==
  LET swept == [t EXCEPT !.bet = NoBets, !.currentBet = 0, !.minRaise = 0, !.acted = {}]
      next  == IF Cardinality(CanAct(t)) <= 1 THEN "showdown" ELSE NextStreet[t.street]
  IN  IF t.street \in {"waiting", "showdown"} THEN swept
      ELSE [swept EXCEPT !.street = next, !.board = BoardOn[next],
                         !.action = IF next = "showdown" THEN @
                                    ELSE NextActiveSeat(t, t.button)]

(* Mutant: the turn passes to the next seat round, in the hand or not. *)
AdvanceActionByOne(t) ==
  IF NextActiveSeat(t, t.action) = None \/ AllMatched(t) THEN AdvanceStreet(t)
  ELSE [t EXCEPT !.action = (@ + 1) % MaxSeats]

AdvanceAction(t) ==
  LET next == NextActiveSeat(t, t.action)
  IN  IF next = None \/ AllMatched(t) THEN AdvanceStreet(t)
      ELSE [t EXCEPT !.action = next]

(* AdvanceAction returned TRUE: no betting is left. *)
BettingOver(t) == t.street \in {"waiting", "showdown"}

(* The contenders that hold cards; when no cards are tracked, all of them. *)
Contenders(t) ==
  IF t.cards = {} THEN NonFoldedSeats(t) ELSE NonFoldedSeats(t) \cap t.cards

Uncontested(t) == Cardinality(Contenders(t)) = 1

FirstToShowSeat(t) ==
  IF t.aggressor # None THEN t.aggressor ELSE NextActiveSeat(t, t.button)

----------------------------------------------------------------------------
(* Between hands. *)

(* Mutant: TotalContributed is carried into the next hand. *)
ResetKeepingContributions(t) ==
  [t EXCEPT !.street = "waiting", !.board = 0, !.pot = 0, !.currentBet = 0, !.bet = NoBets,
            !.status = [s \in Seats |-> IF s \in Occupied(t) THEN "seated" ELSE "empty"]]

ResetBetweenHands(t) ==
  [t EXCEPT !.street = "waiting", !.board = 0, !.pot = 0, !.currentBet = 0,
            !.bet = NoBets, !.contrib = NoBets,
            !.status = [s \in Seats |-> IF s \in Occupied(t) THEN "seated" ELSE "empty"]]

(* The seats of S are vacated: StandUp for each of them. *)
StandUp(t, S) ==
  LET kept(f) == [s \in Seats |-> IF s \in S THEN 0 ELSE f[s]]
  IN  [t EXCEPT !.stack = kept(t.stack), !.bet = kept(t.bet), !.contrib = kept(t.contrib),
                !.status = [s \in Seats |-> IF s \in S THEN "empty" ELSE t.status[s]],
                !.cards = @ \ S, !.sittingOut = @ \ S,
                !.owesPost = @ \ S, !.postNow = @ \ S]

(* A player is seated with chips and no flags set. *)
SitDown(t, seat, chips) ==
  [t EXCEPT !.stack[seat] = chips, !.status[seat] = "seated"]

(* NewTable, before anyone has sat down. *)
NewTable ==
  [potLimit |-> FALSE, stack |-> NoBets, bet |-> NoBets, contrib |-> NoBets,
   status |-> [s \in Seats |-> "empty"], cards |-> {},
   sittingOut |-> {}, owesPost |-> {}, postNow |-> {},
   pot |-> 0, currentBet |-> 0, minRaise |-> 0, street |-> "waiting", board |-> 0,
   button |-> 0, action |-> 0, aggressor |-> 0,
   sbSeat |-> None, bbSeat |-> None, acted |-> {}]
==============================================================================
