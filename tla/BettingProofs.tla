---------------------------- MODULE BettingProofs ----------------------------
(***************************************************************************)
(* Theorems about Betting for every number of seats, blinds, antes, sizes  *)
(* of stacks, opening positions and table options.                         *)
(***************************************************************************)
EXTENDS Betting, PokerTableProofs

(* The inductive invariant: the table is sound and every bet can be        *)
(* matched; a hand starts from a table that has been cleared.  The last    *)
(* conjunct is what a new hand's pot of zero rests on.                     *)
IInv ==
  /\ phase \in Phases
  /\ Playable(table) /\ Accounted(table)
  /\ phase = "waiting" => Idle(table)

LEMMA InitIInv == Init => IInv
BY OpeningsAssumption, IdlePlayable DEF Init, IInv, Phases

(* A step of the betting phase is a turn or changes nothing.               *)
LEMMA BettingStep ==
  ASSUME phase = "betting", [Next]_vars
  PROVE  Act \/ (table' = table /\ phase' = phase)
BY DEF Next, Act, AutoStartHand, Resolved, vars

(* Every step keeps the invariant and every seat's chips.                  *)
LEMMA StepSound ==
  ASSUME IInv, [Next]_vars
  PROVE  IInv' /\ \A s \in Seats : table'.stack[s] + table'.contrib[s]
                                     = table.stack[s] + table.contrib[s]
<1>1. table \in Tables /\ Playable(table) /\ Accounted(table)
  BY DEF IInv, Playable, Sound
<1>2. ASSUME Playable(table'), SameChips(table, table'),
             phase' \in {"betting", "resolving_sidepots"}
      PROVE  IInv' /\ SameChips(table, table')
  <2>1. Accounted(table')
    BY <1>1, <1>2, SameChipsAccounted DEF Playable, Sound
  <2> QED BY <1>2, <2>1 DEF IInv, Phases
<1>3. SUFFICES IInv' /\ SameChips(table, table')
  BY DEF SameChips
<1>4. CASE AutoStartHand
  <2>1. /\ table.bet = NoBets /\ table.contrib = NoBets /\ table.pot = 0
        /\ Anchored(table)
    BY <1>4 DEF AutoStartHand, IInv, Idle, Anchored
  <2>2. PICK straddle \in Straddles, bomb \in BombPots :
          /\ table' = StartHand(table, straddle, bomb)
          /\ phase' \in {"betting", "resolving_sidepots"}
    BY <1>4 DEF AutoStartHand, BeginShowdown
  <2>3. straddle \in BOOLEAN /\ bomb \in BOOLEAN
    BY TogglesAssumption
  <2>4. /\ Sound(StartHand(table, straddle, bomb))
        /\ SameChips(table, StartHand(table, straddle, bomb))
        /\ Matchable(StartHand(table, straddle, bomb))
    BY <1>1, <2>1, <2>3, StartHandSound
  <2>5. Playable(table') /\ SameChips(table, table')
    BY <2>2, <2>4 DEF Playable
  <2> QED BY <1>2, <2>2, <2>5
<1>5. CASE Act
  <2>1. PICK acted : ActedOn(table, acted, table.action) /\ After(acted)
    BY <1>1, <1>5, TurnTaken
  <2> QED BY <1>1, <1>2, <2>1, AfterSound
<1>6. CASE Resolved \/ UNCHANGED vars
  <2>1. table' = table /\ phase' = phase
    BY <1>6 DEF Resolved, vars
  <2>2. SameChips(table, table)
    BY <1>1 DEF SameChips
  <2> QED BY <2>1, <2>2 DEF IInv
<1> QED BY <1>4, <1>5, <1>6 DEF Next, Act

(* The invariant holds in every state of every hand.                       *)
LEMMA Inductive == Spec => []IInv
<1>1. IInv /\ [Next]_vars => IInv'
  BY StepSound
<1> QED BY <1>1, InitIInv, PTL DEF Spec

----------------------------------------------------------------------------
(* The table and the phase keep the types of Table and MatchState.Phase:   *)
(* no sequence of actions makes a stack, a bet or the pot negative.        *)
THEOREM TypeCorrect == Spec => []TypeOK
<1>1. IInv => TypeOK
  BY DEF IInv, TypeOK, Playable, Sound
<1> QED BY <1>1, Inductive, PTL

(* Table.Pot is the sum of Seat.TotalContributed at all times: nothing     *)
(* reaches the pot that the side pots could not be cut from.               *)
THEOREM PotAccounted == Spec => []PotIsContributions
<1>1. IInv => PotIsContributions
  BY DEF IInv, PotIsContributions, Accounted
<1> QED BY <1>1, Inductive, PTL

(* No seat's bet exceeds the bet to match or the seat's contribution, so   *)
(* toCall in ApplyAction is never negative.                                *)
THEOREM BetsCovered == Spec => []BetsAreCovered
<1>1. IInv => BetsAreCovered
  BY DEF IInv, BetsAreCovered, Playable, Sound, Backed, Matchable, BetAtMost
<1> QED BY <1>1, Inductive, PTL

(* Every step of a hand leaves each seat the chips it had, in its stack or *)
(* in the pot: addContribution is the only way chips move before showdown. *)
THEOREM ChipsStay == Spec => ChipsStayWithTheirSeat
<1> DEFINE kept == \A s \in Seats : table'.stack[s] + table'.contrib[s]
                                      = table.stack[s] + table.contrib[s]
<1>1. IInv /\ [Next]_vars => kept
  BY StepSound
<1>2. IInv /\ [Next]_vars => [kept]_vars
  BY <1>1
<1> HIDE DEF kept
<1>3. Spec => [][kept]_vars
  BY <1>2, Inductive, PTL DEF Spec
<1> QED BY <1>3 DEF ChipsStayWithTheirSeat, kept

----------------------------------------------------------------------------
(* allMatched ends a street only when every seat that can still act has    *)
(* acted since the last full raise and has paid as much on it as anyone:   *)
(* no live player sees the next card for less.                             *)
LEMMA StreetStep ==
  ASSUME IInv, [Next]_vars, phase = "betting", table'.street # table.street,
         NEW s \in CanAct(table')
  PROVE  /\ s \in table.acted \cup {table.action}
         /\ \A r \in Seats : StreetBet(r) <= StreetBet(s)
<1> DEFINE seat == table.action
<1>1. Act
  BY BettingStep
<1>2. PICK acted : ActedOn(table, acted, seat) /\ After(acted)
  BY <1>1, TurnTaken DEF IInv
<1>3. /\ acted \in Tables /\ Playable(acted) /\ ActionOf(table, acted, seat)
      /\ table \in Tables
  BY <1>2 DEF ActedOn, Playable, Sound, IInv
<1>4. acted.street = table.street
  BY <1>3 DEF ActionOf
<1>5. Advanced(acted, table')
  BY <1>2, <1>3, <1>4, TurnEnds
<1>6. CanAct(table') = CanAct(acted) /\ s \in Seats
  BY <1>5 DEF Advanced, CanAct
<1>7. AllMatched(acted)
  BY <1>4, <1>5, <1>6 DEF Advanced
<1>8. acted.bet[s] >= acted.currentBet /\ s \in acted.acted
  BY <1>6, <1>7 DEF AllMatched
<1>9. \A r \in Seats : StreetBet(r) = acted.bet[r]
  <2> TAKE r \in Seats
  <2>1. /\ table'.contrib = acted.contrib
        /\ acted.bet[r] - acted.contrib[r] = table.bet[r] - table.contrib[r]
    BY <1>3, <1>5 DEF Advanced, ActionOf
  <2>2. /\ acted.bet[r] \in Nat /\ acted.contrib[r] \in Nat
        /\ table.bet[r] \in Nat /\ table.contrib[r] \in Nat
    BY <1>3 DEF Tables
  <2> QED BY <2>1, <2>2 DEF StreetBet
<1>10. \A r \in Seats : acted.bet[r] <= acted.currentBet /\ acted.bet[r] \in Nat
  BY <1>3 DEF Playable, Matchable, BetAtMost, Tables
<1>11. acted.currentBet \in Nat
  BY <1>3 DEF Tables
<1>12. \A r \in Seats : StreetBet(r) <= StreetBet(s)
  BY <1>6, <1>8, <1>9, <1>10, <1>11
<1> QED BY <1>3, <1>8, <1>12 DEF ActionOf

THEOREM StreetsCloseEven == Spec => StreetClosesEven
<1> DEFINE even == phase = "betting" /\ table'.street # table.street =>
                     \A s \in CanAct(table') :
                       /\ s \in table.acted \cup {table.action}
                       /\ \A r \in Seats : StreetBet(r) <= StreetBet(s)
<1>1. IInv /\ [Next]_vars => even
  BY StreetStep
<1>2. IInv /\ [Next]_vars => [even]_vars
  BY <1>1
<1> HIDE DEF even
<1>3. Spec => [][even]_vars
  BY <1>2, Inductive, PTL DEF Spec
<1> QED BY <1>3 DEF StreetClosesEven, even

----------------------------------------------------------------------------
(* At every table a hand may start from, two players are ready to play:    *)
(* they are seated with chips and not sitting out.                         *)
ReadyOpenings == \A t \in Openings : Cardinality(Ready(t)) >= 2

(* What the hand needs beside sound accounts: only the dealt are in it,    *)
(* and while betting is open the turn is on a seat that can act against    *)
(* somebody.                                                               *)
HandInv ==
  /\ phase = "waiting" => table \in Openings
  /\ phase # "waiting" => OnlyDealt(table)
  /\ phase = "betting" => /\ table.action \in CanAct(table)
                          /\ Cardinality(NonFoldedSeats(table)) >= 2

(* An action takes at most its own seat out of the hand, and that one was  *)
(* dealt in.                                                               *)
LEMMA ActionLive ==
  ASSUME NEW t, NEW u, NEW s \in CanAct(t), OnlyDealt(t),
         Cardinality(NonFoldedSeats(t)) >= 2, ActionOf(t, u, s)
  PROVE  /\ OnlyDealt(u)
         /\ ~Uncontested(u) => Cardinality(NonFoldedSeats(u)) >= 2
<1> DEFINE before == NonFoldedSeats(t)
           after == NonFoldedSeats(u)
<1>1. s \in Seats /\ s \in before /\ s \in t.cards
  BY DEF CanAct, NonFoldedSeats, OnlyDealt
<1>2. /\ \A r \in Seats \ {s} : u.contrib[r] = t.contrib[r] /\ u.status[r] = t.status[r]
      /\ u.cards = t.cards
  BY DEF ActionOf
<1>3. after \subseteq before /\ before \ {s} \subseteq after
  BY <1>1, <1>2 DEF NonFoldedSeats
<1>4. OnlyDealt(u)
  BY <1>1, <1>2, <1>3 DEF OnlyDealt
<1>5. before \in SUBSET Seats /\ after \in SUBSET Seats /\ before \ {s} \in SUBSET Seats
  BY DEF NonFoldedSeats
<1>6. Uncontested(u) <=> Cardinality(after) = 1
  BY <1>4, OnlyDealtContend DEF Uncontested
<1> HIDE DEF before, after
<1>7. /\ IsFiniteSet(before) /\ IsFiniteSet(after)
      /\ Cardinality(before) \in Nat /\ Cardinality(after) \in Nat
      /\ Cardinality(before \ {s}) \in Nat
  BY <1>5, FiniteSeats
<1>8. Cardinality(before \ {s}) = Cardinality(before) - 1
  BY <1>1, <1>7, FS_RemoveElement
<1>9. Cardinality(before \ {s}) <= Cardinality(after)
  BY <1>3, <1>7, FS_Subset
<1>10. Cardinality(after) >= 1
  BY <1>7, <1>8, <1>9 DEF before
<1> QED BY <1>4, <1>6, <1>7, <1>10 DEF after

LEMMA HandStep ==
  ASSUME ReadyOpenings, IInv, HandInv, [Next]_vars
  PROVE  HandInv'
<1>1. table \in Tables /\ phase \in Phases
  BY DEF IInv, Playable, Sound
<1>2. CASE AutoStartHand
  <2>1. /\ table.bet = NoBets /\ table.contrib = NoBets /\ Anchored(table)
        /\ Cardinality(Ready(table)) >= 2
    BY <1>2 DEF AutoStartHand, IInv, HandInv, ReadyOpenings, Idle, Anchored
  <2>2. PICK straddle \in Straddles, bomb \in BombPots :
          LET t == StartHand(table, straddle, bomb)
          IN  /\ table' = t
              /\ \/ t.action = None /\ phase' = "resolving_sidepots"
                 \/ t.action # None /\ phase' = "betting"
    BY <1>2 DEF AutoStartHand, BeginShowdown
  <2>3. straddle \in BOOLEAN /\ bomb \in BOOLEAN
    BY TogglesAssumption
  <2>4. Opened(StartHand(table, straddle, bomb))
    BY <1>1, <2>1, <2>3, StartHandLive
  <2>5. Opened(table')
    BY <2>2, <2>4
  <2>6. \/ table'.action = None /\ phase' = "resolving_sidepots"
        \/ table'.action # None /\ phase' = "betting"
    BY <2>2
  <2> QED BY <2>5, <2>6 DEF Opened, TurnOn, HandInv
<1>3. CASE Act
  <2> DEFINE seat == table.action
  <2>1. phase = "betting"
    BY <1>3, TurnTaken DEF IInv, Turn
  <2>2. PICK acted : ActedOn(table, acted, seat) /\ After(acted)
    BY <1>3, TurnTaken DEF IInv
  <2>3. /\ OnlyDealt(acted)
        /\ ~Uncontested(acted) => Cardinality(NonFoldedSeats(acted)) >= 2
    BY <2>1, <2>2, ActionLive DEF HandInv, ActedOn
  <2>4. acted \in Tables
    BY <2>2 DEF ActedOn, Playable, Sound
  <2>5. CASE table' = acted /\ phase' = "resolving_sidepots"
    BY <2>3, <2>5 DEF HandInv
  <2>6. CASE /\ ~Uncontested(acted) /\ Advanced(acted, table')
             /\ \/ BettingOver(table') /\ phase' = "resolving_sidepots"
                \/ ~BettingOver(table') /\ phase' = "betting"
    <3>1. /\ OnlyDealt(table')
          /\ Cardinality(NonFoldedSeats(table')) >= 2
      BY <2>3, <2>6 DEF Advanced, OnlyDealt, NonFoldedSeats
    <3>2. BettingOver(table') \/ table'.action \in CanAct(table')
      BY <2>6 DEF Advanced
    <3> QED BY <2>6, <3>1, <3>2 DEF HandInv
  <2> QED BY <2>2, <2>4, <2>5, <2>6, TurnEnds
<1>4. CASE Resolved \/ UNCHANGED vars
  BY <1>4 DEF Resolved, vars, HandInv
<1> QED BY <1>2, <1>3, <1>4 DEF Next, Act

LEMMA HandInductive == ASSUME ReadyOpenings PROVE Spec => []HandInv
<1>1. Init => HandInv
  BY DEF Init, HandInv
<1>2. IInv /\ HandInv /\ [Next]_vars => HandInv'
  BY HandStep
<1> QED BY <1>1, <1>2, Inductive, PTL DEF Spec

(* In the betting phase the seat on the clock can act and somebody else is *)
(* still in the hand, if every hand is started with two players ready.     *)
(* Without that StartHand leaves the street waiting and the turn where it  *)
(* was, and the phase becomes betting all the same.                        *)
THEOREM TurnPlayable == ASSUME ReadyOpenings PROVE Spec => []TurnIsPlayable
<1>1. HandInv => TurnIsPlayable
  <2> SUFFICES ASSUME HandInv, phase = "betting" PROVE TurnIsPlayable
    BY DEF TurnIsPlayable
  <2>1. Contenders(table) = NonFoldedSeats(table)
    BY OnlyDealtContend DEF HandInv
  <2> QED BY <2>1 DEF TurnIsPlayable, HandInv
<1> QED BY <1>1, HandInductive, PTL

(* From the deal to the showdown, a player held out of the hand for owing  *)
(* a post, sitting out or having no chips has paid nothing into the pot    *)
(* and is not among those it can go to.                                    *)
THEOREM DealtPlay == ASSUME ReadyOpenings PROVE Spec => []OnlyTheDealtPlay
<1>1. HandInv => OnlyTheDealtPlay
  BY DEF HandInv, OnlyDealt, OnlyTheDealtPlay
<1> QED BY <1>1, HandInductive, PTL

----------------------------------------------------------------------------
(* What pot limit needs of a table's amounts: the 200 that BigBlindAmount  *)
(* falls back on is within two big blinds, and a bomb pot's ante is at     *)
(* least one.                                                              *)
PotLimitCovered ==
  (\E t \in Openings : t.potLimit) =>
    /\ FallbackBlind <= 2 * BigBlind
    /\ BombPots \subseteq {FALSE} \/ BombSize >= BigBlind

(* What the bets of a hand amount to: before the flop there is a big blind *)
(* to match; after it everyone who can act has one in the pot already; the *)
(* last raise is no larger than the bet, or it is the big blind of a bomb  *)
(* pot, and it is unknown only where two have put in a big blind.          *)
Priced(t) ==
  /\ t.street = "preflop" => t.currentBet >= BigBlind
  /\ t.street # "preflop" => \A s \in CanAct(t) : t.contrib[s] - t.bet[s] >= BigBlind
  /\ t.minRaise = 0 => t.currentBet = 0 /\ t.pot >= 2 * BigBlind
  /\ t.minRaise <= t.currentBet \/ (t.street # "preflop" /\ t.minRaise <= BigBlind)

LEMMA OpenedPriced ==
  ASSUME NEW t, t \in Tables, Opened(t), t.street = "preflop" \/ BombSize >= BigBlind
  PROVE  Priced(t)
<1>1. BigBlind \in Nat \ {0}
  BY BlindsAssumption
<1>2. t.currentBet \in Nat /\ t.minRaise = BigBlind
  BY DEF Tables, Opened
<1>3. CASE t.street = "preflop"
  BY <1>1, <1>2, <1>3 DEF Opened, Priced
<1>4. CASE t.street # "preflop"
  <2>1. t.street = "flop" /\ t.bet = NoBets /\ BombSize >= BigBlind
        /\ \A s \in CanAct(t) : t.contrib[s] = BombSize
    BY <1>4 DEF Opened
  <2>2. \A s \in CanAct(t) : t.bet[s] = 0
    BY <2>1 DEF CanAct, NoBets
  <2>3. BombSize \in Nat
    BY BlindsAssumption DEF BombSize
  <2> HIDE DEF BombSize
  <2>4. \A s \in CanAct(t) : t.contrib[s] - t.bet[s] >= BigBlind
    BY <1>1, <2>1, <2>2, <2>3
  <2> QED BY <1>1, <1>2, <1>4, <2>4 DEF Priced
<1> QED BY <1>3, <1>4

LEMMA ActionPriced ==
  ASSUME NEW t \in Tables, NEW u, NEW s, Priced(t), ActedOn(t, u, s)
  PROVE  Priced(u)
<1>1. u \in Tables /\ ActionOf(t, u, s) /\ Wagered(t, u)
  BY DEF ActedOn, Playable, Sound
<1>2. /\ t.currentBet \in Nat /\ t.minRaise \in Nat /\ t.pot \in Nat
      /\ u.currentBet \in Nat /\ u.minRaise \in Nat /\ u.pot \in Nat
      /\ BigBlind \in Nat
  BY <1>1, BlindsAssumption DEF Tables
<1>3. u.street = t.street /\ u.currentBet >= t.currentBet
  BY <1>1, <1>2 DEF ActionOf, Wagered
<1>4. u.street = "preflop" => u.currentBet >= BigBlind
  BY <1>2, <1>3 DEF Priced
<1>5. ASSUME u.street # "preflop", NEW r \in CanAct(u)
      PROVE  u.contrib[r] - u.bet[r] >= BigBlind
  <2>1. r \in CanAct(t) /\ r \in Seats
    BY <1>1, <1>5 DEF Wagered, CanAct
  <2>2. t.contrib[r] - t.bet[r] >= BigBlind
    BY <1>3, <1>5, <2>1 DEF Priced
  <2>3. u.bet[r] - u.contrib[r] = t.bet[r] - t.contrib[r]
    BY <1>1, <2>1 DEF ActionOf
  <2>4. /\ u.contrib[r] \in Nat /\ u.bet[r] \in Nat
        /\ t.contrib[r] \in Nat /\ t.bet[r] \in Nat
    BY <1>1, <2>1 DEF Tables
  <2> QED BY <1>2, <2>2, <2>3, <2>4
<1>6. u.minRaise = 0 => u.currentBet = 0 /\ u.pot >= 2 * BigBlind
  <2> PICK two \in Nat : two = 2 * BigBlind
    BY <1>2
  <2> QED BY <1>1, <1>2 DEF Priced, Wagered
<1>7. u.minRaise <= u.currentBet \/ (u.street # "preflop" /\ u.minRaise <= BigBlind)
  BY <1>1, <1>2, <1>3 DEF Priced, Wagered
<1> QED BY <1>4, <1>5, <1>6, <1>7 DEF Priced

LEMMA AdvancedPriced ==
  ASSUME NEW t, Playable(t), Accounted(t), NEW u, u \in Tables, Priced(t), Advanced(t, u), ~BettingOver(u)
  PROVE  Priced(u)
<1>1. /\ t \in Tables /\ Sound(t) /\ BigBlind \in Nat \ {0}
  BY BlindsAssumption DEF Playable, Sound
<1>2. /\ u.status = t.status /\ u.stack = t.stack /\ u.contrib = t.contrib /\ u.pot = t.pot
      /\ CanAct(u) = CanAct(t)
  BY DEF Advanced, CanAct
<1>3. CASE /\ u.street = t.street /\ u.bet = t.bet
           /\ u.currentBet = t.currentBet /\ u.minRaise = t.minRaise
  BY <1>2, <1>3 DEF Priced
<1>4. CASE /\ CanAct(t) = {} \/ AllMatched(t)
           /\ u.bet = NoBets /\ u.currentBet = 0 /\ u.minRaise = 0
           /\ u.street # "preflop" /\ Cardinality(CanAct(t)) >= 2
  <2>1. CanAct(t) # {} /\ AllMatched(t)
    BY <1>4, FiniteSeats
  <2>2. ASSUME NEW s \in CanAct(t) PROVE t.contrib[s] >= BigBlind /\ t.contrib[s] \in Nat
    <3>1. /\ s \in Seats /\ t.bet[s] <= t.contrib[s] /\ t.bet[s] >= t.currentBet
      BY <1>1, <2>1, <2>2 DEF CanAct, Sound, Backed, AllMatched
    <3>2. t.bet[s] \in Nat /\ t.contrib[s] \in Nat /\ t.currentBet \in Nat
      BY <1>1, <3>1 DEF Tables
    <3>3. CASE t.street = "preflop"
      <4>1. t.currentBet >= BigBlind
        BY <3>3 DEF Priced
      <4> QED BY <1>1, <3>1, <3>2, <4>1
    <3>4. CASE t.street # "preflop"
      <4>1. t.contrib[s] - t.bet[s] >= BigBlind
        BY <3>4 DEF Priced
      <4> QED BY <1>1, <3>2, <4>1
    <3> QED BY <3>3, <3>4
  <2>3. \E a, b \in CanAct(t) : a # b
    <3>1. CanAct(t) \in SUBSET Seats
      BY ActiveInSeats
    <3> QED BY <1>4, <3>1, TwoSeats
  <2>4. t.pot >= 2 * BigBlind
    <3>1. PICK a \in CanAct(t), b \in CanAct(t) : a # b
      BY <2>3
    <3>2. a \in Seats /\ b \in Seats \ {a}
      BY <3>1 DEF CanAct
    <3>3. t.pot >= t.contrib[a] + t.contrib[b]
      BY <1>1, <3>2, PotOfTwo
    <3>4. t.pot \in Nat
      BY <1>1 DEF Tables
    <3> QED BY <1>1, <2>2, <3>3, <3>4
  <2>5. \A s \in CanAct(u) : u.contrib[s] - u.bet[s] >= BigBlind
    BY <1>1, <1>2, <1>4, <2>2 DEF CanAct, NoBets
  <2> QED BY <1>1, <1>2, <1>4, <2>4, <2>5 DEF Priced
<1> QED BY <1>3, <1>4 DEF Advanced

(* The prices of a pot-limit hand. *)
PriceInv ==
  /\ table.potLimit => \E t \in Openings : t.potLimit
  /\ phase = "betting" /\ table.potLimit => Priced(table)

LEMMA PriceStep ==
  ASSUME ReadyOpenings, PotLimitCovered, IInv, HandInv, PriceInv, [Next]_vars
  PROVE  PriceInv'
<1>1. table \in Tables /\ phase \in Phases
  BY DEF IInv, Playable, Sound
<1>2. CASE AutoStartHand
  <2>1. /\ table.bet = NoBets /\ table.contrib = NoBets /\ Anchored(table)
        /\ Cardinality(Ready(table)) >= 2 /\ table.pot = 0
    BY <1>2 DEF AutoStartHand, IInv, HandInv, ReadyOpenings, Idle, Anchored
  <2>2. PICK straddle \in Straddles, bomb \in BombPots :
          table' = StartHand(table, straddle, bomb)
    BY <1>2 DEF AutoStartHand, BeginShowdown
  <2>3. straddle \in BOOLEAN /\ bomb \in BOOLEAN
    BY TogglesAssumption
  <2>4. /\ Opened(table') /\ table'.potLimit = table.potLimit
        /\ table'.street = IF bomb THEN "flop" ELSE "preflop"
    BY <1>1, <2>1, <2>2, <2>3, StartHandLive
  <2>5. Sound(table')
    BY <1>1, <2>1, <2>2, <2>3, StartHandSound DEF IInv, Playable
  <2>6. ASSUME table'.potLimit PROVE Priced(table')
    <3>1. bomb = FALSE \/ BombSize >= BigBlind
      BY <2>2, <2>4, <2>6 DEF PriceInv, PotLimitCovered
    <3>2. table'.street = "preflop" \/ BombSize >= BigBlind
      BY <2>4, <3>1
    <3> QED BY <2>4, <2>5, <3>2, OpenedPriced DEF Sound
  <2> QED BY <2>4, <2>6 DEF PriceInv
<1>3. CASE Act
  <2> DEFINE seat == table.action
  <2>1. phase = "betting"
    BY <1>3, TurnTaken DEF IInv, Turn
  <2>2. PICK acted : ActedOn(table, acted, seat) /\ After(acted)
    BY <1>3, TurnTaken DEF IInv
  <2>3. Playable(acted) /\ acted \in Tables /\ acted.potLimit = table.potLimit
    BY <2>2 DEF ActedOn, Playable, Sound, Wagered
  <2>4. table.potLimit => Priced(acted)
    BY <1>1, <2>1, <2>2, ActionPriced DEF PriceInv
  <2>5. Accounted(acted)
    BY <1>1, <2>2, <2>3, SameChipsAccounted DEF IInv, ActedOn
  <2>6. CASE table' = acted /\ phase' = "resolving_sidepots"
    BY <2>3, <2>6 DEF PriceInv
  <2>7. CASE /\ Advanced(acted, table')
             /\ \/ BettingOver(table') /\ phase' = "resolving_sidepots"
                \/ ~BettingOver(table') /\ phase' = "betting"
    <3>1. table' \in Tables
      BY StepSound DEF IInv, Playable, Sound
    <3>2. table'.potLimit = table.potLimit
      BY <2>3, <2>7 DEF Advanced
    <3>3. table.potLimit /\ ~BettingOver(table') => Priced(table')
      BY <2>3, <2>4, <2>7, <2>5, <3>1, AdvancedPriced
    <3> QED BY <2>7, <3>2, <3>3 DEF PriceInv
  <2> QED BY <2>2, <2>3, <2>6, <2>7, TurnEnds
<1>4. CASE Resolved \/ UNCHANGED vars
  BY <1>4 DEF Resolved, vars, PriceInv
<1> QED BY <1>2, <1>3, <1>4 DEF Next, Act

LEMMA PriceInductive ==
  ASSUME ReadyOpenings, PotLimitCovered PROVE Spec => []PriceInv
<1>1. Init => PriceInv
  BY DEF Init, PriceInv
<1>2. IInv /\ HandInv /\ PriceInv /\ [Next]_vars => PriceInv'
  BY PriceStep
<1> QED BY <1>1, <1>2, Inductive, HandInductive, PTL DEF Spec

(* A shove that is offered costs more than a call and, if the pot limit    *)
(* shrinks it, is still a full raise.                                      *)
LEMMA ShoveFits ==
  ASSUME NEW t, Playable(t), Accounted(t), NEW s \in CanAct(t), t.potLimit => Priced(t),
         OffersRaise(t, s), FallbackBlind <= 2 * BigBlind \/ ~t.potLimit
  PROVE  CanRaise(t, s, ShoveTotal(t, s))
<1>1. /\ t \in Tables /\ Sound(t) /\ s \in Seats
  BY DEF Playable, Sound, CanAct
<1>2. PICK bet \in Nat, stack \in Nat, current \in Nat, contrib \in Nat, pot \in Nat,
           least \in Nat :
        /\ bet = t.bet[s] /\ stack = t.stack[s] /\ current = t.currentBet
        /\ contrib = t.contrib[s] /\ pot = t.pot /\ least = t.minRaise
  BY <1>1 DEF Tables
<1>3. bet <= current /\ bet <= contrib /\ contrib <= pot
  BY <1>1, <1>2, PotOfTwo DEF Playable, Matchable, BetAtMost, Sound, Backed
<1>4. stack > current - bet
  BY <1>2, <1>3 DEF OffersRaise, ToCall, Greater
<1> DEFINE limit == bet + pot + 2 * (current - bet)
           total == ShoveTotal(t, s)
<1>5. limit = PotLimitMaxTotal(t, s)
  BY <1>2 DEF PotLimitMaxTotal, ToCall
<1>6. CASE ~t.potLimit
  <2>1. total = bet + stack
    BY <1>2, <1>6 DEF ShoveTotal
  <2>2. total - bet > current - bet /\ total >= bet + stack
    BY <1>2, <1>4, <2>1
  <2> QED BY <1>2, <1>6, <2>2 DEF CanRaise, ToCall
<1>7. CASE t.potLimit
  <2>1. total = Lesser(bet + stack, limit)
    BY <1>2, <1>5, <1>7 DEF ShoveTotal
  <2>2. PICK blind \in Nat \ {0}, back \in Nat : blind = BigBlind /\ back = FallbackBlind
    BY BlindsAssumption
  <2>3. /\ t.street = "preflop" => current >= blind
        /\ t.street # "preflop" => contrib - bet >= blind
        /\ least = 0 => current = 0 /\ pot >= blind + blind
        /\ least <= current \/ (t.street # "preflop" /\ least <= blind)
    BY <1>2, <1>7, <2>2 DEF Priced
  <2>4. pot > 0 \/ current > bet
    BY <1>3, <2>2, <2>3
  <2>5. limit >= current + least
    BY <1>3, <2>3
  <2>6. limit >= BigBlindAmount(t)
    <3>1. CASE least > 0
      <4>1. BigBlindAmount(t) = least
        BY <1>2, <3>1 DEF BigBlindAmount
      <4> QED BY <1>2, <2>5, <4>1
    <3>2. CASE least = 0
      <4>1. BigBlindAmount(t) = back
        BY <1>2, <2>2, <3>2 DEF BigBlindAmount
      <4>2. back <= blind + blind
        BY <1>7, <2>2
      <4> QED BY <1>2, <1>3, <2>2, <2>3, <3>2, <4>1, <4>2
    <3> QED BY <1>2, <3>1, <3>2
  <2>7. limit >= MinRaiseTo(t)
    BY <1>2, <2>5, <2>6 DEF MinRaiseTo, Greater
  <2>8. limit - bet > current - bet
    BY <1>2, <1>3, <2>4
  <2> HIDE DEF limit, total
  <2>9. PICK most \in Nat, smallest \in Int : most = limit /\ smallest = MinRaiseTo(t)
    <3>1. limit \in Nat
      BY <1>2, <1>3 DEF limit
    <3>2. MinRaiseTo(t) \in Int
      BY <1>2, BlindsAssumption DEF MinRaiseTo, BigBlindAmount, Greater
    <3> QED BY <3>1, <3>2
  <2>10. /\ total <= most /\ total - bet > current - bet
         /\ total < smallest => total >= bet + stack
    BY <1>2, <1>4, <2>1, <2>7, <2>8, <2>9 DEF Lesser
  <2> QED BY <1>2, <1>5, <2>9, <2>10 DEF CanRaise, ToCall, total
<1> QED BY <1>6, <1>7

(* Whatever ValidActions offers the player on the clock as a raise,        *)
(* ApplyAction accepts as a shove, if hands start with two players ready:  *)
(* always at tables without a pot limit, and at pot-limit tables whose big *)
(* blind is half of BigBlindAmount's 200 or more and whose bomb pots cost  *)
(* at least a big blind.                                                   *)
THEOREM OfferHonoured ==
  ASSUME ReadyOpenings, PotLimitCovered PROVE Spec => []OfferedShoveIsAccepted
<1>1. IInv /\ HandInv /\ PriceInv => OfferedShoveIsAccepted
  <2> SUFFICES ASSUME IInv, HandInv, PriceInv, Turn, OffersRaise(table, table.action)
               PROVE  CanRaise(table, table.action, ShoveTotal(table, table.action))
    BY DEF OfferedShoveIsAccepted
  <2>1. Playable(table) /\ Accounted(table) /\ table.action \in CanAct(table)
    BY DEF IInv, HandInv, Turn
  <2>2. table.potLimit => Priced(table) /\ FallbackBlind <= 2 * BigBlind
    BY DEF PriceInv, PotLimitCovered, Turn
  <2>3. table.potLimit \in BOOLEAN
    BY <2>1 DEF Playable, Sound, Tables
  <2> QED BY <2>1, <2>2, <2>3, ShoveFits
<1> QED BY <1>1, Inductive, HandInductive, PriceInductive, PTL
==============================================================================
