-------------------------------- MODULE Hand --------------------------------
(***************************************************************************)
(* Hands played one after another at a cash table, settled in chips: the   *)
(* actions of BettingRound, the asynchronous showdown (pollPendingShowdown of   *)
(* match/holdem/handler.go with the pots of SidePots), the rake, and the   *)
(* players who sit down, leave or sit out while all that goes on.          *)
(***************************************************************************)
EXTENDS BettingRound, SidePots

CONSTANTS
  AllowRunItTwice, RunCount,      \* RunItTwiceBoards, 2 to 4
  RakeBps, RakeCap, RakeMinPot, NoFlopNoDrop,
  AutoBuyBack,                    \* AutoBuyBackCents; 0 is off
  BuyIns,                         \* buy-ins of players who join; {} for none
  MaxRank,                        \* bound: how many hand ranks are told apart
  MaxHands                        \* bound: hands dealt

ASSUME HandAssumption ==
  /\ AllowRunItTwice \in BOOLEAN /\ RunCount \in 2 .. 4
  /\ RakeBps \in 0 .. 10000 /\ RakeCap \in Nat /\ RakeMinPot \in Nat
  /\ NoFlopNoDrop \in BOOLEAN /\ AutoBuyBack \in Nat
  /\ BuyIns \subseteq Nat \ {0} /\ MaxRank \in Nat \ {0} /\ MaxHands \in Nat

VARIABLES
  pending,   \* PendingShowdown: the pots planned, the boards to run and the ranks
             \* the cards will give on each
  house,     \* chips credited to the club as rake
  cash,      \* chips taken off the table less chips brought to it, in wallets
  hands      \* HandNo
vars == <<table, phase, pending, house, cash, hands>>

NoShowdown == [pots |-> {}, boards |-> 1, ranks |-> <<>>]

Init ==
  /\ table \in Openings /\ phase = "waiting"
  /\ pending = NoShowdown /\ house = 0 /\ cash = 0 /\ hands = 0

----------------------------------------------------------------------------
(* Betting, and the plan taken when it ends. *)

ShouldRunItTwice(t) ==
  /\ AllowRunItTwice /\ t.board < 5
  /\ Cardinality(NonFoldedSeats(t)) >= 2
  /\ \A s \in NonFoldedSeats(t) : t.status[s] = "all_in"

(* The strength the cards will turn out to give each contender. *)
Rankings(t) ==
  {rank \in [Seats -> 1 .. MaxRank] : \A s \in Seats \ Contenders(t) : rank[s] = 1}

(* A board is run more than once only if everyone has agreed to it. *)
BoardCounts(t) ==
  {1} \cup IF ShouldRunItTwice(t) /\ ~Uncontested(t) THEN {RunCount} ELSE {}

PlanShowdown ==
  IF phase' = "resolving_sidepots" /\ phase # "resolving_sidepots"
  THEN \E boards \in BoardCounts(table') : \E ranks \in [1 .. boards -> Rankings(table')] :
         pending' = [pots |-> PlannedPots(table'), boards |-> boards, ranks |-> ranks]
  ELSE UNCHANGED pending

NextHand ==
  /\ hands < MaxHands
  /\ AutoStartHand /\ PlanShowdown
  /\ hands' = hands + 1 /\ UNCHANGED <<house, cash>>

PlayerActs ==
  Act /\ PlanShowdown /\ UNCHANGED <<house, cash, hands>>

ClockActs == TimeOut /\ PlanShowdown /\ UNCHANGED <<house, cash, hands>>

----------------------------------------------------------------------------
(* The showdown, answered by engine-math some time later. *)

Rake(pot) ==
  LET due == (pot * RakeBps) \div 10000
  IN  IF (NoFlopNoDrop /\ table.board = 0) \/ pot < RakeMinPot THEN 0
      ELSE IF RakeCap > 0 THEN Lesser(due, RakeCap) ELSE due

(* The engine is asked about a pot only if two seats can win it; it needs  *)
(* at least five cards for each.                                           *)
Disputed == {pot \in pending.pots : Cardinality(pot.eligible) >= 2}
EngineCanRank ==
  /\ table.board >= 3 \/ pending.boards > 1
  /\ \A pot \in Disputed : pot.eligible \subseteq table.cards

(* ResetBetweenHands, then standUpBusted: felted players buy back in or    *)
(* lose their seats.  owed is what the settlement pays into wallets.       *)
ToNextHand(t, owed) ==
  LET felted == {s \in Occupied(t) : t.stack[s] = 0}
  IN  \E rebuying \in (IF AutoBuyBack > 0 THEN SUBSET felted ELSE {{}}) :
        LET stood == StandUp(ResetBetweenHands(t), felted \ rebuying)
        IN  /\ table' = [stood EXCEPT !.stack = [s \in Seats |->
                           IF s \in rebuying THEN AutoBuyBack ELSE @[s]]]
            /\ cash' = cash + owed - AutoBuyBack * Cardinality(rebuying)
            /\ phase' = "waiting" /\ pending' = NoShowdown /\ UNCHANGED hands

ResolveShowdown ==
  /\ phase = "resolving_sidepots"
  /\ Disputed = {} \/ EngineCanRank
  /\ \E resolved \in {Resolutions(pending.pots, pending.boards, pending.ranks)} :
     \E payouts  \in {Payouts(resolved, table.button)} :
     \E awarded  \in {Awarded(table, payouts)} :
     \E rake     \in {Rake(table.pot)} :
     \E settled  \in {DeductRake(awarded, resolved, rake)} :
       /\ ToNextHand(settled, Orphaned(table, payouts))
       /\ house' = house + rake

(* Mutant: an error is reported and the hand is left as it is. *)
RefundNobody == phase = "resolving_sidepots" /\ Disputed # {} /\ UNCHANGED vars

(* The engine is down, or refuses the cards: everybody still seated gets   *)
(* back what they put in.                                                  *)
RefundHand ==
  /\ phase = "resolving_sidepots" /\ Disputed # {}
  /\ \E refunded \in {[table EXCEPT !.pot = 0,
                          !.stack = [s \in Seats |-> @[s] + table.contrib[s]]]} :
       ToNextHand(refunded, 0)
  /\ UNCHANGED house

----------------------------------------------------------------------------
(* Comings and goings, at any time.  A player with a live hand stays.      *)

(* Mutant: an all-in player may leave. *)
InLiveHandWithChips(s) == phase # "waiting" /\ table.status[s] = "seated"

InLiveHand(s) == phase # "waiting" /\ table.status[s] \in {"seated", "all_in"}

(* Mutant: a leaver takes back what he has put into the pot. *)
LeaveWithStake(s) ==
  /\ s \in Occupied(table) /\ ~InLiveHand(s)
  /\ table' = StandUp(table, {s})
  /\ cash' = cash + table.stack[s] + table.contrib[s]
  /\ UNCHANGED <<phase, pending, house, hands>>

(* OpStandUp, MatchLeave, an immediate kick: the stack goes to the wallet. *)
Leave(s) ==
  /\ s \in Occupied(table) /\ ~InLiveHand(s)
  /\ table' = StandUp(table, {s})
  /\ cash' = cash + table.stack[s]
  /\ UNCHANGED <<phase, pending, house, hands>>

(* OpSitDown: after the first hand a newcomer owes a post, and sits out a  *)
(* hand that is being played.                                              *)
Join(s, chips, postNow) ==
  /\ s \notin Occupied(table)
  /\ table' = LET seated == SitDown(table, s, chips)
              IN  IF hands = 0 THEN seated
                  ELSE [seated EXCEPT
                          !.owesPost = @ \cup {s},
                          !.postNow  = IF postNow THEN @ \cup {s} ELSE @,
                          !.status[s] = IF phase = "waiting" THEN @ ELSE "folded"]
  /\ cash' = cash - chips
  /\ UNCHANGED <<phase, pending, house, hands>>

(* OpSitOut *)
SitOut(s) ==
  /\ s \in Occupied(table)
  /\ table' = [table EXCEPT !.sittingOut = @ \cup {s}]
  /\ UNCHANGED <<phase, pending, house, cash, hands>>

SitIn(s) ==
  /\ s \in Occupied(table)
  /\ table' = [table EXCEPT !.sittingOut = @ \ {s},
                            !.owesPost = IF hands > 0 THEN @ \cup {s} ELSE @]
  /\ UNCHANGED <<phase, pending, house, cash, hands>>

----------------------------------------------------------------------------
(* The last of the hands this module follows. *)
Done == phase = "waiting" /\ hands = MaxHands /\ UNCHANGED vars

(* One player is left, and waits for another. *)
Alone == phase = "waiting" /\ Cardinality(Occupied(table)) < 2 /\ UNCHANGED vars

Play == NextHand \/ PlayerActs \/ ResolveShowdown \/ RefundHand

ComeOrGo ==
  \E s \in Seats :
    \/ Leave(s)
    \/ \E chips \in BuyIns, postNow \in BOOLEAN : Join(s, chips, postNow)
    \/ SitOut(s)
    \/ SitIn(s)

Next == Play \/ ComeOrGo \/ Done \/ Alone

(* The same players throughout. *)
SteadySpec == Init /\ [][Play \/ Done \/ Alone]_vars

Spec == Init /\ [][Next]_vars

(* The clock acts for absent players on every tick, and the showdown       *)
(* goroutine always delivers a result or, after its timeout, an error.     *)
Fairness == WF_vars(ClockActs) /\ WF_vars(ResolveShowdown \/ RefundHand)
FairSpec == SteadySpec /\ Fairness

----------------------------------------------------------------------------
(* Correctness. *)

Pots == [level : Nat, amount : Nat, eligible : SUBSET Seats]

(* The types of MatchState as far as it is modelled here.                  *)
TypeOK ==
  /\ table \in Tables /\ phase \in Phases
  /\ pending.pots \subseteq Pots
  /\ house \in Nat /\ cash \in Int /\ hands \in 0 .. MaxHands

(* All the chips there are: in stacks, in the pot, with the house and in   *)
(* wallets.                                                                *)
Worth == Total(table.stack) + table.pot + house + cash

(* What the seats still there have put in, each up to a stake. *)
MatchedBy(stake) == Total([r \in Seats |-> Lesser(table.contrib[r], stake)])

MaxOf(S) == CHOOSE m \in S : \A n \in S : n <= m

(* The chips the plan pays to somebody. *)
Claimed == SumFunction([pot \in pending.pots |-> pot.amount])

(* No payout, odd chip, rake, refund or cash-out makes or loses a chip,    *)
(* but for the chips that the showdown plan leaves in no pot and those     *)
(* that a refund owes to players who have left.                            *)
OnlyUnclaimedChipsVanish ==
  [][Worth - Worth' = CASE ResolveShowdown -> table.pot - Claimed
                        [] RefundHand      -> table.pot - Total(table.contrib)
                        [] OTHER           -> 0]_vars

(* Table stakes: with one board and no rake, the contenders of rank k and  *)
(* better share between them exactly what the largest stake among them is  *)
(* matched by, whatever layers the pot was cut into.                       *)
TableStakes ==
  [][ResolveShowdown /\ house' = house /\ pending.boards = 1
     /\ ~Uncontested(table) =>
       \A k \in 1 .. MaxRank :
         LET best   == {s \in Contenders(table) : pending.ranks[1][s] >= k}
             won(s) == table'.stack[s] - table.stack[s]
         IN  best # {} =>
               Total([s \in Seats |-> IF s \in best THEN won(s) ELSE 0])
                 = MatchedBy(MaxOf({table.contrib[s] : s \in best}))]_vars

(* A player wins at most what the others' stakes match of their own, also  *)
(* when the board is run more than once.                                   *)
NobodyWinsMoreThanMatched ==
  [][ResolveShowdown /\ ~Uncontested(table) =>
       \A s \in Seats : table'.stack[s] - table.stack[s] <= MatchedBy(table.contrib[s])]_vars

(* The rake comes out of what was won: it never reaches a chip that a      *)
(* winner had not put at stake.                                            *)
RakeIsTakenFromThePot ==
  [][ResolveShowdown =>
       \A s \in Seats : table'.stack[s] >= table.stack[s]]_vars

(* Nobody named in the plan leaves before it is carried out, so no share   *)
(* is orphaned and no new occupant of the seat is paid in their place.     *)
WinnersAreStillThere ==
  phase = "resolving_sidepots" =>
    \A pot \in pending.pots :
      pot.eligible # {} /\ pot.eligible \subseteq NonFoldedSeats(table)

(* A settled or refunded hand leaves nothing on the table behind. *)
NothingLeftOver ==
  phase = "waiting" =>
    /\ table.pot = 0 /\ table.contrib = NoBets /\ table.bet = NoBets
    /\ \A s \in Seats : table.status[s] \in {"empty", "seated"}

(* Every hand comes to an end and the table is ready for the next one.     *)
EveryHandIsSettled == (phase # "waiting") ~> (phase = "waiting")

----------------------------------------------------------------------------
(* What comments and documents of the repository say, and the code does    *)
(* not do.                                                                 *)

(* "sum(all_seated_stacks) + sum(all_busted_stacks) +                      *)
(* total_rake_collected == initial_total_buy_in_cents", "checked after     *)
(* every hand" (the chip ledger invariant of context.md:39-44): a          *)
(* settlement neither makes nor loses a chip.                              *)
ChipsAreConserved == [][ResolveShowdown => Worth' = Worth]_vars

(* The table is never left "stuck in PhaseBetting (nobody can act -> the   *)
(* whole table hangs)" (handler.go:2050-2052): in the betting phase the    *)
(* seat on the clock is occupied.                                          *)
NeverStuckInBetting == phase = "betting" => table.action \in Occupied(table)

(* An all-in showdown that everybody agrees to run twice is run twice when *)
(* the board was incomplete (handler.go:1807-1809, 1820-1822).             *)
AllInBeforeTheRiverCanRunTwice ==
  [][AllowRunItTwice /\ phase = "betting" /\ table.board < 5 =>
       \/ phase' = "betting" \/ Uncontested(table')
       \/ \E s \in NonFoldedSeats(table') : table'.status[s] # "all_in"
       \/ ShouldRunItTwice(table')]_vars
==============================================================================
