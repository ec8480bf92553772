# A TLA+ model of the poker server

This directory models the game server under `src/backend-core`, and the pages of
`src/frontend-table` that take part in its protocols: TLA+ modules translated
from the Go and TypeScript code, TLC configurations that check them on small
instances, and theorems that the TLAPS proof system checks for every instance.

## 1. The system and its parts

The server is a Go plugin of the Nakama game server. Everything at one table
happens in one *match*: `MatchLoop` (`match/holdem/handler.go`) runs about ten
times a second, handles the messages of that tick one after the other, then the
bots, the action clock, the pending showdown and the start of the next hand.
Within a table nothing runs concurrently except the showdown, whose answer
arrives from a goroutine over a channel. Between tables, and between tables and
the RPC handlers, everything is concurrent and meets in Postgres or in match
signals.

| Component | State | Operations | Interacts with | What makes it correct |
|---|---|---|---|---|
| table engine, `poker/table.go` | `Table`: seats, pot, bets, street, positions | `StartHand`, `ApplyAction`, `AdvanceAction`, `ResetBetweenHands`, `SitDown`, `StandUp` | called by the match only | the pot is what was paid in; streets close even; the turn never rests on a seat that cannot act; only the dealt-in play |
| side pots and showdown, `poker/sidepot.go`, `showdown_async.go` | none (pure) | `BuildSidePots`, `BuildShowdownPlan`, `computeShowdown`, `ApplyResolutions`, `DeductRakeFromWinners` | asks engine-math for winners over HTTP | table stakes; no chip made or lost by splits, odd chips, several boards or rake |
| table match: hand lifecycle, `match/holdem/handler.go`, `poker/phase.go` | `MatchState`: phase, pending showdown, deadlines | message handlers, `autoStartHand`, `enforceActionDeadline`, `beginShowdownResolution`, `pollPendingShowdown`, `standUpBusted` | drives the table; freezes a plan, hands it to a goroutine, applies the answer ticks later | every hand ends and is settled once; nobody named in a plan leaves before it is applied |
| table match: wallets and transfers | `SeatWallet`, `SeatLocked`, `PendingSeatIn/Out`, `PendingKickSeats` | buy-in, cash-out, add chips, move seat, buy-back, seat transfer, deferred kick | wallet and club stores; other matches through signals | the table can pay everyone; a player is paid into the purse he bought in from; a kick hits the one it was meant for; a moved stack is neither lost nor doubled |
| tournament director, `match/tournament`, `store/wallet.go`, `rpc/tournament*.go` | status, registrations, finish places, list of tables | register, start and finish claims, prizes, rebalancing | signals tables, which signal one another | one director; an entry is paid for once; prizes once and to champions |
| withdrawals and deposits, `store/withdrawal.go`, `store/deposit.go`, their RPCs and pages | request and order status | request, claim, pay out, approve, reject; order, notify, credit | payment gateways, wallet, ledger | one payout or one refund per request; a paid invoice is credited, once |
| wallet and ledger, club balances and credit, `store` | balances and entries, club locks, settlement lines | one SQL transaction per call | all of the above | entries balance; locks are returned |
| game page, `features/game/GameProvider.tsx`, `features/hud` | prompt on view, queued move, session key, cards | join, prompt, act, queue a move, leave, reload | the match, over a socket | a move is applied once; the bar is up on the player's turn; the cards shown are the hand's, or were overtaken |
| active-seat registry, RPC layer, clubs and loyalty stores, audit | rows | CRUD | Postgres, outside services | mostly single statements |
| bots, engine-math, other pages, AI host, coaching, pokersim | none of their own that the game reads back | choose an action, rank hands, render | the match, HTTP | any legal action or any ranking is covered by the model |

`PROJECT.json` lists the components with what is and what is not modelled, and
the hazards of each at their lines. What is hard to test in this code:

* long sequences of legal calls: short all-ins, blinds that empty a stack,
  players held out of the hand who still sit there with chips;
* the showdown goroutine: a plan taken at one tick and applied at a later one,
  with players leaving, joining and disconnecting in between, or an error
  instead of an answer;
* the action clock, which acts for a player in the same loop as the player;
* arithmetic at the edges: odd chips, layers of a pot, a rake on a small pot,
  a minimum raise of zero;
* state that survives from one street or hand into the next;
* several database transactions and a call to another system in one handler,
  any of which may fail or be the last before a stop, with a second handler at
  work on the same rows: withdrawals, deposits, tournaments, buy-ins;
* messages between page and match, and signals between matches, that cross,
  repeat, or are answered by an error after they were obeyed;
* bookkeeping by seat number while players change seats.

## 2. The modules

| Module | Models | |
|---|---|---|
| `Chips` | the ring of seats, sums of chips | operators |
| `PokerTable` | `poker/table.go`: one operator per method, from a table record to the table it leaves | operators |
| `BettingRound` | the handlers a hand goes through: the deal, the players' actions, the clock | actions |
| `Betting` | one hand, from `autoStartHand` to `beginShowdownResolution`; extends `BettingRound` | state machine |
| `SidePots` | `poker/sidepot.go`, `poker/showdown_async.go` | operators |
| `Hand` | several hands with showdown, rake, refund, and players who come and go; extends `BettingRound`, so that its hands are `Betting`'s | state machine |
| `ClubSeats` | the money behind the seats of one club table: purses, locks, settlement, loans, buy-backs, kicks, the close | state machine; extends `Chips` |
| `HeldFunds` | what the cashier promises about money on its way out | abstract state machine |
| `Cashier` | deposits and withdrawals from page to gateway; implements `HeldFunds` (`Promise == INSTANCE HeldFunds WITH ...`) | state machine |
| `GameClient` | a player's page and his match, joined by two message queues | state machine |
| `Tournament` | registration, start, director, rebalancing, seat transfers, prizes | state machine |
| `Positions`, `MCBetting`, `MCHand`, `MCClubSeats`, `MCCashier`, `MCGameClient`, `MCTournament` | instances for model checking | |
| `SumProofs`, `PokerTableProofs`, `BettingProofs`, `HandProofs`, `ClubSeatsProofs`, `CashierProofs`, `GameClientProofs`, `TournamentProofs` | proofs | |

**A table** is a record with a field for every field of `Table` and `Seat` the
rules read. A seat of status `"empty"` is a nil `*Seat`. `stack`, `bet` and
`contrib` are `Seat.Stack`, `Bet` and `TotalContributed`; `acted` is
`ActedThisRound`; `sbSeat` and `bbSeat` are the anchors the blinds move from;
`None` is the -1 of the code. Cards are reduced to what betting depends on: who
holds some, and how many are on the board. Each `Can...` operator is what a
branch of `ApplyAction` requires and the operator of the same name what it does.

**An action** is a whole handler. A player's action, a bot's and the clock's all
end in `After`: the code's check for an uncontested pot, then `AdvanceAction`
with everything it calls (the street, a runout of the board), then, if betting
is over, `beginShowdownResolution`. Bots are players who may take any action
that `ApplyAction` accepts.

**The showdown** is planned in the step that ends betting (`PlannedPots`), and
`pending` holds the plan until `ResolveShowdown` or `RefundHand` applies it,
with `Leave`, `Join`, `SitOut` and `SitIn` free to happen in between. What the
cards will say is chosen with the plan: any ranking of the contenders, one for
each board. `EngineCanRank` is when engine-math answers; otherwise, or at any
time if it is down or slow, the hand is refunded.

**Chips** are integers without a width: amounts are `int64` cents, and no sum of
the chips on a table comes near 2^63.

**The money behind a seat** (`ClubSeats`). `books` is the database: cash and
club purses, what the club has locked, issued and settled, and the table's
account. Each function from books to books (`DebitTo`, `LockBalanceForTable`,
`SettleSeatAtTable`, ...) is one transaction. Of a hand only its chips and who is
still in it remain: the bets and the payouts are any that `Betting` and `Hand`
allow. What the match does after a hand is a sweep over the seats (`cursor`),
because each seat may call the database, and a payment may be refused.

**The cashier.** A handler that makes several database or gateway calls is a
record in `tab` or `desk` that says which call comes next, so two of them
interleave at every call; `Crash` drops all of them. The gateway is external: an
invoice it may be paid for, a payout it may make without our hearing of it,
notifications it may send in any order and number.

**The page.** `down` and `up` are the two directions of the socket. `page` holds
what `GameProvider` keeps (the prompt on view, the one cleared by the last move,
the nonce, the queued move, the session key and cards), `server` what the match
knows of the player. The handlers of one message are one action each; a promise
(importing the key, decrypting cards) resolves in an action of its own. Every deal
starts a decryption, no later deal cancels it, and the match deals without waiting
for the page: `page.decrypting` is the set of hands still being decrypted, any of
which may end next. `page.behind` is a history variable, the decryptions that were
running when the latest cards came. Ticks are not told apart, so the refusal of a
time bank whose turn's clock is not armed yet (`handler.go:1437`) is possible at any
time.

**The tournament.** Registration, start and payout are handlers with a program
counter (`request`, `start`, `payer`), the director included, since it is a match
of its own that runs against the RPCs. `Fault` marks a database call, a creation
or a signal that fails, or whose answer is lost; among them the calls between the
claim and the payments, after which somebody or everybody is owed nothing, and a
player count that fails, which the director takes for zero. A table's seats change in the
order `MatchLoop` imposes: `processPendingSeatIn` before
`processPendingSeatTransfers`, both between hands, which for a tournament table of
this commit is always: it never deals.

## 3. What is checked

The passing runs, with the bounds they use:

* `betting` (`MCBetting.cfg`): one hand at three seats, blinds 1 and 2, stacks up
  to 5, raises to totals up to 6, straddles and bomb pots on and off, and three
  kinds of opening: fresh tables with every distribution of chips over two or
  three seats; tables that have been playing, with the blind anchors anywhere
  and one seat that owes a post, posts on entry, sits out or has no chips; and
  pot-limit tables. It shows that the accounts of the pot are right, that the
  turn is always with someone who can act, that only the dealt-in pay or can
  win, that a shove offered to a player is accepted, that streets close even,
  and that betting ends.
* `settled_hands` (`MCHand.cfg`): two raked hands in succession among the same
  three players, bomb pots, and boards run twice. Hands of two ranks are enough
  for a split and for a loser at every layer. It shows that a settlement pays
  what the stakes match and no more (`TableStakes` compares the payouts of the
  layered algorithm with a direct definition: the best hands share what the
  largest stake among them is matched by), that it makes or loses no chip
  except those the plan leaves in no pot, that rake comes from winnings, and
  that every hand is settled or refunded.
* `comings_and_goings` (`MCHand_open.cfg`): one hand with players joining,
  leaving, sitting out and returning at every point, the time between plan and
  settlement included. It shows that nobody a plan names has left when it is
  carried out, and that nothing of a hand remains on the table after it.

* `club_seats` (`MCClubSeats.cfg`): a member with cash, a guest with club chips and
  a stranger who may be lent some, at two seats, around one hand, with one
  refused payment. It shows that the table's account always covers the stacks
  and the pot; that what was locked, settled and advanced agrees for everyone
  whose seat was not moved, topped up, bought back or felted; that whoever leaves
  is paid into the purse he came from; and that a deferred kick and a close are
  carried out, the kick on the right player or on one who took the seat since.
* `cashier` (`MCCashier.cfg`): three withdrawals and a deposit from two pages, two
  operators, amounts of 1 and 2 against a stipend and limits of 2. It shows that
  the house's accounts agree with the rows; that nothing is paid twice, or paid
  and refunded; that the weekly limit is passed only by requests made together;
  that a paid invoice is credited in the end; and that all this implements
  `HeldFunds`.
* `page_and_match` (`MCGameClient.cfg`): two hands and two turns of the player, one
  reload, one message in flight each way before more are sent. It shows that no
  nonce ends two turns; that a move acts on a later turn than it was meant for
  only if the clock or another move had ended that one; that the bar is up when
  it is the player's turn and all is quiet; and that the cards shown are then
  the hand's, unless an earlier hand was still being decrypted when they came.
* `tournament` (`MCTournament.cfg`): two entrants and a third who clicks twice,
  tables of two seats with a third that the cap forbids, two starts, one manual
  finalization, one fault. It shows that an entry is paid for once; that only
  champions are paid, none more than the pool; that there is never a second
  director; and that a moved stack is lost only where a reserved seat was taken
  and doubled only where an answer was lost.

Why the bounds suffice: three seats are the fewest with a button, two blinds and
a side pot; with stacks of up to five and blinds of 1 and 2 a player can be all
in from a blind, from a call, from a short raise (less than the minimum) and
from a full one, and three stacks can differ, so that every branch of
`ApplyAction` and every layer of a pot occurs. `MaxAmount` bounds the total a
raise may name above every stack, so no raise is lost by it. `FallbackBlind` is
the code's 200, scaled down with the default big blind of that size. `MaxHands`
is two because state can only leak from one hand to the next. Four seats are not
explored; the accounting is proved for any number.

In `ClubSeats` two seats suffice for a move, a kick of a seat that has changed
hands and a heads-up hand; the loan equals the platform minimum, as explained
below, and buy-ins of 3 exceed it, so that a loan is clamped. `MaxAdvanced` keeps
a player from being lent chips for ever. In `Cashier` one withdrawal per page and
one more meet at two operators; the limits equal the larger amount, so that two
requests together pass them. In `GameClient` a late move needs two turns, stale
cards two hands and a stale connection two sessions. In `Tournament` a start makes
one table or two; `MaxTables` stops a third start from making more, `MaxSits` lets
each player take one seat by himself, `SitsWhile` lets them do so only while the
event runs, and one fault is enough for each failure to be followed by a retry.
Two directors, two champions, an overbooked table and a lost answer were each
seen to be reachable, or made reachable by a mutant, within these bounds.

**Fairness.** `Betting!FairSpec` assumes only that the clock's action is taken
if it stays possible: `enforceActionDeadline` runs on every tick, and nothing
postpones a deadline for ever. Players owe nothing. `Hand!FairSpec` adds
that a showdown is resolved or refunded: the goroutine sends an answer or, after
its timeout, an error, and `pollPendingShowdown` runs on every tick. Starting a
hand is not assumed fair. `ClubSeats!FairSpec` assumes that the match loop goes
on (`Ticks`): it ends a hand, sweeps the seats, takes the safe point and closes;
players and hosts owe nothing. `Cashier!FairSpec` assumes that a notification of
a paid invoice is delivered in the end: the gateways repeat it until it is
answered with success, which is why the webhook answers a failure with an error
(`subscription_stripe.go:331-340`). `GameClient` and `Tournament` state safety only.

### Where the code and its documents disagree

Five runs end in a counterexample to something a comment or document of the
repository states; the findings of `PROJECT.json` quote the lines.

* `short_all_in_reopens`: a player who has acted may raise again after a short
  all-in.
* `first_to_show_folded`: the seat that must show first may have folded, because
  the aggressor is remembered across streets.
* `chips_vanish`: a player folds and leaves before the showdown; what he had put
  in is in `Table.Pot` but in no side pot, and is lost. `OnlyUnclaimedChipsVanish`
  shows that this, the layers that only folded seats have paid into, and a
  refund owed to someone who has left are the only ways in which chips
  disappear.
* `stuck_in_betting`: `StartHand` finds too few players and the phase becomes
  betting nevertheless, with an empty seat on the clock.
* `run_it_twice_too_late`: the board is run out before it is asked whether to run
  it twice.

Also seen, with no run of their own:

* `MinRaise` after a short all-in opening bet on a later street is below the big
  blind (`table.go:815-817`). With a big blind below the 200 that
  `BigBlindAmount` falls back on, a shove that pot limit shrinks to less than
  200 is refused at the start of a street (`table.go:796-797`, `818-824`), and so is
  one in a bomb pot whose ante (`table.go:494-499`) is smaller than the big blind; the
  runs keep `FallbackBlind` at the big blind, as it is with the default blinds.
* A straddle replaces the live big blind that a returning player has just posted
  under the gun (`table.go:480`, `718-720`), which becomes dead money.
* When gross winnings are zero, or the remainder exceeds one winner's chips, the
  rake credited is more than the rake deducted (`showdown_async.go:237-241`,
  `279`). `settled_hands` rakes pots of eight chips and more, where neither
  happens.
* If both blinds are all in when they are posted, or a bomb pot's antes put
  everyone all in, the board is short at the showdown.

At the seats of a club table:

* A non-member's buy-in is clamped down to the loan (`handler.go:2670`) and the
  seat clamped up to the platform minimum by `SitDown` (`table.go:243`). With a
  loan below that minimum `TableCanPay` fails: the seat holds chips nobody was
  charged. `handler.go:1234-1239` says the charge and the stack cannot differ.
* A seat that is moved, topped up, bought back into or felted no longer has the
  lock its owner's chips need: `AccountsAgree` excepts exactly these (`astray`).
  `settlement.go:67-70` says loans and returns sum to zero in a closed system.
* A guest's top-up asks for the cash purse (`handler.go:1505`) and is cashed out
  with the seat into club chips, against "the SAME wallet" of `handler.go:2695`.
* A loan is made "once" (`handler.go:2655`), but again whenever the stranger sits
  down without the chips.
* `ledger_reconcile.go:96-100` adds locked chips to a balance from which locking
  has already taken them.
* `ratholing` is said to override the table maximum (`handler.go:985-988`); the
  later clamps still apply.
* A host's action is refused outside betting (`handler.go:919-926`): a table that
  is paused and between hands cannot be resumed.

At the cashier:

* A request that failed at the gateway (`payout_failed`), or whose handler
  stopped (`paying`), has no operation that takes it on; the comments speak of a
  human who reconciles it. `HeldFunds` therefore promises no decision.
* The weekly and daily limits are read in one call and used in another
  (`LimitExceededOnlyTogether`). A deposit given up by the page and paid late is
  credited outside the daily limit it was checked against.
* `AttachGatewayID` sets `waiting` whatever the status; were it to come after the
  credit, the order would be credited again. The order of calls prevents it, and
  `BooksAgree` is checked against a mutant that does not.
* Any deposit at all makes the stipend withdrawable, which the comment at
  `rpc/withdrawal.go:40-50` rules out.
* `DepositLimitsPanel` says its limits are enforced; `checkDepositLimit` reads the
  membership tier only.

At the page:

* The nonce is not bound to a turn (`handler.go:1581`): a move that arrives after
  the clock has acted can act on the player's next turn.
* "Exit Table" clears the cards although the server refuses to let a player leave
  in a hand (`GameProvider.tsx:515-520`).
* After a reload the old connection's leave removes the new one's presence
  (`handler.go:838-839`), and joining again sends neither prompt nor cards.
* A queued move survives into the next hand (`preAction.ts:13`).
* The decryption of a hand's cards may end after that of the next hand's: nothing
  cancels it or compares hands (`GameProvider.tsx:246-258`), and `autoStartHand`
  (`handler.go:2168-2214`) does not wait for it. The page then shows last hand's
  cards for the rest of the hand. TLC finds the statement without this exception,
  `page.cards = server.hand`, violated when two hands are being decrypted at once
  and the older ends last; `OnlyOvertakenCardsAreStale` says that nothing else
  makes them stale.

In a tournament:

* Tournament tables are created with `AutoDeal` off (`handler.go:592`) and the
  opcode that starts a hand is refused outside betting (`handler.go:919`): no hand
  is dealt.
* A player for whom a seat was kept is dropped if someone else has sat down in it
  (`handler.go:3150`): `FirstEmptySeat` finds a seat beyond the cap, which
  `SeatTransferIn` refuses. The comment at `handler.go:3143-3147` says he is queued
  again "rather than drop the player's chips into nowhere".
* A transfer signal that is answered by an error after it was obeyed leaves the
  player with two stacks.
* `TournamentFinalize` counts the players and claims afterwards, whatever the status:
  of an event that is just being started, every player then `playing` is crowned
  and paid as champion, each within the pool but together above it
  (`tournament_ext.go:323-367`, "The last player still 'playing' is the champion").
  `OnlyChampionsArePaid` bounds each payment, not their sum.
* When `SetDirectorMatch` fails the event stays in `starting`; and the start claim is
  also released after tables were created, which the comment at `wallet.go:426`
  excludes.
* A stop or a failed call between `FinishOnce` and the payments can leave everybody
  unpaid (`director.go:200-231`, `tournament_ext.go:350-383`).
* A registration that comes late is never given a table and never counts as
  playing; `max_players` is stored and not enforced.

## 4. What is proved

The theorems of `BettingProofs` hold for every number of seats, blinds, ante,
set of opening tables that are between hands (`Idle`), table options and bound
on raises. Their assumptions are those of the constants
(`MaxSeatsAssumption`, `BlindsAssumption`, `OpeningsAssumption`,
`TogglesAssumption`): positive blinds, the small one not above the big one.

| Theorem | States |
|---|---|
| `TypeCorrect` | `TypeOK`; so no stack, bet or pot is ever negative |
| `PotAccounted` | `PotIsContributions`: the pot is the sum of the contributions |
| `BetsCovered` | `BetsAreCovered`: no bet exceeds the bet to match, nor the seat's contribution |
| `ChipsStay` | `ChipsStayWithTheirSeat`: a step moves chips only from a seat's stack to its contribution |
| `StreetsCloseEven` | `StreetClosesEven`: no seat that can act sees the next street for less than another, or without having acted |
| `TurnPlayable` | `TurnIsPlayable`, under `ReadyOpenings` |
| `DealtPlay` | `OnlyTheDealtPlay`, under `ReadyOpenings` |
| `OfferHonoured` | `OfferedShoveIsAccepted`, under `ReadyOpenings` and `PotLimitCovered` |

The first four are proved together, because none is inductive alone. That a call
leaves the stack a natural number needs `BetsAreCovered` (otherwise `toCall` is
negative); that bets stay covered needs the type; that a hand begins with an
accounted pot of zero needs the contributions of the hand before to have been
cleared. The invariant is

    IInv == /\ phase \in Phases
            /\ Playable(table)
            /\ Accounted(table)
            /\ phase = "waiting" => Idle(table)

where `Playable` is the type of the table, every bet backed by a contribution,
and every bet at most the bet to match, and `Accounted` that the pot is the sum
of the contributions. The two are apart because a table where people leave keeps
only the first (see `HandProofs` below). `Idle` is the condition that `OpeningsAssumption` puts on
the tables a hand starts from.

`StreetsCloseEven` follows from the same invariant. Every action of the seat in
turn, whoever or whatever takes it, is an `ActionOf` that seat: it leaves the
others' standing alone, and what the seat pays is bet on the street, so bet and
contribution differ by the same amount before and after. `AdvanceAction` opens a
street only if `AllMatched`, and no bet is above the one to match.

The turn needs more: that whoever is in the hand was dealt in, that only they
have paid, and that there are two of them (`HandInv`). An action takes at most its
own seat out, and with one contender left the hand goes to its showdown, so two
stay. The deal must start it: `StartHandLive` follows the blinds, antes, posts and
straddle and finds two players in the hand, none of them without cards, and the
turn on one who can act or on nobody. That is so if two players are ready when the
hand starts, which `autoStartHand` does not check: it counts occupied seats.
`ReadyOpenings` says that it is, as it is for the tables of `Positions`; without
it the theorem is false, and `stuck_in_betting` shows how.

An offered shove is refused only where the pot limit shrinks it below the
minimum raise. `PriceInv` says what the bets of a hand amount to: there is a big
blind to match before the flop; after it everyone who can act has put one in; the
last raise is at most the bet to match, or it is the big blind a bomb pot starts
with; and where no raise is known and `BigBlindAmount` falls back on 200, two
seats have put in a big blind each. So the limit is never below the minimum raise
if 200 is at most two big blinds, and if a bomb pot's ante is a big blind or more:
`PotLimitCovered`, asked of pot-limit tables only. The code ensures neither; with
smaller blinds or antes the refused shoves of section 3 begin.

`PokerTableProofs` shows one operator of the rules engine after another to keep
`Playable`, `Accounted` and every seat's chips: collecting chips, blinds, antes, posts, the
positions, the deal, bomb pot and straddle, then fold, check, call, raise and
shove, then the street and the turn. `BettingProofs` applies them action by
action. It begins with what they rest on: what one seat's change does to a total
of chips, and that a walk round the ring ends in the set it looks for. `SumProofs`
holds the arithmetic of sums over finite sets (`Total` and the sums of `SidePots` are
the community modules' `SumFunctionOnSet` and `SumFunction`): that a sum is a
number, that it is taken apart one member at a time, that a sum of sums is the sum
of the totals, that rows and columns of a table add up to the same (`SwapSums`), and
that what the owners of things have is all there is (`SumByOwner`). Facts about every
finite set are shown by taking the least set for which they fail, since the
library's induction is out of the provers' reach.

The theorems of `HandProofs` hold for any number of seats and of hands, any boards,
ranks of hands, rake and buy-ins, and any opening tables between hands whose empty
seats have nothing on them. Where a theorem has a hypothesis beyond the assumptions
of the constants, the second column names it.

| Theorem | Hypothesis | States |
|---|---|---|
| `HandTypeCorrect` | | `TypeOK`: the table, the plan and what is counted of the hands keep their types; so no payout, rake or refund makes a stack negative |
| `WinnersStay` | | `WinnersAreStillThere`: every pot of a pending showdown names someone, and nobody it names has folded or left |
| `NothingStays` | | `NothingLeftOver`: between hands no bet, contribution, fold or pot of a hand is left |
| `ChipsStayCounted` | no rake | `OnlyUnclaimedChipsVanish`: stacks, pot, house and wallets together change only by the chips a plan leaves in no pot and those a refund owes to empty seats |
| `NoChipLostToRake` | | at any rake a showdown loses no other chips, and makes at most the rake |
| `NobodyOverpaid` | no buy-back, the same players | `NobodyWinsMoreThanMatched`, at any rake and on any number of boards |
| `StakesMatched` | no buy-back, the same players | `TableStakes`: with one board and no rake taken, the best hands win together what the largest stake among them is matched by |

The invariant is `HInv`: the table is playable, its blinds move from seats or from
`None` (`Anchored`), and an empty seat has neither chips nor a contribution
(`EmptyBare`); between hands it is `Cleared`; while players bet, two of them contend;
and while a showdown is pending, every planned pot is `Winnable`: someone is eligible
and nobody eligible has folded, no two pots are of one level (`ApartByLevel`), and
the hands compare on every board. It does not say that the pot is what was
contributed, because that is not true of this server: a folded player may leave
in mid-hand, and `StandUp` throws away the record of what he put into the pot.
`StreetsCloseEven` and its like are about `Betting`, where nobody leaves.

The argument follows a showdown from plan to payment. The levels of
`BuildSidePots` are finitely many, and each has a next lower one, which is where
`LayerSound` finds a layer's chips and who may win it: contenders only
(`PlannedSound`). What a ranking may resolve keeps both (`ResolutionsSound`), so that
the payouts are natural numbers, and rake comes out of winnings seat by seat
(`PayoutsType`, `GrossWonType`, `DeductRakeSound`). `NextHandSound` is
`ResetBetweenHands` with the departures it carries out. A leaving, joining or
returning player touches no pot: `Leave` is refused to a contender of a pending
showdown, and whoever else leaves was in no plan (`LeaveStep`, `JoinStep`,
`SitOutStep`). That the deal itself leaves two contenders is `StartHandLive` again;
where fewer than two seats are ready no cards are dealt and all who sit there
count as contenders (`StartHandFew`, `HandDealt`).

Who is paid how much rests on four sums. A layer of `BuildSidePots` matches that much
more of every stake that reaches it, so the layers up to a stake hold exactly what
it is matched by (`MatchedNext`, `LayersAddUp`), and so do the pots, if every layer up to
it can be won (`PotsAddUp`; `StakeCovered` for a player still in the hand). The boards a
pot is run over take it up, odd chips included (`BoardsAddUp`, `ResolutionsAddUp`). The
shares of the winners add up to what they split, because the winners who are given
an odd chip, those with fewer others ahead of them clockwise than there are odd
chips, are as many as these (`FirstOnes`, `SharesAddUp`). Exchanging the sums over seats
and over resolutions, what a set of seats is paid is what is resolved at the levels
that only they win (`PaidTogether`). With all seats for the set that is conservation
(`AllPaid`); with the contenders of rank k and better, and the levels up to the largest
stake among them, it is table stakes (`BestAreCovered`).

The hypotheses are the ones under which the properties are true, or say what they
mean. *No rake* (`RakeBps = 0`): `DeductRakeFromWinners` skips the deduction if the gross
winnings are zero and collects the remainder from one winner only, so that a large
rake on a pot of a few chips may be credited without being deducted
(`showdown_async.go:279`, a hazard of `PROJECT.json`); `NoChipLostToRake` bounds what that
can make, and `settled_hands` checks the exact account with a rake. *No buy-back*
(`AutoBuyBack = 0`): the two properties read winnings off the stacks of the next
hand, to which a buy-back adds. *The same players* (`SteadySpec`, as in `settled_hands`):
when a folded player leaves, his contribution leaves the layers, and what the
stakes match at the payment is no longer what it was at the plan. Their invariant,
`SteadyInv`, adds to `HInv` that the pot is accounted for, that only holders of cards are
in the hand, and that the plan is that of the table as it stands.

The theorems of `CashierProofs` hold for any number of withdrawals, deposits,
pages and operators, any amounts, limits and stipend, under `CashierAssumption`;
`FiniteAssumption` (there are finitely many requests and orders) is what sums
over them need.

| Theorem | States |
|---|---|
| `CashierTypes` | `TypeOK`; in particular the wallet is never overdrawn |
| `NeverPaidTwice` | `PaidOutOnce`: at most one payout, and none of a request refunded |
| `OneClaimant` | `ClaimIsExclusive`: a payout is made by the one operator who holds the claim |
| `BooksAlwaysAgree` | `BooksAgree`: the house's accounts, the rows and the wallet agree |
| `LimitHoldsForOnePage` | `LimitExceededOnlyTogether`: one page alone stays within the limit |
| `CashierKeepsThePromise` | `KeepsThePromise`: the cashier implements `HeldFunds` |

The invariant is the conjunction of `TypeOK`, `PaidOutOnce`, `ClaimIsExclusive` and
`OrdersExist` (a handler of a page works on an order that exists), each of which
leans on the others: that a payout is the first needs the claim to be exclusive,
and that the claim is exclusive needs the status `paying` to be left only by the
claimant. One lemma per action shows that it is kept, and one per action that
the step is a step of `HeldFunds` or a stutter: claiming, releasing and the
deposit's bookkeeping are stutters; a payout of the gateway is `PayOut`, and so is
an approval on the manual rail. `BooksAgree` alone is not inductive: if two pages
could be at work on one order, or one were still placing an order whose invoice
has been paid, `AttachGatewayID` would put a credited order back to `waiting`, to be
credited again. `OnePageAnOrder` says that neither happens.

The theorems of `ClubSeatsProofs` hold for any number of players and seats, any
purses, rake, minimum, loan and buy-back, and any number of refused payments.

| Theorem | States |
|---|---|
| `ClubSeatsTypes` | `TypeOK`; no stack, purse, pot or lock is ever negative |
| `TableAlwaysPays` | `TableCanPay`: the table's account covers the stacks and the pot |
| `LeaversPaidInFull` | `PaidInFull`: a seat that empties is paid out into the purse it was bought from |
| `KicksRemoveTheMeant` | `KickHitsTheMeant`: a deferred kick removes whom the host meant, or who sat down there since |
| `AccountsAlwaysAgree` | `AccountsAgree`: locks, loans, returns and balances agree for those not `astray` |

`TableAlwaysPays` has a hypothesis, `LoanCoversSeat`: if strangers are lent chips, a
loan is no less than the platform's minimum. The code does not enforce it, and
without it the theorem is false, as section 3 says. The others need no
hypothesis. `PaidInFull` and `AccountsAgree` rest on `Seating`: nobody has two seats,
and the purse of an occupied seat is known. The invariant behind `AccountsAgree` is
the same equations for each player, with the lock that his seat remembers
(`SeatLocked`), and that every seat on club chips has one. Behind `KickHitsTheMeant`
is that a seat with a kick on it holds the player meant, nobody, or one who sat
down during the hand.

The theorems of `GameClientProofs` hold for any number of hands, turns and
connections, any number of messages under way, and any moves the player uses.

| Theorem | States |
|---|---|
| `GameClientTypes` | `TypeOK` |
| `MovesAreAppliedOnce` | `AppliedOnce`: no two turns are ended by the same nonce |
| `LateMovesFollowTheClock` | `LateOnlyAfterTheClock`: when a move may end a later turn than it was meant for |
| `BarIsNeverLost` | `BarIsUpOnMyTurn`: once all is delivered the page shows the latest prompt |
| `StaleCardsWereOvertaken` | `OnlyOvertakenCardsAreStale`: once all is delivered the cards are the hand's, or those of a hand still being decrypted when they came |

The properties speak of quiet states or of turns long ended; the invariant, `Sound`,
must speak of messages under way. Its core is `Dialogue`: the nonces of the moves
sent do not decrease and none is below the last one accepted; the prompts under way
are in order, newer than all the page has seen and all it has sent. The
match compares a nonce with the last one accepted only, so without that order an
old move could come back. `Applied` makes nonces increase from turn to turn;
`BarKept` says that the prompt is on its way to the page, or on view, or put away
for an answer that is on its way to the match or whose refusal is on its way back;
`CardsKept` says the same of cards: they are on their way to the page, or
(`CardsWith`) being decrypted there, or on view unless a decryption that was running
when they came has replaced them, and no other is running. The proofs see a queue only as the set of its
messages and the order among them (`Among`, `Ahead`).

The theorems of `TournamentProofs` hold for any number of players, requests,
callers, payers, tables and faults, any buy-in, rake and guarantee, and any
ladder of prizes that starts at a place above zero and gives at most the whole
pool to a tier (`TournamentAssumption`, and `LadderAssumption`: the checks of
`TournamentStart`).

| Theorem | States |
|---|---|
| `NeverTwoDirectors` | `OneDirector`: one director at most, and the recorded one is it |
| `TournamentMoney` | `MoneyIsAccounted`: an entry is paid for once, and only champions are paid, within the pool |
| `TournamentTypes` | `TypeOK`; in particular only entrants are seated or on their way, no table is above its cap, and players are placed at, and sent to, tables that exist |
| `StacksMoveWhole` | `StacksAreMovedWhole`: moving a player neither loses nor doubles his stack |

The claims are what makes the first two so. `DirectorInv` says that at most one call has
claimed the start and not given it back, that there is none while the event is
`registering`, and that a recorded director is a call whose director match has
been created; giving a claim back is safe because no other call is busy then.
`MoneyInv` adds that one payer at most is past `FinishOnce`, and only in a
finished event (`OnePayout`); that nothing has been paid until the champion is
crowned; that what is still owed is owed to champions with no prize yet, one
amount each, none above the pool; and that players with a seat, or on the way to
one, have entered, because a hand-over between tables writes a registration.
`PrizesFromThePool` is the arithmetic of the ladder: the share of a tier, divided
among its places, is at most the pool. One account is closed by `AccountOf`,
which counts a player's undecided requests one up or one down.

`FloorInv` adds where players are. The tables of a call that hands them out are a
row without gaps, all of them made (`Row`), which is what the round-robin of
`NextTable` counts on; a director knows tables of its own row, and none before it
is created, so that creating tables again cannot leave it with others. A player
is never told to leave a table for the same one (`Moving`, from
`MergeTarget`: there is a least crowded table among the others): that is what
makes a hand-over to a table where he sits already a merge of two stacks and not
the loss of one. The steps that move stacks are then counted table by table
(`TakenOff`, `PutOn`).

Every invariant and all but one of the action properties that the passing runs check
are theorems, under the hypotheses named with them: on openings and ante for
`Betting`, on loans for `ClubSeats`, on rake, buy-backs and departures for `Hand`. Only
model-checked are `RakeIsTakenFromThePot`, which is false where the rake, or the
remainder that one winner pays, exceeds what that winner has won, and can therefore
be no theorem for every rate, and the four liveness properties (`EveryHandEnds`, `EveryHandIsSettled`,
`PaidIsCredited`, `HostIsObeyed`), which the prover does not handle.

## 5. What is not modelled

Within the modelled parts: the dealer's outage (`NewDeck` failing leaves the
table as it was, so it is a stutter), the pause, live table settings, insurance
and rabbit hunting, and the narration, snapshots and statistics. Hand evaluation
is a numeric library and is any ranking here. At a seat, the checks of identity,
geography, limits and ratholing may refuse anyone and change nothing. Blinds that
change between hands, and the fairness of their rotation over many hands, are
outside. In a tournament: the blind clock and breaks, which change nothing that
is modelled; eliminations, bounties and finish places other than the first, which
need hands, and none are dealt; the club's rake credit.

In the frontend, everything but the pages named above: some four hundred files
that draw what the server sends, or collect a form and send it, and whose state
does not outlive the answer. There is nothing in them that a model would say
more about than the code does.

Out of scope: RPC plumbing, the remaining stores, audit, loyalty, antibot,
integrations, AI host, coaching: request handlers, single-statement storage and
presentation.

## 6. Plan

What would come next, in the order of importance:

1. Theorems: `OnlyUnclaimedChipsVanish` and `RakeIsTakenFromThePot` for the rakes that
   can be collected, once it is settled which the operator may set.
2. `Tournament` with eliminations from several tables, once tables deal.
3. Rotation of the blinds over many hands, with the dead money of posts.
4. Confirmation of a club settlement against seats that are still occupied.
