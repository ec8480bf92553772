------------------------------ MODULE ClubSeats ------------------------------
(***************************************************************************)
(* The money behind the seats of a club's cash table: which purse a seat   *)
(* was bought from, what the club has locked for it, and what goes back    *)
(* when the player stands up, is evicted, goes broke, is kicked by the     *)
(* host at once or after the hand, or the table closes.  Of a hand only    *)
(* the chips and the players still in it are kept; Betting and Hand have   *)
(* the rest.                                                               *)
(***************************************************************************)
EXTENDS Chips, FiniteSets

CONSTANTS
  Players, Nobody,
  Guests, Members,           \* accounts without a registration; members of the club
  MemberPlayOnLoan, AutoApproveNonMembers, NonMemberLoan,   \* the table's terms
  AutoBuyBack,               \* AutoBuyBackCents; 0 is off
  MinBuyIn, MaxBuyIn,        \* the platform's band, and the table's
  Funds, Grants,             \* what players begin with, in cash and in club chips
  Rakes,                     \* what the club may take from a pot
  BuyIns, Bets,              \* bounds: what players ask for, and bet
  MaxHands, MaxAdvanced,     \* bounds: hands dealt, club chips taken to the table before the last buy-in
  MaxFailures                \* bound: payments the database refuses

ASSUME ClubSeatsAssumption ==
  /\ Nobody \notin Players /\ Guests \subseteq Players /\ Members \subseteq Players
  /\ MemberPlayOnLoan \in BOOLEAN /\ AutoApproveNonMembers \in BOOLEAN
  /\ NonMemberLoan \in Nat /\ AutoBuyBack \in Nat /\ Rakes \subseteq Nat
  /\ MinBuyIn \in Nat \ {0} /\ MaxBuyIn \in Nat /\ MinBuyIn <= MaxBuyIn
  /\ Funds \in [Players -> Nat] /\ Grants \in [Players -> Nat]
  /\ BuyIns \subseteq Nat \ {0} /\ Bets \subseteq Nat \ {0}
  /\ MaxHands \in Nat /\ MaxAdvanced \in Nat /\ MaxFailures \in Nat

VARIABLES
  user, stack, put,          \* of each seat: UserID or Nobody, Stack, TotalContributed
  live,                      \* seats with cards in the hand
  seatWallet, seatLocked,    \* SeatWallet ("none") and SeatLocked (0 where absent)
  phase,
  cursor,                    \* the seat a sweep over the seats has come to
  kicks,                     \* PendingKickSeats: whom a kick was meant for, or Nobody
  hostClosed,
  books,                     \* the database: purses, settlement lines, table account
  hands, failures,           \* counts
  advanced,                  \* history: club chips ever locked for a player
  origin,                    \* history: the purse a seated player bought in from
  newcomers,                 \* history: players who sat down during the hand
  astray                     \* history: players whose accounts the code loses track of
seats == <<user, stack, put, live, seatWallet, seatLocked>>
host  == <<kicks, hostClosed>>
ghosts == <<advanced, origin, newcomers, astray>>
vars == <<seats, phase, cursor, host, books, hands, failures, ghosts>>

Wallets == {"none", "global", "club"}
Phases  == {"waiting", "hand", "showdown", "clearing", "safe", "closing", "closed"}

Occupied == {s \in Seats : user[s] # Nobody}
Seated(p) == \E s \in Seats : user[s] = p
SeatOf(p) == CHOOSE s \in Seats : user[s] = p

Init ==
  /\ user = [s \in Seats |-> Nobody]
  /\ stack = [s \in Seats |-> 0] /\ put = [s \in Seats |-> 0] /\ live = {}
  /\ seatWallet = [s \in Seats |-> "none"] /\ seatLocked = [s \in Seats |-> 0]
  /\ phase = "waiting" /\ cursor = 0
  /\ kicks = [s \in Seats |-> Nobody] /\ hostClosed = FALSE
  /\ books = [funds |-> Funds, chips |-> Grants, table |-> 0,
              locked   |-> [p \in Players |-> 0], issued   |-> [p \in Players |-> 0],
              loaned   |-> [p \in Players |-> 0], returned |-> [p \in Players |-> 0]]
  /\ hands = 0 /\ failures = 0
  /\ advanced = [p \in Players |-> 0] /\ origin = [p \in Players |-> "none"]
  /\ newcomers = {} /\ astray = {}

----------------------------------------------------------------------------
(* The database.  Each of these is one transaction. *)

DebitTo(b, p, x)    == [b EXCEPT !.funds[p] = @ - x, !.table = @ + x]
CreditFrom(b, p, x) == [b EXCEPT !.funds[p] = @ + x, !.table = @ - x]

AllocateBalance(b, p, x) == [b EXCEPT !.chips[p] = @ + x, !.issued[p] = @ + x]
LockBalanceForTable(b, p, x) ==
  [b EXCEPT !.chips[p] = @ - x, !.locked[p] = @ + x, !.table = @ + x]
(* Mutants: what is unlocked is the stack; more is unlocked than is locked. *)
UnlockBalance(b, p, locked, x) ==
  [b EXCEPT !.locked[p] = Greater(0, @ - x), !.chips[p] = @ + x, !.table = @ - x]
SettleSeatUnfloored(b, p, locked, x) ==
  [b EXCEPT !.locked[p] = @ - locked, !.chips[p] = @ + x, !.table = @ - x]

SettleSeatAtTable(b, p, locked, x) ==
  [b EXCEPT !.locked[p] = Greater(0, @ - locked), !.chips[p] = @ + x, !.table = @ - x]

(* A line of the settlement the operator signs off. *)
RecordSeat(b, p, locked, x) == [b EXCEPT !.loaned[p] = @ + locked, !.returned[p] = @ + x]

----------------------------------------------------------------------------
(* reserveBuyIn: where a player's chips come from, and how many. *)

ClampBuyIn(x) == Greater(MinBuyIn, Lesser(x, MaxBuyIn))

Reservation(w, x, b) == [wallet |-> w, amount |-> x, books |-> b]
Refused(b) == Reservation("none", 0, b)

OnClubChips(p, guest) ==
  \/ guest
  \/ MemberPlayOnLoan /\ p \in Members
  \/ AutoApproveNonMembers /\ p \notin Members

(* Mutant: the seat is given what was asked for, not what was lent. *)
LendUnclamped(b, p, x) ==
  Reservation("club", x,
    LockBalanceForTable(AllocateBalance(b, p, NonMemberLoan), p, Lesser(x, NonMemberLoan)))

Lend(b, p, x) ==
  Reservation("club", Lesser(x, NonMemberLoan),
    LockBalanceForTable(AllocateBalance(b, p, NonMemberLoan), p, Lesser(x, NonMemberLoan)))

Reserve(b, p, asked, guest) ==
  LET x == ClampBuyIn(asked)
  IN  CASE ~OnClubChips(p, guest) /\ x <= b.funds[p] ->
             Reservation("global", x, DebitTo(b, p, x))
        [] OnClubChips(p, guest) /\ x <= b.chips[p] ->
             Reservation("club", x, LockBalanceForTable(b, p, x))
        [] /\ AutoApproveNonMembers /\ p \notin Members /\ NonMemberLoan > 0
           /\ x > b.chips[p] -> Lend(b, p, x)
        [] OTHER -> Refused(b)

Advance(p, r) ==
  advanced' = IF r.wallet = "club" THEN [advanced EXCEPT ![p] = @ + r.amount]
              ELSE advanced

(* releaseBuyInAs: the chips go to the purse named, or are logged as owed. *)
Released(b, p, wallet, locked, x, paid) ==
  IF x = 0 THEN b
  ELSE IF wallet = "club"
  THEN RecordSeat(IF paid THEN SettleSeatAtTable(b, p, locked, x) ELSE b, p, locked, x)
  ELSE IF paid THEN CreditFrom(b, p, x) ELSE b

Outcomes == {TRUE} \cup IF failures < MaxFailures THEN {FALSE} ELSE {}

LockedFor(s) == IF seatLocked[s] > 0 THEN seatLocked[s] ELSE stack[s]

Vacated(s) ==
  /\ user' = [user EXCEPT ![s] = Nobody] /\ origin' = [origin EXCEPT ![user[s]] = "none"]
  /\ stack' = [stack EXCEPT ![s] = 0] /\ put' = [put EXCEPT ![s] = 0]
  /\ live' = live \ {s}

(* releaseBuyIn, forget the seat's purse, StandUp. *)
CashOut(s) ==
  /\ \E paid \in Outcomes :
       /\ books' = Released(books, user[s], seatWallet[s], LockedFor(s), stack[s], paid)
       /\ failures' = IF paid \/ stack[s] = 0 THEN failures ELSE failures + 1
       /\ astray' = IF seatWallet[s] = "club" /\ (stack[s] = 0 \/ ~paid)
                    THEN astray \cup {user[s]} ELSE astray
  /\ Vacated(s)
  /\ seatWallet' = [seatWallet EXCEPT ![s] = "none"]
  /\ seatLocked' = [seatLocked EXCEPT ![s] = 0]
  /\ UNCHANGED <<advanced, newcomers>>

----------------------------------------------------------------------------
(* What players do.  A message is handled at any time except while a tick  *)
(* sweeps the seats; leaving, moving and topping up need a free hand.      *)

Handling == phase \in {"waiting", "hand", "showdown"}

Free(s) == phase = "waiting" \/ s \notin live

(* OpSitDown, during a hand as one who has folded.  The checks of identity *)
(* and limits may refuse anyone, and are not shown.                        *)
SitDown(p, s, x) ==
  /\ Handling /\ ~Seated(p) /\ user[s] = Nobody
  /\ advanced[p] < MaxAdvanced
  /\ LET r == Reserve(books, p, x, p \in Guests)
     IN  /\ r.wallet # "none"
         /\ books' = r.books
         /\ user' = [user EXCEPT ![s] = p]
         /\ stack' = [stack EXCEPT ![s] = ClampBuyIn(r.amount)]
         /\ seatWallet' = [seatWallet EXCEPT ![s] = r.wallet]
         /\ seatLocked' = IF r.wallet = "club" THEN [seatLocked EXCEPT ![s] = r.amount]
                          ELSE seatLocked
         /\ Advance(p, r)
         /\ origin' = [origin EXCEPT ![p] = r.wallet]
  /\ newcomers' = IF phase = "waiting" THEN newcomers ELSE newcomers \cup {p}
  /\ UNCHANGED <<put, live, phase, cursor, host, hands, failures, astray>>

(* The seat is taken: what was reserved is released at once. *)
SitRefused(p, s, x) ==
  /\ Handling /\ ~Seated(p) /\ user[s] # Nobody
  /\ advanced[p] < MaxAdvanced
  /\ LET r == Reserve(books, p, x, p \in Guests)
     IN  /\ r.wallet # "none"
         /\ \E paid \in Outcomes :
              /\ books' = Released(r.books, p, r.wallet, r.amount, r.amount, paid)
              /\ failures' = IF paid THEN failures ELSE failures + 1
              /\ astray' = IF paid \/ r.wallet # "club" THEN astray ELSE astray \cup {p}
         /\ Advance(p, r)
  /\ UNCHANGED <<seats, phase, cursor, host, hands, origin, newcomers>>

(* OpStandUp, or the connection is lost: MatchLeave. *)
StandUp(s) ==
  /\ phase \in {"waiting", "hand", "showdown", "safe"} /\ user[s] # Nobody
  /\ phase = "safe" \/ Free(s)
  /\ CashOut(s)
  /\ UNCHANGED <<phase, cursor, host, hands>>

(* Mutants: seats are changed in the middle of a hand, or without the purse. *)
CanMoveAnyTime == phase \in {"waiting", "hand"}
WalletAfterMoveForgotten(from, to) == seatWallet

CanMove == phase = "waiting"

(* moveSeatTracking: the purse follows the player, what was locked does not. *)
WalletAfterMove(from, to) ==
  IF seatWallet[from] = "none" THEN seatWallet
  ELSE [seatWallet EXCEPT ![to] = seatWallet[from], ![from] = "none"]

MoveSeat(from, to) ==
  /\ CanMove /\ user[from] # Nobody /\ user[to] = Nobody
  /\ user' = [user EXCEPT ![to] = user[from], ![from] = Nobody]
  /\ stack' = [stack EXCEPT ![to] = stack[from], ![from] = 0]
  /\ seatWallet' = WalletAfterMove(from, to)
  /\ astray' = IF seatWallet[from] = "club" THEN astray \cup {user[from]} ELSE astray
  /\ UNCHANGED <<put, live, seatLocked, phase, cursor, host, books, hands, failures,
                 advanced, origin, newcomers>>

(* OpAddChips: up to the table maximum, but never fewer than the platform's *)
(* minimum; asked of the cash purse, though the terms may decide otherwise. *)
AddChips(s, x) ==
  /\ Handling /\ user[s] # Nobody /\ Free(s) /\ stack[s] < MaxBuyIn
  /\ advanced[user[s]] < MaxAdvanced
  /\ LET r == Reserve(books, user[s], Lesser(x, MaxBuyIn - stack[s]), FALSE)
     IN  /\ r.wallet # "none"
         /\ books' = r.books
         /\ stack' = [stack EXCEPT ![s] = @ + r.amount]
         /\ Advance(user[s], r)
         /\ astray' = IF r.wallet = "club" THEN astray \cup {user[s]} ELSE astray
  /\ UNCHANGED <<user, put, live, seatWallet, seatLocked, phase, cursor, host, hands,
                 failures, origin, newcomers>>

----------------------------------------------------------------------------
(* The hand. *)

AutoStartHand ==
  /\ phase = "waiting" /\ hands < MaxHands
  /\ \E dealt \in SUBSET Occupied :
       /\ Cardinality(dealt) >= 2
       /\ live' = dealt
  /\ phase' = "hand" /\ hands' = hands + 1
  /\ UNCHANGED <<user, stack, put, seatWallet, seatLocked, cursor, host, books, failures,
                 ghosts>>

Bet(s, x) ==
  /\ phase = "hand" /\ s \in live /\ x <= stack[s]
  /\ stack' = [stack EXCEPT ![s] = @ - x] /\ put' = [put EXCEPT ![s] = @ + x]
  /\ UNCHANGED <<user, live, seatWallet, seatLocked, phase, cursor, host, books, hands,
                 failures, ghosts>>

(* By the player, by the clock, or by the host (force_fold). *)
Fold(s) ==
  /\ phase = "hand" /\ s \in live /\ stack[s] > 0 /\ Cardinality(live) >= 2
  /\ live' = live \ {s}
  /\ UNCHANGED <<user, stack, put, seatWallet, seatLocked, phase, cursor, host, books,
                 hands, failures, ghosts>>

BettingEnds ==
  /\ phase = "hand" /\ phase' = "showdown"
  /\ UNCHANGED <<seats, cursor, host, books, hands, failures, ghosts>>

NextHandFollows(paid) ==
  /\ stack' = [s \in Seats |-> stack[s] + paid[s]]
  /\ put' = [s \in Seats |-> 0] /\ live' = {}
  /\ phase' = "clearing" /\ cursor' = 0
  /\ UNCHANGED <<user, seatWallet, seatLocked, host, hands, ghosts>>

(* What the pots may pay: everything put in by those still seated, less    *)
(* the rake, to seats with live cards.                                     *)
Payouts(rake) ==
  {won \in [Seats -> 0 .. Total(put)] :
     /\ \A s \in Seats \ live : won[s] = 0
     /\ Total(won) + rake = Total(put)}

(* creditRake may fail; the winners pay the rake all the same. *)
ShowdownResolved ==
  /\ phase = "showdown"
  /\ \E rake \in {Lesser(r, Total(put)) : r \in Rakes} :
       /\ \E won \in Payouts(rake) : NextHandFollows(won)
       /\ \/ books' = [books EXCEPT !.table = @ - rake] /\ UNCHANGED failures
          \/ /\ rake > 0 /\ failures < MaxFailures
             /\ failures' = failures + 1 /\ UNCHANGED books

ShowdownFailed ==
  /\ phase = "showdown" /\ NextHandFollows(put) /\ UNCHANGED <<books, failures>>

----------------------------------------------------------------------------
(* After the hand, in the same tick, seat by seat: standUpBusted,          *)
(* evictExcluded and evictBannedOrKicked.                                  *)

Sweeping(p) == phase = p /\ cursor < MaxSeats
StepOn == cursor' = cursor + 1

(* For idling, self-exclusion, a ban, or the loss of the membership. *)
Evict ==
  /\ Sweeping("clearing") /\ user[cursor] # Nobody
  /\ CashOut(cursor) /\ StepOn
  /\ UNCHANGED <<phase, host, hands>>

BuyBack ==
  IF AutoBuyBack = 0 THEN Refused(books)
  ELSE Reserve(books, user[cursor], AutoBuyBack, seatWallet[cursor] = "club")

IsBust(s) == user[s] # Nobody /\ stack[s] = 0

BuyBackIn ==
  /\ Sweeping("clearing") /\ IsBust(cursor)
  /\ advanced[user[cursor]] < MaxAdvanced
  /\ BuyBack.wallet # "none"
  /\ books' = BuyBack.books
  /\ stack' = [stack EXCEPT ![cursor] = BuyBack.amount]
  /\ seatWallet' = [seatWallet EXCEPT ![cursor] = BuyBack.wallet]
  /\ Advance(user[cursor], BuyBack)
  /\ astray' = IF "club" \in {BuyBack.wallet, seatWallet[cursor]}
               THEN astray \cup {user[cursor]} ELSE astray
  /\ UNCHANGED <<user, put, live, seatLocked, phase, cursor, host, hands, failures,
                 origin, newcomers>>

(* Nothing is released, and what the seat's purse was is not forgotten. *)
BustOut ==
  /\ Sweeping("clearing") /\ IsBust(cursor)
  /\ BuyBack.wallet = "none" \/ advanced[user[cursor]] >= MaxAdvanced
  /\ Vacated(cursor) /\ StepOn
  /\ astray' = IF seatWallet[cursor] = "club" THEN astray \cup {user[cursor]} ELSE astray
  /\ UNCHANGED <<seatWallet, seatLocked, phase, host, books, hands, failures, advanced,
                 newcomers>>

KeepSeat ==
  /\ Sweeping("clearing") /\ ~IsBust(cursor) /\ StepOn
  /\ UNCHANGED <<seats, phase, host, books, hands, failures, ghosts>>

SeatsCleared ==
  /\ phase = "clearing" /\ cursor = MaxSeats
  /\ phase' = "safe" /\ cursor' = 0
  /\ UNCHANGED <<seats, host, books, hands, failures, ghosts>>

----------------------------------------------------------------------------
(* The host, whose messages are handled while there is betting, and        *)
(* refused at any other time ("hand_busy").                                *)

HostKicks(s) ==
  /\ phase = "hand" /\ user[s] # Nobody
  /\ \/ /\ s \in live
        /\ kicks' = [kicks EXCEPT ![s] = user[s]]
        /\ UNCHANGED <<seats, books, failures, ghosts>>
     \/ /\ s \notin live
        /\ CashOut(s) /\ UNCHANGED kicks
  /\ UNCHANGED <<phase, cursor, hostClosed, hands>>

HostCloses ==
  /\ phase = "hand" /\ hostClosed' = TRUE
  /\ UNCHANGED <<seats, phase, cursor, kicks, books, hands, failures, ghosts>>

KicksDone == \A s \in Seats : kicks[s] = Nobody

(* The start of the tick after a hand: processPendingKicks, whoever is in  *)
(* the seat by now, and then the close the host has asked for.             *)
KickPending(s) ==
  /\ phase = "safe" /\ kicks[s] # Nobody
  /\ kicks' = [kicks EXCEPT ![s] = Nobody]
  /\ IF user[s] # Nobody THEN CashOut(s) ELSE UNCHANGED <<seats, books, failures, ghosts>>
  /\ UNCHANGED <<phase, cursor, hostClosed, hands>>

(* Mutant: the close is not looked at. *)
SafePointUnclosed ==
  /\ phase = "safe" /\ KicksDone
  /\ phase' = "waiting" /\ newcomers' = {}
  /\ UNCHANGED <<seats, cursor, host, books, hands, failures, advanced, origin, astray>>

SafePointDone ==
  /\ phase = "safe" /\ KicksDone
  /\ phase' = IF hostClosed THEN "closing" ELSE "waiting"
  /\ newcomers' = {}
  /\ UNCHANGED <<seats, cursor, host, books, hands, failures, advanced, origin, astray>>

(* DurationSecs have passed. *)
ScheduledClose ==
  /\ phase = "waiting" /\ phase' = "closing"
  /\ UNCHANGED <<seats, cursor, host, books, hands, failures, ghosts>>

CloseTable ==
  /\ phase = "closing"
  /\ IF cursor = MaxSeats
     THEN /\ phase' = "closed" /\ cursor' = 0
          /\ UNCHANGED <<seats, books, failures, ghosts>>
     ELSE /\ StepOn /\ UNCHANGED phase
          /\ IF user[cursor] # Nobody THEN CashOut(cursor)
             ELSE UNCHANGED <<seats, books, failures, ghosts>>
  /\ UNCHANGED <<host, hands>>

Next ==
  \/ \E p \in Players, s \in Seats, x \in BuyIns : SitDown(p, s, x) \/ SitRefused(p, s, x)
  \/ \E s \in Seats, x \in BuyIns : AddChips(s, x)
  \/ \E s \in Seats, x \in Bets : Bet(s, x)
  \/ \E s \in Seats : StandUp(s) \/ Fold(s) \/ HostKicks(s) \/ KickPending(s)
  \/ \E from \in Seats, to \in Seats : MoveSeat(from, to)
  \/ AutoStartHand \/ BettingEnds \/ ShowdownResolved \/ ShowdownFailed
  \/ Evict \/ BuyBackIn \/ BustOut \/ KeepSeat \/ SeatsCleared
  \/ HostCloses \/ SafePointDone \/ ScheduledClose \/ CloseTable

Spec == Init /\ [][Next]_vars

(* What the match loop does of itself: clocks end the betting, a showdown  *)
(* is answered or given up, and the rest happens tick by tick.             *)
Ticks ==
  \/ BettingEnds \/ ShowdownResolved \/ ShowdownFailed
  \/ Evict \/ BuyBackIn \/ BustOut \/ KeepSeat \/ SeatsCleared
  \/ (\E s \in Seats : KickPending(s)) \/ SafePointDone \/ CloseTable
FairSpec == Spec /\ WF_vars(Ticks)

----------------------------------------------------------------------------
(* Types. *)
TypeOK ==
  /\ user \in [Seats -> Players \cup {Nobody}]
  /\ stack \in [Seats -> Nat] /\ put \in [Seats -> Nat] /\ live \subseteq Seats
  /\ seatWallet \in [Seats -> Wallets] /\ seatLocked \in [Seats -> Nat]
  /\ phase \in Phases /\ cursor \in 0 .. MaxSeats
  /\ kicks \in [Seats -> Players \cup {Nobody}] /\ hostClosed \in BOOLEAN
  /\ books \in [funds : [Players -> Nat], chips : [Players -> Nat],
                locked : [Players -> Nat], issued : [Players -> Nat],
                loaned : [Players -> Nat], returned : [Players -> Nat], table : Int]
  /\ hands \in Nat /\ failures \in Nat /\ advanced \in [Players -> Nat]
  /\ origin \in [Players -> Wallets]
  /\ newcomers \subseteq Players /\ astray \subseteq Players

(* The table's account always covers every stack and everything in the     *)
(* pot, whatever purses the chips came from: a cash-out never pays money   *)
(* that nobody brought (reserveBuyIn, releaseBuyIn, creditRake).           *)
TableCanPay == Total(stack) + Total(put) <= books.table

(* The club chips on the felt for a player, as his seat has them. *)
OnFelt(p) ==
  IF Seated(p) /\ seatWallet[SeatOf(p)] = "club" THEN seatLocked[SeatOf(p)] ELSE 0

(* For everyone whose seat on club chips was never moved, topped up,       *)
(* bought back into, felted, or cashed out in vain, the three accounts     *)
(* agree: what was ever lent to him is in the settlement or on the felt,   *)
(* what is locked is on the felt, and his balance is what the settlement   *)
(* says came back.  Whoever sat in his seat before left nothing in it.     *)
AccountsAgree ==
  \A p \in Players \ astray :
    /\ advanced[p] = books.loaned[p] + OnFelt(p)
    /\ books.locked[p] = OnFelt(p)
    /\ books.chips[p] = Grants[p] + books.issued[p] - advanced[p] + books.returned[p]

Purse(b, w, p) == IF w = "club" THEN b.chips[p] ELSE b.funds[p]

(* Whoever leaves, for whatever reason and after whatever changes of seat, *)
(* is paid his stack into the purse he bought in from, or it is logged.    *)
PaidInFull ==
  [][\A p \in Players :
       Seated(p) /\ ~Seated(p)' /\ failures' = failures =>
         Purse(books', origin[p], p) = Purse(books, origin[p], p) + stack[SeatOf(p)]]_vars

(* A kick put off until after the hand removes the player it was meant     *)
(* for, or one who has taken his seat since the cards were dealt.          *)
KickHitsTheMeant ==
  [][\A s \in Seats :
       kicks[s] # Nobody /\ kicks'[s] = Nobody /\ user[s] # Nobody =>
         user[s] = kicks[s] \/ user[s] \in newcomers]_vars

(* What the host asked for during a hand is done: there comes a time when  *)
(* no kick is left to carry out and no close is waited for.                *)
HostAsks == ~KicksDone \/ (hostClosed /\ phase # "closed")
HostIsObeyed == HostAsks ~> ~HostAsks
==============================================================================
