------------------------------ MODULE Cashier ------------------------------
(***************************************************************************)
(* The cashier: deposits and withdrawals of one player.  The requests come *)
(* from the wallet page (DepositPanel, WithdrawPanel) through handlers of  *)
(* several steps, the decisions from the operators' console, and what      *)
(* happened at the payment gateway from its notifications, which arrive    *)
(* late, out of order and repeatedly.  Every database call is a step, and  *)
(* the server may stop between any two.                                    *)
(*                                                                         *)
(* The player is verified and not excluded, all requests fall into one     *)
(* limit window, and the wallet moves for no other reason.                 *)
(***************************************************************************)
EXTENDS FiniteSetsExt, Integers

CONSTANTS
  Withdrawals, Deposits,   \* request ids
  NoId,                    \* none of them
  Tabs,                    \* calls the player may have under way, one per page
  Desks,                   \* calls the operators may have under way
  Amounts,                 \* cents, at least the minimum of 500
  Stipend,                 \* opening balance, play money
  WeeklyLimit, DailyLimit, \* of the membership tier
  AutoPayout               \* NowPaymentsPayoutConfigured

ASSUME CashierAssumption ==
  /\ Amounts \subseteq Nat \ {0} /\ Stipend \in Nat
  /\ NoId \notin Withdrawals \cup Deposits
  /\ WeeklyLimit \in Nat /\ DailyLimit \in Nat /\ AutoPayout \in BOOLEAN

(* The tables have finitely many rows, there is a page, and a largest      *)
(* amount to ask for.                                                      *)
ASSUME FiniteAssumption ==
  /\ IsFiniteSet(Withdrawals) /\ IsFiniteSet(Deposits)
  /\ IsFiniteSet(Tabs) /\ Tabs # {}
  /\ \E a \in Amounts : \A b \in Amounts : b <= a

VARIABLES
  wallet,   \* poker_global_wallet.balance
  wd,       \* poker_withdrawal
  dep,      \* poker_deposit
  books,    \* the house's ledger accounts
  sent,     \* payouts the gateway has made for a withdrawal
  invoice,  \* the gateway's side of a deposit
  tab, desk \* where each handler under way stands
vars == <<wallet, wd, dep, books, sent, invoice, tab, desk>>

Rails == {"manual", "nowpayments"}       \* of a withdrawal
Gateways == {"nowpayments", "stripe"}    \* of a deposit
WdStatus == {"none", "pending", "paying", "payout_failed", "paid", "rejected"}
DepStatus == {"none", "pending", "waiting", "failed", "credited"}
Idle == [at |-> "idle", amount |-> 0, via |-> "manual", id |-> NoId]

Sum(S, amountOf(_)) == MapThenSumSet(amountOf, S)
WdAmount(w) == wd[w].amount
DepAmount(d) == dep[d].amount

(* A row's id is one that no row has yet. *)
Unused(ids, rows) == {i \in ids : rows[i].status = "none"}
NewID(ids, rows) == CHOOSE i \in Unused(ids, rows) : TRUE

Init ==
  /\ wallet = Stipend
  /\ wd = [w \in Withdrawals |-> [status |-> "none", amount |-> 0, rail |-> "manual"]]
  /\ dep = [d \in Deposits |-> [status |-> "none", amount |-> 0, gateway |-> "stripe"]]
  /\ books = [pending |-> 0, payout |-> 0, deposit |-> 0]
  /\ sent = [w \in Withdrawals |-> 0]
  /\ invoice = [d \in Deposits |-> "none"]
  /\ tab = [t \in Tabs |-> Idle] /\ desk = [k \in Desks |-> Idle]

----------------------------------------------------------------------------
(* Withdrawals: the player's side. *)

LifetimeCredited == Sum({d \in Deposits : dep[d].status = "credited"}, DepAmount)
(* Mutant: only what awaits a decision counts. *)
RecentUndecided ==
  Sum({w \in Withdrawals : wd[w].status \in {"pending", "paying"}}, WdAmount)

RecentWithdrawals ==
  Sum({w \in Withdrawals : wd[w].status \notin {"none", "rejected"}}, WdAmount)

(* The panels of the page: an amount above the minimum, a destination, and *)
(* no call of this page under way.                                         *)
WithdrawPanel(t) == tab[t] = Idle
DepositPanel(t) == tab[t] = Idle

(* The page asks; the handler reads the deposits and the recent total.     *)
AskWithdraw(t) ==
  /\ WithdrawPanel(t)
  /\ LifetimeCredited > 0
  /\ \E a \in Amounts, r \in Rails :
       /\ RecentWithdrawals + a <= WeeklyLimit
       /\ tab' = [tab EXCEPT ![t] = 
            [at |-> "within limit", amount |-> a, via |-> r, id |-> NoId]]
  /\ UNCHANGED <<wallet, wd, dep, books, sent, invoice, desk>>

(* Mutant: the debit does not look at the balance. *)
CreateRequestOverdrawn(t) ==
  /\ tab[t].at = "within limit"
  /\ Unused(Withdrawals, wd) # {}
  /\ LET a == tab[t].amount  w == NewID(Withdrawals, wd) IN
       /\ wd' = [wd EXCEPT ![w] =
            [status |-> "pending", amount |-> a, rail |-> tab[t].via]]
       /\ wallet' = wallet - a
       /\ books' = [books EXCEPT !.pending = @ + a]
  /\ tab' = [tab EXCEPT ![t] = Idle]
  /\ UNCHANGED <<dep, sent, invoice, desk>>

(* CreateRequest: debit, row and postings in one transaction. *)
CreateRequest(t) ==
  /\ tab[t].at = "within limit"
  /\ LET a == tab[t].amount IN
       IF a <= wallet
       THEN /\ Unused(Withdrawals, wd) # {}
            /\ LET w == NewID(Withdrawals, wd) IN
                 wd' = [wd EXCEPT ![w] =
                   [status |-> "pending", amount |-> a, rail |-> tab[t].via]]
            /\ wallet' = wallet - a
            /\ books' = [books EXCEPT !.pending = @ + a]
       ELSE UNCHANGED <<wallet, wd, books>>
  /\ tab' = [tab EXCEPT ![t] = Idle]
  /\ UNCHANGED <<dep, sent, invoice, desk>>

----------------------------------------------------------------------------
(* Withdrawals: the operators' side. *)

(* The console offers both decisions for any id typed into it, whatever    *)
(* its list, read some time ago, shows of the request.                     *)
Console(k) == desk[k] = Idle

(* An approval claims the request before any money is sent. *)
ClaimForPayout(k, w) ==
  /\ Console(k)
  /\ wd[w].status = "pending"
  /\ wd' = [wd EXCEPT ![w].status = "paying"]
  /\ desk' = [desk EXCEPT ![k] =
       [desk[k] EXCEPT !.at = IF wd[w].rail = "nowpayments" /\ AutoPayout THEN "payout" ELSE "approve",
                       !.id = w]]
  /\ UNCHANGED <<wallet, dep, books, sent, invoice, tab>>

(* The gateway is asked to pay.  It may pay and answer, refuse, or pay and *)
(* have the answer lost, which the handler cannot tell from a refusal.     *)
CreatePayout(k) ==
  /\ desk[k].at = "payout"
  /\ \E pays \in BOOLEAN, next \in {"approve", "release"} :
       /\ next = "approve" => pays
       /\ sent' = IF pays THEN [sent EXCEPT ![desk[k].id] = @ + 1] ELSE sent
       /\ desk' = [desk EXCEPT ![k].at = next]
  /\ UNCHANGED <<wallet, wd, dep, books, invoice, tab>>

(* Mutant: a payout that failed goes back to be approved again. *)
ReleaseClaimToPending(k) ==
  /\ desk[k].at = "release"
  /\ wd' = [wd EXCEPT ![desk[k].id].status = IF @ = "paying" THEN "pending" ELSE @]
  /\ desk' = [desk EXCEPT ![k] = Idle]
  /\ UNCHANGED <<wallet, dep, books, sent, invoice, tab>>

(* A payout that failed, perhaps, is parked.  An error leaves it paying. *)
ReleaseClaim(k) ==
  /\ desk[k].at = "release"
  /\ LET w == desk[k].id IN
       \/ /\ wd[w].status = "paying"
          /\ wd' = [wd EXCEPT ![w].status = "payout_failed"]
       \/ UNCHANGED wd
  /\ desk' = [desk EXCEPT ![k] = Idle]
  /\ UNCHANGED <<wallet, dep, books, sent, invoice, tab>>

(* Approve settles what was claimed; an error leaves it paying. *)
Approve(k) ==
  /\ desk[k].at = "approve"
  /\ LET w == desk[k].id IN
       \/ /\ wd[w].status \in {"pending", "paying"}
          /\ wd' = [wd EXCEPT ![w].status = "paid"]
          /\ books' = [books EXCEPT !.pending = @ - wd[w].amount,
                                    !.payout = @ + wd[w].amount]
       \/ UNCHANGED <<wd, books>>
  /\ desk' = [desk EXCEPT ![k] = Idle]
  /\ UNCHANGED <<wallet, dep, sent, invoice, tab>>

(* Mutant: what has been claimed may still be rejected. *)
RejectClaimed(k, w) ==
  /\ Console(k)
  /\ wd[w].status \in {"pending", "paying"}
  /\ wd' = [wd EXCEPT ![w].status = "rejected"]
  /\ wallet' = wallet + wd[w].amount
  /\ books' = [books EXCEPT !.pending = @ - wd[w].amount]
  /\ UNCHANGED <<dep, sent, invoice, tab, desk>>

(* A refund, in one transaction, while nobody has claimed the request. *)
Reject(k, w) ==
  /\ Console(k)
  /\ wd[w].status = "pending"
  /\ wd' = [wd EXCEPT ![w].status = "rejected"]
  /\ wallet' = wallet + wd[w].amount
  /\ books' = [books EXCEPT !.pending = @ - wd[w].amount]
  /\ UNCHANGED <<dep, sent, invoice, tab, desk>>

----------------------------------------------------------------------------
(* Deposits. *)

RecentDeposits ==
  Sum({d \in Deposits : dep[d].status \notin {"none", "failed"}}, DepAmount)

AskDeposit(t) ==
  /\ DepositPanel(t)
  /\ \E a \in Amounts, g \in Gateways :
       /\ RecentDeposits + a <= DailyLimit
       /\ tab' = [tab EXCEPT ![t] = 
            [at |-> "may deposit", amount |-> a, via |-> g, id |-> NoId]]
  /\ UNCHANGED <<wallet, wd, dep, books, sent, invoice, desk>>

CreatePending(t) ==
  /\ tab[t].at = "may deposit"
  /\ Unused(Deposits, dep) # {}
  /\ LET d == NewID(Deposits, dep) IN
       /\ dep' = [dep EXCEPT ![d] = [status |-> "pending", amount |-> tab[t].amount,
                                     gateway |-> tab[t].via]]
       /\ tab' = [tab EXCEPT ![t] = [tab[t] EXCEPT !.at = "ordered", !.id = d]]
  /\ UNCHANGED <<wallet, wd, books, sent, invoice, desk>>

(* The gateway opens an invoice.  An error may hide one that was opened. *)
CreateInvoice(t) ==
  /\ tab[t].at = "ordered"
  /\ \E opened \in BOOLEAN, next \in {"invoiced", "refused"} :
       /\ next = "invoiced" => opened
       /\ invoice' = IF opened THEN [invoice EXCEPT ![tab[t].id] = "open"] ELSE invoice
       /\ tab' = [tab EXCEPT ![t].at = next]
  /\ UNCHANGED <<wallet, wd, dep, books, sent, desk>>

(* Mutant: the player can pay before the order is updated. *)
AttachGatewayIDLate(t) ==
  /\ tab[t].at = "invoiced"
  /\ LET d == tab[t].id IN
       \/ /\ invoice[d] = "open"
          /\ invoice' = [invoice EXCEPT ![d] = "payable"]
          /\ UNCHANGED <<dep, tab>>
       \/ /\ invoice[d] # "open"
          /\ dep' = [dep EXCEPT ![d].status = "waiting"]
          /\ tab' = [tab EXCEPT ![t] = Idle] /\ UNCHANGED invoice
  /\ UNCHANGED <<wallet, wd, books, sent, desk>>

(* The order is told its invoice, whatever its status, and the player gets *)
(* the address to pay at.  Errors of the update are ignored; card deposits *)
(* have no such update.                                                    *)
AttachGatewayID(t) ==
  /\ tab[t].at = "invoiced"
  /\ LET d == tab[t].id IN
       /\ \/ /\ dep[d].gateway = "nowpayments"
             /\ dep' = [dep EXCEPT ![d].status = "waiting"]
          \/ UNCHANGED dep
       /\ invoice' = [invoice EXCEPT ![d] = "payable"]
  /\ tab' = [tab EXCEPT ![t] = Idle]
  /\ UNCHANGED <<wallet, wd, books, sent, desk>>

(* MarkFailed of the handler. *)
FailOrder(t) ==
  /\ tab[t].at = "refused"
  /\ LET d == tab[t].id IN
       \/ /\ dep[d].status # "credited"
          /\ dep' = [dep EXCEPT ![d].status = "failed"]
       \/ UNCHANGED dep
  /\ tab' = [tab EXCEPT ![t] = Idle]
  /\ UNCHANGED <<wallet, wd, books, sent, invoice, desk>>

(* The player pays at the gateway. *)
Pay(d) ==
  /\ invoice[d] = "payable"
  /\ invoice' = [invoice EXCEPT ![d] = "paid"]
  /\ UNCHANGED <<wallet, wd, dep, books, sent, tab, desk>>

(* Mutant: an invoice that was reported failed is not credited any more. *)
MarkCreditedUnlessFailed(d) ==
  /\ invoice[d] = "paid"
  /\ dep[d].status \in {"pending", "waiting"}
  /\ dep' = [dep EXCEPT ![d].status = "credited"]
  /\ wallet' = wallet + dep[d].amount
  /\ books' = [books EXCEPT !.deposit = @ + dep[d].amount]
  /\ UNCHANGED <<wd, sent, invoice, tab, desk>>

(* A notification that the money has arrived: finished, confirmed, or a    *)
(* completed checkout.  It may come any number of times.                   *)
MarkCredited(d) ==
  /\ invoice[d] = "paid"
  /\ dep[d].status # "credited"
  /\ dep' = [dep EXCEPT ![d].status = "credited"]
  /\ wallet' = wallet + dep[d].amount
  /\ books' = [books EXCEPT !.deposit = @ + dep[d].amount]
  /\ UNCHANGED <<wd, sent, invoice, tab, desk>>

(* A notification that a crypto invoice failed, expired or was refunded;   *)
(* it may be overtaken by the one above.                                   *)
MarkFailed(d) ==
  /\ invoice[d] # "none" /\ dep[d].gateway = "nowpayments"
  /\ dep[d].status # "credited"
  /\ dep' = [dep EXCEPT ![d].status = "failed"]
  /\ UNCHANGED <<wallet, wd, books, sent, invoice, tab, desk>>

----------------------------------------------------------------------------
(* A handler under way ends where it stands; when the server stops, all do. *)
Crash ==
  /\ \/ \E t \in Tabs : tab[t] # Idle /\ tab' = [tab EXCEPT ![t] = Idle] /\ UNCHANGED desk
     \/ \E k \in Desks : desk[k] # Idle /\ desk' = [desk EXCEPT ![k] = Idle] /\ UNCHANGED tab
  /\ UNCHANGED <<wallet, wd, dep, books, sent, invoice>>

Next ==
  \/ \E t \in Tabs :
       \/ AskWithdraw(t) \/ CreateRequest(t)
       \/ AskDeposit(t) \/ CreatePending(t) \/ CreateInvoice(t)
       \/ AttachGatewayID(t) \/ FailOrder(t)
  \/ \E k \in Desks :
       \/ CreatePayout(k) \/ ReleaseClaim(k) \/ Approve(k)
       \/ \E w \in Withdrawals : ClaimForPayout(k, w) \/ Reject(k, w)
  \/ \E d \in Deposits : Pay(d) \/ MarkCredited(d) \/ MarkFailed(d)
  \/ Crash

Spec == Init /\ [][Next]_vars

(* The gateway repeats a notification until it is answered. *)
FairSpec == Spec /\ \A d \in Deposits : WF_vars(MarkCredited(d))

----------------------------------------------------------------------------
(* Correctness. *)

Requests == [status : WdStatus, amount : Nat, rail : Rails]
Orders == [status : DepStatus, amount : Nat, gateway : Gateways]
Handlers(steps, ids) ==
  [at : steps \cup {"idle"}, amount : Nat, via : Rails \cup Gateways, id : ids \cup {NoId}]
TabSteps == {"within limit", "may deposit", "ordered", "invoiced", "refused"}
DeskSteps == {"payout", "release", "approve"}

(* The rows and handlers have their types; in particular no balance is     *)
(* ever negative, and each withdrawal row holds a status the code knows.   *)
TypeOK ==
  /\ wallet \in Nat
  /\ wd \in [Withdrawals -> Requests] /\ dep \in [Deposits -> Orders]
  /\ books \in [pending : Int, payout : Int, deposit : Int]
  /\ sent \in [Withdrawals -> Nat]
  /\ invoice \in [Deposits -> {"none", "open", "payable", "paid"}]
  /\ tab \in [Tabs -> Handlers(TabSteps, Deposits)]
  /\ desk \in [Desks -> Handlers(DeskSteps, Withdrawals)]

WithStatus(statuses) == Sum({w \in Withdrawals : wd[w].status \in statuses}, WdAmount)

(* The house's accounts agree with the requests ("how much do we owe on    *)
(* unapproved withdrawals from the books rather than by guessing",         *)
(* store/withdrawal.go): the pending account is what is held, the payout   *)
(* account what was marked paid, the deposit account what was credited,    *)
(* each deposit once, and the wallet is what these three leave of the      *)
(* opening balance.                                                        *)
BooksAgree ==
  /\ books.pending = WithStatus({"pending", "paying", "payout_failed"})
  /\ books.payout  = WithStatus({"paid"})
  /\ books.deposit = LifetimeCredited
  /\ wallet = Stipend + books.deposit - books.pending - books.payout

(* However many operators decide at once, whatever the gateway's answers   *)
(* say and wherever the server stops: a request is paid out at most once,  *)
(* and a request that has been refunded was not and will not be.           *)
PaidOutOnce ==
  \A w \in Withdrawals :
    /\ sent[w] <= 1
    /\ wd[w].status \in {"none", "pending", "rejected"} => sent[w] = 0

(* Only an operator who holds the claim is about to pay, and one request   *)
(* is never with two of them; this is what PaidOutOnce rests on.           *)
ClaimIsExclusive ==
  \A k \in Desks : desk[k] # Idle =>
    /\ desk[k].id \in Withdrawals /\ wd[desk[k].id].status = "paying"
    /\ desk[k].at = "payout" => sent[desk[k].id] = 0
    /\ \A j \in Desks \ {k} : desk[j] # Idle => desk[j].id # desk[k].id

(* The weekly limit is read before the request is made, so two pages can   *)
(* pass it together: it is exceeded at most by the requests that were      *)
(* under way at one time, and never by a player who waits for an answer.   *)
LimitExceededOnlyTogether ==
  LET inFlight == {t \in Tabs : tab[t].at = "within limit"}
      largest  == CHOOSE a \in Amounts : \A b \in Amounts : b <= a
  IN  WithStatus({"pending", "paying", "payout_failed", "paid"})
        + Sum(inFlight, LAMBDA t : tab[t].amount)
        <= WeeklyLimit + (Cardinality(Tabs) - 1) * largest

(* The promise to the player: a hold is returned or paid out, once.  Money *)
(* on the manual rail is paid out when the request is marked paid.         *)
Gone(w) == sent[w] > 0 \/ wd[w].status = "paid"
Fate(w) ==
  CASE wd[w].status = "none"     -> "none"
    [] wd[w].status = "rejected" -> "returned"
    [] wd[w].status \notin {"none", "rejected"} -> IF Gone(w) THEN "gone" ELSE "held"
Payments(w) == IF sent[w] > 0 THEN sent[w] ELSE IF Gone(w) THEN 1 ELSE 0

Promise == INSTANCE HeldFunds WITH
  Requests <- Withdrawals,
  funds    <- wallet,
  held     <- [w \in Withdrawals |-> wd[w].amount],
  payments <- [w \in Withdrawals |-> Payments(w)],
  fate     <- [w \in Withdrawals |-> Fate(w)]

KeepsThePromise == Promise!Spec

(* A paid invoice is credited in the end, also when its notifications come *)
(* after one that called it expired or failed.                             *)
PaidIsCredited ==
  \A d \in Deposits : invoice[d] = "paid" ~> dep[d].status = "credited"
==============================================================================
