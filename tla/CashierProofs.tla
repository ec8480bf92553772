--------------------------- MODULE CashierProofs ---------------------------
(***************************************************************************)
(* The cashier keeps its promise, for any number of requests, pages and    *)
(* operators, and any amounts and limits.                                  *)
(***************************************************************************)
EXTENDS Cashier, SumProofs

(* A handler has the amount or the order it goes on with; a deposit that   *)
(* the gateway or a handler knows of has a row; and a row has an amount.   *)
PageOK(t) ==
  /\ tab[t].at \in {"within limit", "may deposit"} => tab[t].amount \in Amounts
  /\ tab[t].at = "within limit" => tab[t].via \in Rails
  /\ tab[t].at = "may deposit" => tab[t].via \in Gateways
  /\ tab[t].at \in {"ordered", "invoiced", "refused"} => tab[t].id \in Deposits

OrderOK(d) ==
  /\ dep[d].status # "none" => dep[d].amount \in Amounts
  /\ invoice[d] # "none" => dep[d].status # "none"
  /\ \A t \in Tabs : tab[t].id = d => dep[d].status # "none"

OrdersExist == (\A t \in Tabs : PageOK(t)) /\ (\A d \in Deposits : OrderOK(d))

IInv == TypeOK /\ OrdersExist /\ PaidOutOnce /\ ClaimIsExclusive

----------------------------------------------------------------------------
(* What rows and handlers are, and what becomes of them when a field is    *)
(* set.                                                                    *)

LEMMA IdleIsAHandler == ASSUME NEW steps, NEW ids PROVE Idle \in Handlers(steps, ids)
BY DEF Idle, Handlers, Rails

LEMMA RequestFields ==
  ASSUME NEW r \in Requests
  PROVE  r.status \in WdStatus /\ r.amount \in Nat /\ r.rail \in Rails
BY DEF Requests

LEMMA OrderFields ==
  ASSUME NEW r \in Orders
  PROVE  r.status \in DepStatus /\ r.amount \in Nat /\ r.gateway \in Gateways
BY DEF Orders

LEMMA HandlerFields ==
  ASSUME NEW steps, NEW ids, NEW h \in Handlers(steps, ids)
  PROVE  /\ h.at \in steps \cup {"idle"} /\ h.amount \in Nat
         /\ h.via \in Rails \cup Gateways /\ h.id \in ids \cup {NoId}
BY DEF Handlers

LEMMA SetOrder ==
  ASSUME NEW rows \in [Deposits -> Orders], NEW d \in Deposits, NEW s \in DepStatus,
         NEW new, new = [rows EXCEPT ![d].status = s]
  PROVE  /\ new \in [Deposits -> Orders]
         /\ new[d].status = s
         /\ \A x \in Deposits :
              /\ new[x].amount = rows[x].amount /\ new[x].gateway = rows[x].gateway
              /\ x # d => new[x] = rows[x]
BY DEF Orders

LEMMA SetStep ==
  ASSUME NEW P, NEW steps, NEW ids, NEW hs \in [P -> Handlers(steps, ids)],
         NEW p \in P, NEW s \in steps \cup {"idle"},
         NEW new, new = [hs EXCEPT ![p].at = s]
  PROVE  /\ new \in [P -> Handlers(steps, ids)]
         /\ new[p].at = s /\ new[p].id = hs[p].id /\ new[p].amount = hs[p].amount
         /\ \A q \in P \ {p} : new[q] = hs[q]
BY DEF Handlers

LEMMA SetHandler ==
  ASSUME NEW P, NEW steps, NEW ids, NEW hs \in [P -> Handlers(steps, ids)],
         NEW p \in P, NEW h \in Handlers(steps, ids),
         NEW new, new = [hs EXCEPT ![p] = h]
  PROVE  /\ new \in [P -> Handlers(steps, ids)]
         /\ new[p] = h
         /\ \A q \in P \ {p} : new[q] = hs[q]
OBVIOUS

----------------------------------------------------------------------------
(* The invariant. *)

(* The cashier opens in a state with the invariant. *)
LEMMA InitInv == Init => IInv
<1> SUFFICES ASSUME Init PROVE IInv
  OBVIOUS
<1>1. TypeOK
  <2>1. wd \in [Withdrawals -> Requests]
    BY DEF Init, Requests, WdStatus, Rails
  <2>2. dep \in [Deposits -> Orders]
    BY DEF Init, Orders, DepStatus, Gateways
  <2>3. /\ tab \in [Tabs -> Handlers(TabSteps, Deposits)]
        /\ desk \in [Desks -> Handlers(DeskSteps, Withdrawals)]
    BY IdleIsAHandler DEF Init
  <2> QED BY <2>1, <2>2, <2>3, CashierAssumption DEF Init, TypeOK
<1>2. OrdersExist
  BY CashierAssumption DEF Init, OrdersExist, PageOK, OrderOK, Idle
<1>3. PaidOutOnce /\ ClaimIsExclusive
  BY DEF Init, PaidOutOnce, ClaimIsExclusive
<1> QED BY <1>1, <1>2, <1>3 DEF IInv

(* A step that touches no withdrawal and no desk keeps what is said of     *)
(* them, and so with deposits and pages.                                   *)
LEMMA WithdrawalsUntouched ==
  ASSUME PaidOutOnce, ClaimIsExclusive, UNCHANGED <<wd, sent, desk>>
  PROVE  PaidOutOnce' /\ ClaimIsExclusive'
BY DEF PaidOutOnce, ClaimIsExclusive

LEMMA DepositsUntouched ==
  ASSUME OrdersExist, UNCHANGED <<dep, invoice, tab>>
  PROVE  OrdersExist'
BY DEF OrdersExist, PageOK, OrderOK

(* One page moves, and the orders it leaves are good ones. *)
LEMMA PageMoves ==
  ASSUME OrdersExist, NEW t \in Tabs, PageOK(t)',
         \A q \in Tabs \ {t} : tab'[q] = tab[q],
         \A d \in Deposits :
           /\ dep[d].status # "none" =>
                dep'[d].status # "none" /\ dep'[d].amount = dep[d].amount
           /\ dep[d].status = "none" /\ dep'[d].status # "none" => dep'[d].amount \in Amounts
           /\ invoice[d] = "none" /\ invoice'[d] # "none" => dep'[d].status # "none"
           /\ tab'[t].id = d => dep'[d].status # "none"
  PROVE  OrdersExist'
<1>1. ASSUME NEW q \in Tabs PROVE PageOK(q)'
  BY DEF OrdersExist, PageOK
<1>2. ASSUME NEW d \in Deposits PROVE OrderOK(d)'
  BY DEF OrdersExist, OrderOK
<1> QED BY <1>1, <1>2 DEF OrdersExist

(* A withdrawal asked for. *)
LEMMA AskWithdrawInv ==
  ASSUME IInv, NEW t \in Tabs, AskWithdraw(t)
  PROVE  IInv'
<1>0. TypeOK /\ OrdersExist /\ PaidOutOnce /\ ClaimIsExclusive
  BY DEF IInv
<1>1. PICK a \in Amounts, r \in Rails :
     tab' = [tab EXCEPT ![t] = [at |-> "within limit", amount |-> a, via |-> r, id |-> NoId]]
  BY DEF AskWithdraw
<1>2. [at |-> "within limit", amount |-> a, via |-> r, id |-> NoId] \in Handlers(TabSteps, Deposits)
  BY CashierAssumption DEF Handlers, TabSteps
<1>3. /\ tab' \in [Tabs -> Handlers(TabSteps, Deposits)]
     /\ tab'[t] = [at |-> "within limit", amount |-> a, via |-> r, id |-> NoId]
     /\ \A q \in Tabs \ {t} : tab'[q] = tab[q]
  BY <1>0, <1>1, <1>2, SetHandler DEF TypeOK
<1>4. PageOK(t)' /\ tab'[t].id = NoId
  BY <1>1, <1>3, CashierAssumption DEF PageOK
<1>5. TypeOK'
  BY <1>0, <1>3 DEF TypeOK, AskWithdraw
<1>6. OrdersExist'
  BY <1>0, <1>3, <1>4, CashierAssumption, PageMoves DEF AskWithdraw
<1>7. PaidOutOnce' /\ ClaimIsExclusive'
  BY <1>0, WithdrawalsUntouched DEF AskWithdraw
<1> QED BY <1>5, <1>6, <1>7 DEF IInv

(* A deposit asked for. *)
LEMMA AskDepositInv ==
  ASSUME IInv, NEW t \in Tabs, AskDeposit(t)
  PROVE  IInv'
<1>0. TypeOK /\ OrdersExist /\ PaidOutOnce /\ ClaimIsExclusive
  BY DEF IInv
<1>1. PICK a \in Amounts, g \in Gateways :
     tab' = [tab EXCEPT ![t] = [at |-> "may deposit", amount |-> a, via |-> g, id |-> NoId]]
  BY DEF AskDeposit
<1>2. [at |-> "may deposit", amount |-> a, via |-> g, id |-> NoId] \in Handlers(TabSteps, Deposits)
  BY CashierAssumption DEF Handlers, TabSteps
<1>3. /\ tab' \in [Tabs -> Handlers(TabSteps, Deposits)]
     /\ tab'[t] = [at |-> "may deposit", amount |-> a, via |-> g, id |-> NoId]
     /\ \A q \in Tabs \ {t} : tab'[q] = tab[q]
  BY <1>0, <1>1, <1>2, SetHandler DEF TypeOK
<1>4. PageOK(t)' /\ tab'[t].id = NoId
  BY <1>1, <1>3, CashierAssumption DEF PageOK
<1>5. TypeOK'
  BY <1>0, <1>3 DEF TypeOK, AskDeposit
<1>6. OrdersExist'
  BY <1>0, <1>3, <1>4, CashierAssumption, PageMoves DEF AskDeposit
<1>7. PaidOutOnce' /\ ClaimIsExclusive'
  BY <1>0, WithdrawalsUntouched DEF AskDeposit
<1> QED BY <1>5, <1>6, <1>7 DEF IInv

(* A request made takes a fresh id, of which nothing has been sent. *)
LEMMA CreateRequestInv ==
  ASSUME IInv, NEW t \in Tabs, CreateRequest(t)
  PROVE  IInv'
<1> DEFINE a == tab[t].amount
           w == NewID(Withdrawals, wd)
           row == [status |-> "pending", amount |-> a, rail |-> tab[t].via]
<1>0. TypeOK /\ OrdersExist /\ PaidOutOnce /\ ClaimIsExclusive
  BY DEF IInv
<1>1. /\ tab' \in [Tabs -> Handlers(TabSteps, Deposits)]
      /\ tab'[t] = Idle
      /\ \A q \in Tabs \ {t} : tab'[q] = tab[q]
  BY <1>0, IdleIsAHandler, SetHandler DEF TypeOK, CreateRequest
<1>2. OrdersExist'
  <2>1. PageOK(t)' /\ tab'[t].id = NoId
    BY <1>1 DEF PageOK, Idle
  <2> QED BY <1>0, <1>1, <2>1, CashierAssumption, PageMoves DEF CreateRequest
<1>3. CASE UNCHANGED <<wallet, wd, books>>
  <2>1. TypeOK'
    BY <1>0, <1>1, <1>3 DEF TypeOK, CreateRequest
  <2>2. PaidOutOnce' /\ ClaimIsExclusive'
    BY <1>0, <1>3, WithdrawalsUntouched DEF CreateRequest
  <2> QED BY <1>2, <2>1, <2>2 DEF IInv
<1>4. CASE /\ a <= wallet /\ Unused(Withdrawals, wd) # {}
           /\ wd' = [wd EXCEPT ![w] = row]
           /\ wallet' = wallet - a
           /\ books' = [books EXCEPT !.pending = @ + a]
  <2>1. w \in Withdrawals /\ wd[w].status = "none"
    BY <1>4 DEF NewID, Unused
  <2>2. a \in Nat /\ row \in Requests
    BY <1>0, HandlerFields DEF TypeOK, OrdersExist, PageOK, Requests, WdStatus, CreateRequest
  <2>3. TypeOK'
    <3>1. wd' \in [Withdrawals -> Requests]
      BY <1>0, <1>4, <2>1, <2>2 DEF TypeOK
    <3>2. wallet' \in Nat /\ books' \in [pending : Int, payout : Int, deposit : Int]
      BY <1>0, <1>4, <2>2 DEF TypeOK
    <3> QED BY <1>0, <1>1, <3>1, <3>2 DEF TypeOK, CreateRequest
  <2>4. wd'[w].status = "pending" /\ \A x \in Withdrawals \ {w} : wd'[x] = wd[x]
    BY <1>0, <1>4, <2>1 DEF TypeOK
  <2>5. PaidOutOnce' /\ ClaimIsExclusive'
    <3>1. sent' = sent /\ desk' = desk
      BY DEF CreateRequest
    <3>2. sent[w] = 0
      BY <1>0, <2>1 DEF PaidOutOnce
    <3>3. PaidOutOnce'
      BY <1>0, <2>1, <2>4, <3>1, <3>2 DEF PaidOutOnce
    <3>4. \A k \in Desks : desk[k] # Idle => desk[k].id # w
      BY <1>0, <2>1 DEF ClaimIsExclusive
    <3>5. ClaimIsExclusive'
      BY <1>0, <2>4, <3>1, <3>4 DEF ClaimIsExclusive
    <3> QED BY <3>3, <3>5
  <2> QED BY <1>2, <2>3, <2>5 DEF IInv
<1> QED BY <1>3, <1>4 DEF CreateRequest

(* A claim takes a request that nobody holds, since it is pending. *)
LEMMA ClaimInv ==
  ASSUME IInv, NEW k \in Desks, NEW w \in Withdrawals, ClaimForPayout(k, w)
  PROVE  IInv'
<1>0. TypeOK /\ OrdersExist /\ PaidOutOnce /\ ClaimIsExclusive
  BY DEF IInv
<1>1. /\ wd' \in [Withdrawals -> Requests]
      /\ wd'[w].status = "paying"
      /\ \A x \in Withdrawals \ {w} : wd'[x] = wd[x]
  <2>1. wd' = [wd EXCEPT ![w].status = "paying"]
    BY DEF ClaimForPayout
  <2>2. "paying" \in WdStatus /\ wd \in [Withdrawals -> Requests]
    BY <1>0 DEF WdStatus, TypeOK
  <2>3. wd' \in [Withdrawals -> Requests]
    BY <2>1, <2>2 DEF Requests
  <2>4. wd'[w].status = "paying" /\ \A x \in Withdrawals \ {w} : wd'[x] = wd[x]
    BY <2>1, <2>2 DEF Requests
  <2> QED BY <2>3, <2>4
<1>2. PICK s \in {"payout", "approve"} : desk' = [desk EXCEPT ![k] = [desk[k] EXCEPT !.at = s, !.id = w]]
  BY DEF ClaimForPayout
<1>3. /\ desk' \in [Desks -> Handlers(DeskSteps, Withdrawals)]
     /\ desk'[k].at = s /\ desk'[k].id = w
     /\ \A q \in Desks \ {k} : desk'[q] = desk[q]
  <2> DEFINE h == [desk[k] EXCEPT !.at = s, !.id = w]
  <2>1. desk[k] \in Handlers(DeskSteps, Withdrawals)
    BY <1>0 DEF TypeOK
  <2>2. h \in Handlers(DeskSteps, Withdrawals) /\ h.at = s /\ h.id = w
    BY <2>1 DEF Handlers, DeskSteps
  <2>3. desk' = [desk EXCEPT ![k] = h]
    BY <1>2
  <2> HIDE DEF h
  <2> QED BY <1>0, <2>2, <2>3, SetHandler DEF TypeOK
<1>4. TypeOK'
  BY <1>0, <1>1, <1>3 DEF TypeOK, ClaimForPayout
<1>5. OrdersExist'
  BY <1>0, DepositsUntouched DEF ClaimForPayout
<1>6. PaidOutOnce' /\ ClaimIsExclusive'
  BY <1>0, <1>1, <1>3 DEF TypeOK, PaidOutOnce, ClaimIsExclusive, ClaimForPayout, Console
<1> QED BY <1>4, <1>5, <1>6 DEF IInv

(* A payout is the first, since its operator holds the claim. *)
LEMMA PayoutInv ==
  ASSUME IInv, NEW k \in Desks, CreatePayout(k)
  PROVE  IInv'
<1>0. TypeOK /\ OrdersExist /\ PaidOutOnce /\ ClaimIsExclusive
  BY DEF IInv
<1>1. desk[k] # Idle /\ desk[k].id \in Withdrawals
  BY <1>0 DEF ClaimIsExclusive, CreatePayout, Idle
<1>2. PICK pays \in BOOLEAN, next \in {"approve", "release"} :
        /\ sent' = IF pays THEN [sent EXCEPT ![desk[k].id] = @ + 1] ELSE sent
        /\ desk' = [desk EXCEPT ![k].at = next]
  BY DEF CreatePayout
<1>3. /\ desk' \in [Desks -> Handlers(DeskSteps, Withdrawals)]
     /\ desk'[k].at = next /\ desk'[k].id = desk[k].id
     /\ \A q \in Desks \ {k} : desk'[q] = desk[q]
  <2>1. desk' = [desk EXCEPT ![k].at = next] /\ next \in DeskSteps \cup {"idle"}
    BY <1>2 DEF DeskSteps
  <2> QED BY <1>0, <2>1, SetStep DEF TypeOK
<1>4. /\ sent' \in [Withdrawals -> Nat]
      /\ sent'[desk[k].id] \in 0 .. 1
      /\ \A x \in Withdrawals \ {desk[k].id} : sent'[x] = sent[x]
  BY <1>0, <1>1, <1>2 DEF TypeOK, ClaimIsExclusive, CreatePayout
<1>5. TypeOK'
  BY <1>0, <1>3, <1>4 DEF TypeOK, CreatePayout
<1>6. OrdersExist'
  BY <1>0, DepositsUntouched DEF CreatePayout
<1>7. PaidOutOnce' /\ ClaimIsExclusive'
  BY <1>0, <1>1, <1>3, <1>4 DEF PaidOutOnce, ClaimIsExclusive, CreatePayout, Idle
<1> QED BY <1>5, <1>6, <1>7 DEF IInv

(* A claim released ends the hold of its operator. *)
LEMMA ReleaseInv ==
  ASSUME IInv, NEW k \in Desks, ReleaseClaim(k)
  PROVE  IInv'
<1> DEFINE w == desk[k].id
<1>0. TypeOK /\ OrdersExist /\ PaidOutOnce /\ ClaimIsExclusive
  BY DEF IInv
<1>1. desk[k] # Idle /\ w \in Withdrawals
  BY <1>0 DEF ClaimIsExclusive, ReleaseClaim, Idle
<1>2. /\ desk' \in [Desks -> Handlers(DeskSteps, Withdrawals)]
      /\ desk'[k] = Idle
      /\ \A q \in Desks \ {k} : desk'[q] = desk[q]
  BY <1>0, IdleIsAHandler, SetHandler DEF TypeOK, ReleaseClaim
<1>3. /\ wd' \in [Withdrawals -> Requests]
      /\ wd'[w].status \in {"payout_failed", wd[w].status}
      /\ \A x \in Withdrawals \ {w} : wd'[x] = wd[x]
  <2>1. CASE wd' = [wd EXCEPT ![w].status = "payout_failed"]
    <3>1. "payout_failed" \in WdStatus /\ wd \in [Withdrawals -> Requests]
      BY <1>0 DEF TypeOK, WdStatus
    <3>2. wd' \in [Withdrawals -> Requests]
      BY <1>1, <2>1, <3>1 DEF Requests
    <3>3. wd'[w].status = "payout_failed" /\ \A x \in Withdrawals \ {w} : wd'[x] = wd[x]
      BY <1>1, <2>1, <3>1 DEF Requests
    <3> QED BY <3>2, <3>3
  <2>2. CASE wd' = wd
    BY <1>0, <2>2 DEF TypeOK
  <2> QED BY <2>1, <2>2 DEF ReleaseClaim
<1>4. books' = books
  BY DEF ReleaseClaim
<1>5. TypeOK'
  BY <1>0, <1>2, <1>3, <1>4 DEF TypeOK, ReleaseClaim
<1>6. OrdersExist'
  BY <1>0, DepositsUntouched DEF ReleaseClaim
<1>7. PaidOutOnce' /\ ClaimIsExclusive'
  BY <1>0, <1>1, <1>2, <1>3 DEF PaidOutOnce, ClaimIsExclusive, ReleaseClaim
<1> QED BY <1>5, <1>6, <1>7 DEF IInv

(* An approval ends the hold of its operator. *)
LEMMA ApproveInv ==
  ASSUME IInv, NEW k \in Desks, Approve(k)
  PROVE  IInv'
<1> DEFINE w == desk[k].id
<1>0. TypeOK /\ OrdersExist /\ PaidOutOnce /\ ClaimIsExclusive
  BY DEF IInv
<1>1. desk[k] # Idle /\ w \in Withdrawals
  BY <1>0 DEF ClaimIsExclusive, Approve, Idle
<1>2. /\ desk' \in [Desks -> Handlers(DeskSteps, Withdrawals)]
      /\ desk'[k] = Idle
      /\ \A q \in Desks \ {k} : desk'[q] = desk[q]
  BY <1>0, IdleIsAHandler, SetHandler DEF TypeOK, Approve
<1>3. /\ wd' \in [Withdrawals -> Requests]
      /\ wd'[w].status \in {"paid", wd[w].status}
      /\ \A x \in Withdrawals \ {w} : wd'[x] = wd[x]
  <2>1. CASE wd' = [wd EXCEPT ![w].status = "paid"]
    <3>1. "paid" \in WdStatus /\ wd \in [Withdrawals -> Requests]
      BY <1>0 DEF TypeOK, WdStatus
    <3>2. wd' \in [Withdrawals -> Requests]
      BY <1>1, <2>1, <3>1 DEF Requests
    <3>3. wd'[w].status = "paid" /\ \A x \in Withdrawals \ {w} : wd'[x] = wd[x]
      BY <1>1, <2>1, <3>1 DEF Requests
    <3> QED BY <3>2, <3>3
  <2>2. CASE wd' = wd
    BY <1>0, <2>2 DEF TypeOK
  <2> QED BY <2>1, <2>2 DEF Approve
<1>4. books' \in [pending : Int, payout : Int, deposit : Int]
  <2>1. wd[w].amount \in Nat
    BY <1>0, <1>1, RequestFields DEF TypeOK
  <2>2. CASE books' = [books EXCEPT !.pending = @ - wd[w].amount, !.payout = @ + wd[w].amount]
    <3>1. books.pending \in Int /\ books.payout \in Int
      BY <1>0 DEF TypeOK
    <3>2. books.pending - wd[w].amount \in Int /\ books.payout + wd[w].amount \in Int
      BY <2>1, <3>1
    <3> QED BY <1>0, <2>2, <3>2 DEF TypeOK
  <2>3. CASE books' = books
    BY <1>0, <2>3 DEF TypeOK
  <2> QED BY <2>2, <2>3 DEF Approve
<1>5. TypeOK'
  BY <1>0, <1>2, <1>3, <1>4 DEF TypeOK, Approve
<1>6. OrdersExist'
  BY <1>0, DepositsUntouched DEF Approve
<1>7. PaidOutOnce' /\ ClaimIsExclusive'
  BY <1>0, <1>1, <1>2, <1>3 DEF PaidOutOnce, ClaimIsExclusive, Approve
<1> QED BY <1>5, <1>6, <1>7 DEF IInv

(* A request refused was pending, so no operator held it. *)
LEMMA RejectInv ==
  ASSUME IInv, NEW k \in Desks, NEW w \in Withdrawals, Reject(k, w)
  PROVE  IInv'
<1>0. TypeOK /\ OrdersExist /\ PaidOutOnce /\ ClaimIsExclusive
  BY DEF IInv
<1>1. /\ wd' \in [Withdrawals -> Requests]
      /\ wd'[w].status = "rejected"
      /\ \A x \in Withdrawals \ {w} : wd'[x] = wd[x]
  <2>1. wd' = [wd EXCEPT ![w].status = "rejected"]
    BY DEF Reject
  <2>2. "rejected" \in WdStatus /\ wd \in [Withdrawals -> Requests]
    BY <1>0 DEF WdStatus, TypeOK
  <2>3. wd' \in [Withdrawals -> Requests]
    BY <2>1, <2>2 DEF Requests
  <2>4. wd'[w].status = "rejected" /\ \A x \in Withdrawals \ {w} : wd'[x] = wd[x]
    BY <2>1, <2>2 DEF Requests
  <2> QED BY <2>3, <2>4
<1>2. wd[w].amount \in Nat
  BY <1>0, RequestFields DEF TypeOK
<1>3. TypeOK'
  BY <1>0, <1>1, <1>2 DEF TypeOK, Reject
<1>4. OrdersExist'
  BY <1>0, DepositsUntouched DEF Reject
<1>5. PaidOutOnce' /\ ClaimIsExclusive'
  BY <1>0, <1>1 DEF PaidOutOnce, ClaimIsExclusive, Reject
<1> QED BY <1>3, <1>4, <1>5 DEF IInv

(* An order made has the amount that was asked for. *)
LEMMA CreatePendingInv ==
  ASSUME IInv, NEW t \in Tabs, CreatePending(t)
  PROVE  IInv'
<1> DEFINE d == NewID(Deposits, dep)
           row == [status |-> "pending", amount |-> tab[t].amount, gateway |-> tab[t].via]
<1>0. TypeOK /\ OrdersExist /\ PaidOutOnce /\ ClaimIsExclusive
  BY DEF IInv
<1>1. d \in Deposits /\ dep[d].status = "none"
  BY DEF NewID, Unused, CreatePending
<1>2. row \in Orders /\ tab[t].amount \in Amounts
  BY <1>0, HandlerFields DEF TypeOK, OrdersExist, PageOK, Orders, DepStatus, CreatePending
<1>3. /\ dep' \in [Deposits -> Orders]
      /\ dep'[d] = row
      /\ \A x \in Deposits \ {d} : dep'[x] = dep[x]
  BY <1>0, <1>1, <1>2 DEF TypeOK, CreatePending
<1>4. /\ tab' \in [Tabs -> Handlers(TabSteps, Deposits)]
      /\ tab'[t].at = "ordered" /\ tab'[t].id = d
      /\ \A q \in Tabs \ {t} : tab'[q] = tab[q]
  <2> DEFINE h == [tab[t] EXCEPT !.at = "ordered", !.id = d]
  <2>1. tab[t] \in Handlers(TabSteps, Deposits)
    BY <1>0 DEF TypeOK
  <2> HIDE DEF d
  <2>2. h \in Handlers(TabSteps, Deposits) /\ h.at = "ordered" /\ h.id = d
    BY <1>1, <2>1 DEF Handlers, TabSteps
  <2>3. tab' = [tab EXCEPT ![t] = h]
    BY DEF CreatePending, d
  <2> HIDE DEF h
  <2> QED BY <1>0, <2>2, <2>3, SetHandler DEF TypeOK
<1>5. TypeOK'
  BY <1>0, <1>3, <1>4 DEF TypeOK, CreatePending
<1>6. OrdersExist'
  <2>1. PageOK(t)'
    BY <1>1, <1>4 DEF PageOK
  <2>2. ASSUME NEW x \in Deposits
        PROVE  /\ dep[x].status # "none" => dep'[x] = dep[x]
               /\ dep'[x].status # "none" /\ dep[x].status = "none" => dep'[x].amount \in Amounts
               /\ tab'[t].id = x => dep'[x].status # "none"
    BY <1>1, <1>2, <1>3, <1>4
  <2> QED BY <1>0, <1>4, <2>1, <2>2, PageMoves DEF CreatePending
<1>7. PaidOutOnce' /\ ClaimIsExclusive'
  BY <1>0, WithdrawalsUntouched DEF CreatePending
<1> QED BY <1>5, <1>6, <1>7 DEF IInv

(* An invoice is opened for an order that exists. *)
LEMMA CreateInvoiceInv ==
  ASSUME IInv, NEW t \in Tabs, CreateInvoice(t)
  PROVE  IInv'
<1>0. TypeOK /\ OrdersExist /\ PaidOutOnce /\ ClaimIsExclusive
  BY DEF IInv
<1>1. tab[t].id \in Deposits
  BY <1>0 DEF OrdersExist, PageOK, CreateInvoice
<1>2. PICK opened \in BOOLEAN, next \in {"invoiced", "refused"} :
        /\ invoice' = IF opened THEN [invoice EXCEPT ![tab[t].id] = "open"] ELSE invoice
        /\ tab' = [tab EXCEPT ![t].at = next]
  BY DEF CreateInvoice
<1>3. /\ tab' \in [Tabs -> Handlers(TabSteps, Deposits)]
     /\ tab'[t].at = next /\ tab'[t].id = tab[t].id
     /\ \A q \in Tabs \ {t} : tab'[q] = tab[q]
  <2>1. tab' = [tab EXCEPT ![t].at = next] /\ next \in TabSteps \cup {"idle"}
    BY <1>2 DEF TabSteps
  <2> QED BY <1>0, <2>1, SetStep DEF TypeOK
<1>4. /\ invoice' \in [Deposits -> {"none", "open", "payable", "paid"}]
      /\ \A x \in Deposits \ {tab[t].id} : invoice'[x] = invoice[x]
  BY <1>0, <1>1, <1>2 DEF TypeOK
<1>5. PageOK(t)'
  BY <1>1, <1>3 DEF PageOK
<1>6. dep[tab[t].id].status # "none"
  BY <1>0, <1>1 DEF OrdersExist, OrderOK
<1>7. TypeOK'
  BY <1>0, <1>3, <1>4 DEF TypeOK, CreateInvoice
<1>8. OrdersExist'
  BY <1>0, <1>3, <1>4, <1>5, <1>6, PageMoves DEF CreateInvoice
<1>9. PaidOutOnce' /\ ClaimIsExclusive'
  BY <1>0, WithdrawalsUntouched DEF CreateInvoice
<1> QED BY <1>7, <1>8, <1>9 DEF IInv

(* The order keeps its amount when it learns its invoice. *)
LEMMA AttachInv ==
  ASSUME IInv, NEW t \in Tabs, AttachGatewayID(t)
  PROVE  IInv'
<1> DEFINE d == tab[t].id
<1>0. TypeOK /\ OrdersExist /\ PaidOutOnce /\ ClaimIsExclusive
  BY DEF IInv
<1>1. d \in Deposits /\ dep[d].status # "none"
  BY <1>0 DEF OrdersExist, PageOK, OrderOK, AttachGatewayID
<1>2. /\ tab' \in [Tabs -> Handlers(TabSteps, Deposits)]
      /\ tab'[t] = Idle
      /\ \A q \in Tabs \ {t} : tab'[q] = tab[q]
  BY <1>0, IdleIsAHandler, SetHandler DEF TypeOK, AttachGatewayID
<1>3. /\ dep' \in [Deposits -> Orders]
      /\ \A x \in Deposits :
           /\ dep'[x].amount = dep[x].amount
           /\ dep[x].status # "none" <=> dep'[x].status # "none"
  <2>1. CASE dep' = [dep EXCEPT ![d].status = "waiting"]
    <3>1. "waiting" \in DepStatus /\ "waiting" # "none"
      BY DEF DepStatus
    <3> QED BY <1>0, <1>1, <2>1, <3>1, SetOrder DEF TypeOK
  <2>2. CASE dep' = dep
    BY <1>0, <2>2 DEF TypeOK
  <2> QED BY <2>1, <2>2 DEF AttachGatewayID
<1>4. /\ invoice' \in [Deposits -> {"none", "open", "payable", "paid"}]
      /\ \A x \in Deposits \ {d} : invoice'[x] = invoice[x]
  BY <1>0, <1>1 DEF TypeOK, AttachGatewayID
<1>5. TypeOK'
  BY <1>0, <1>2, <1>3, <1>4 DEF TypeOK, AttachGatewayID
<1>6. OrdersExist'
  <2>1. PageOK(t)' /\ tab'[t].id = NoId
    BY <1>2 DEF PageOK, Idle
  <2> QED BY <1>0, <1>1, <1>2, <1>3, <1>4, <2>1, CashierAssumption, PageMoves
<1>7. PaidOutOnce' /\ ClaimIsExclusive'
  BY <1>0, WithdrawalsUntouched DEF AttachGatewayID
<1> QED BY <1>5, <1>6, <1>7 DEF IInv

(* So it does when its invoice was refused. *)
LEMMA FailOrderInv ==
  ASSUME IInv, NEW t \in Tabs, FailOrder(t)
  PROVE  IInv'
<1> DEFINE d == tab[t].id
<1>0. TypeOK /\ OrdersExist /\ PaidOutOnce /\ ClaimIsExclusive
  BY DEF IInv
<1>1. d \in Deposits /\ dep[d].status # "none"
  BY <1>0 DEF OrdersExist, PageOK, OrderOK, FailOrder
<1>2. /\ tab' \in [Tabs -> Handlers(TabSteps, Deposits)]
      /\ tab'[t] = Idle
      /\ \A q \in Tabs \ {t} : tab'[q] = tab[q]
  BY <1>0, IdleIsAHandler, SetHandler DEF TypeOK, FailOrder
<1>3. /\ dep' \in [Deposits -> Orders]
      /\ \A x \in Deposits :
           /\ dep'[x].amount = dep[x].amount
           /\ dep[x].status # "none" <=> dep'[x].status # "none"
  <2>1. CASE dep' = [dep EXCEPT ![d].status = "failed"]
    <3>1. "failed" \in DepStatus /\ "failed" # "none"
      BY DEF DepStatus
    <3> QED BY <1>0, <1>1, <2>1, <3>1, SetOrder DEF TypeOK
  <2>2. CASE dep' = dep
    BY <1>0, <2>2 DEF TypeOK
  <2> QED BY <2>1, <2>2 DEF FailOrder
<1>4. /\ invoice' \in [Deposits -> {"none", "open", "payable", "paid"}]
      /\ \A x \in Deposits \ {d} : invoice'[x] = invoice[x]
  BY <1>0, <1>1 DEF TypeOK, FailOrder
<1>5. TypeOK'
  BY <1>0, <1>2, <1>3, <1>4 DEF TypeOK, FailOrder
<1>6. OrdersExist'
  <2>1. PageOK(t)' /\ tab'[t].id = NoId
    BY <1>2 DEF PageOK, Idle
  <2> QED BY <1>0, <1>1, <1>2, <1>3, <1>4, <2>1, CashierAssumption, PageMoves
<1>7. PaidOutOnce' /\ ClaimIsExclusive'
  BY <1>0, WithdrawalsUntouched DEF FailOrder
<1> QED BY <1>5, <1>6, <1>7 DEF IInv

(* A payment at the gateway. *)
LEMMA PayInv ==
  ASSUME IInv, NEW d \in Deposits, Pay(d)
  PROVE  IInv'
<1>0. TypeOK /\ OrdersExist /\ PaidOutOnce /\ ClaimIsExclusive
  BY DEF IInv
<1>1. TypeOK'
  BY <1>0 DEF TypeOK, Pay
<1>2. OrdersExist'
  BY <1>0 DEF TypeOK, OrdersExist, PageOK, OrderOK, Pay
<1>3. PaidOutOnce' /\ ClaimIsExclusive'
  BY <1>0, WithdrawalsUntouched DEF Pay
<1> QED BY <1>1, <1>2, <1>3 DEF IInv

(* A deposit credited. *)
LEMMA CreditInv ==
  ASSUME IInv, NEW d \in Deposits, MarkCredited(d)
  PROVE  IInv'
<1>0. TypeOK /\ OrdersExist /\ PaidOutOnce /\ ClaimIsExclusive
  BY DEF IInv
<1>1. "credited" \in DepStatus /\ "credited" # "none" /\ dep \in [Deposits -> Orders]
  BY <1>0 DEF DepStatus, TypeOK
<1>2. dep' = [dep EXCEPT ![d].status = "credited"]
  BY DEF MarkCredited
<1>3. /\ dep' \in [Deposits -> Orders]
      /\ \A x \in Deposits :
           /\ dep'[x].amount = dep[x].amount
           /\ dep[x].status # "none" => dep'[x].status # "none"
  BY <1>1, <1>2, SetOrder
<1>4. dep[d].amount \in Nat
  BY <1>0, OrderFields DEF TypeOK
<1>5. TypeOK'
  BY <1>0, <1>3, <1>4 DEF TypeOK, MarkCredited
<1>6. OrdersExist'
  BY <1>0, <1>3 DEF OrdersExist, PageOK, OrderOK, MarkCredited
<1>7. PaidOutOnce' /\ ClaimIsExclusive'
  BY <1>0, WithdrawalsUntouched DEF MarkCredited
<1> QED BY <1>5, <1>6, <1>7 DEF IInv

(* A deposit reported failed. *)
LEMMA FailInv ==
  ASSUME IInv, NEW d \in Deposits, MarkFailed(d)
  PROVE  IInv'
<1>0. TypeOK /\ OrdersExist /\ PaidOutOnce /\ ClaimIsExclusive
  BY DEF IInv
<1>1. "failed" \in DepStatus /\ "failed" # "none" /\ dep \in [Deposits -> Orders]
  BY <1>0 DEF DepStatus, TypeOK
<1>2. dep' = [dep EXCEPT ![d].status = "failed"]
  BY DEF MarkFailed
<1>3. /\ dep' \in [Deposits -> Orders]
      /\ \A x \in Deposits :
           /\ dep'[x].amount = dep[x].amount
           /\ dep[x].status # "none" => dep'[x].status # "none"
  BY <1>1, <1>2, SetOrder
<1>4. dep[d].amount \in Nat
  BY <1>0, OrderFields DEF TypeOK
<1>5. TypeOK'
  BY <1>0, <1>3, <1>4 DEF TypeOK, MarkFailed
<1>6. OrdersExist'
  BY <1>0, <1>3 DEF OrdersExist, PageOK, OrderOK, MarkFailed
<1>7. PaidOutOnce' /\ ClaimIsExclusive'
  BY <1>0, WithdrawalsUntouched DEF MarkFailed
<1> QED BY <1>5, <1>6, <1>7 DEF IInv

(* A handler that stops forgets where it stood, and releases nothing. *)
LEMMA CrashInv ==
  ASSUME IInv, Crash
  PROVE  IInv'
<1>0. TypeOK /\ OrdersExist /\ PaidOutOnce /\ ClaimIsExclusive
  BY DEF IInv
<1>1. CASE \E t \in Tabs : tab[t] # Idle /\ tab' = [tab EXCEPT ![t] = Idle] /\ UNCHANGED desk
  <2>1. PICK t \in Tabs : tab' = [tab EXCEPT ![t] = Idle] /\ UNCHANGED desk
    BY <1>1
  <2>2. /\ tab' \in [Tabs -> Handlers(TabSteps, Deposits)]
        /\ tab'[t] = Idle
        /\ \A q \in Tabs \ {t} : tab'[q] = tab[q]
    BY <1>0, <2>1, IdleIsAHandler, SetHandler DEF TypeOK
  <2>3. TypeOK'
    BY <1>0, <2>1, <2>2 DEF TypeOK, Crash
  <2>4. OrdersExist'
    <3>1. PageOK(t)' /\ tab'[t].id = NoId
      BY <2>2 DEF PageOK, Idle
    <3> QED BY <1>0, <2>2, <3>1, CashierAssumption, PageMoves DEF Crash
  <2>5. PaidOutOnce' /\ ClaimIsExclusive'
    BY <1>0, <2>1, WithdrawalsUntouched DEF Crash
  <2> QED BY <2>3, <2>4, <2>5 DEF IInv
<1>2. CASE \E k \in Desks : desk[k] # Idle /\ desk' = [desk EXCEPT ![k] = Idle] /\ UNCHANGED tab
  <2>1. PICK k \in Desks : desk' = [desk EXCEPT ![k] = Idle] /\ UNCHANGED tab
    BY <1>2
  <2>2. /\ desk' \in [Desks -> Handlers(DeskSteps, Withdrawals)]
        /\ desk'[k] = Idle
        /\ \A q \in Desks \ {k} : desk'[q] = desk[q]
    BY <1>0, <2>1, IdleIsAHandler, SetHandler DEF TypeOK
  <2>3. TypeOK'
    BY <1>0, <2>1, <2>2 DEF TypeOK, Crash
  <2>4. OrdersExist'
    BY <1>0, <2>1, DepositsUntouched DEF Crash
  <2>5. PaidOutOnce' /\ ClaimIsExclusive'
    BY <1>0, <2>2 DEF PaidOutOnce, ClaimIsExclusive, Crash
  <2> QED BY <2>3, <2>4, <2>5 DEF IInv
<1> QED BY <1>1, <1>2 DEF Crash

----------------------------------------------------------------------------
(* The theorems. *)

(* Every step keeps the invariant. *)
LEMMA StepInv == IInv /\ [Next]_vars => IInv'
<1> SUFFICES ASSUME IInv, [Next]_vars PROVE IInv'
  OBVIOUS
<1>1. CASE Next
  BY <1>1, AskWithdrawInv, CreateRequestInv, ClaimInv, PayoutInv, ReleaseInv, ApproveInv,
     RejectInv, AskDepositInv, CreatePendingInv, CreateInvoiceInv, AttachInv, FailOrderInv,
     PayInv, CreditInv, FailInv, CrashInv DEF Next
<1>2. CASE UNCHANGED vars
  BY <1>2 DEF vars, IInv, TypeOK, OrdersExist, PageOK, OrderOK, PaidOutOnce, ClaimIsExclusive
<1> QED BY <1>1, <1>2

LEMMA Invariance == Spec => []IInv
BY InitInv, StepInv, PTL DEF Spec

(* No balance is ever negative and every row and handler has its type.     *)
THEOREM CashierTypes == Spec => []TypeOK
<1>1. IInv => TypeOK
  BY DEF IInv
<1> QED BY <1>1, Invariance, PTL

(* No request is ever paid out twice, or both paid out and refunded        *)
(* (ClaimForPayout, ReleaseClaim, Approve and Reject of                    *)
(* store/withdrawal.go), whatever fails or stops.                          *)
THEOREM NeverPaidTwice == Spec => []PaidOutOnce
<1>1. IInv => PaidOutOnce
  BY DEF IInv
<1> QED BY <1>1, Invariance, PTL

(* At any moment at most one operator's call is entitled to pay a request. *)
THEOREM OneClaimant == Spec => []ClaimIsExclusive
<1>1. IInv => ClaimIsExclusive
  BY DEF IInv
<1> QED BY <1>1, Invariance, PTL

----------------------------------------------------------------------------
(* The books.                                                              *)

StatusIn(rows, ids, statuses) == {x \in ids : rows[x].status \in statuses}
Held == {"pending", "paying", "payout_failed"}
Credited == {"credited"}

(* The sums of the model are sums of rows, before and after a step.        *)
LEMMA WithdrawalSums ==
  ASSUME NEW statuses
  PROVE  /\ WithStatus(statuses) = RowSum(wd, StatusIn(wd, Withdrawals, statuses))
         /\ WithStatus(statuses)' = RowSum(wd', StatusIn(wd', Withdrawals, statuses))
<1>1. WithStatus(statuses) = RowSum(wd, StatusIn(wd, Withdrawals, statuses))
  BY DEF WithStatus, Sum, MapThenSumSet, MapThenFoldSet, WdAmount, RowSum, StatusIn
<1>2. WithStatus(statuses)' = RowSum(wd', StatusIn(wd', Withdrawals, statuses))
  BY DEF WithStatus, Sum, MapThenSumSet, MapThenFoldSet, WdAmount, RowSum, StatusIn
<1> QED BY <1>1, <1>2

LEMMA CreditedSums ==
  /\ LifetimeCredited = RowSum(dep, StatusIn(dep, Deposits, Credited))
  /\ LifetimeCredited' = RowSum(dep', StatusIn(dep', Deposits, Credited))
<1>1. LifetimeCredited = RowSum(dep, StatusIn(dep, Deposits, Credited))
  <2>1. {d \in Deposits : dep[d].status = "credited"} = StatusIn(dep, Deposits, Credited)
    BY DEF StatusIn, Credited
  <2>2. LifetimeCredited = RowSum(dep, {d \in Deposits : dep[d].status = "credited"})
    BY DEF LifetimeCredited, Sum, MapThenSumSet, MapThenFoldSet, DepAmount, RowSum
  <2> QED BY <2>1, <2>2
<1>2. LifetimeCredited' = RowSum(dep', StatusIn(dep', Deposits, Credited))
  <2>1. {d \in Deposits : dep'[d].status = "credited"} = StatusIn(dep', Deposits, Credited)
    BY DEF StatusIn, Credited
  <2>2. LifetimeCredited' = RowSum(dep', {d \in Deposits : dep'[d].status = "credited"})
    BY DEF LifetimeCredited, Sum, MapThenSumSet, MapThenFoldSet, DepAmount, RowSum
  <2> QED BY <2>1, <2>2
<1> QED BY <1>1, <1>2

OthersStay(x, ids, rows, new) == \A y \in ids \ {x} : new[y] = rows[y]

(* The sum of a status when one row is rewritten. *)
LEMMA RowMoves ==
  ASSUME NEW ids, IsFiniteSet(ids), NEW rows, NEW new,
         Countable(rows, ids), Countable(new, ids),
         NEW x \in ids, OthersStay(x, ids, rows, new), NEW statuses
  PROVE  \E rest \in Nat :
           /\ RowSum(rows, StatusIn(rows, ids, statuses)) =
                rest + (IF rows[x].status \in statuses THEN rows[x].amount ELSE 0)
           /\ RowSum(new, StatusIn(new, ids, statuses)) =
                rest + (IF new[x].status \in statuses THEN new[x].amount ELSE 0)
<1> DEFINE S == StatusIn(rows, ids, statuses)
           R == StatusIn(new, ids, statuses)
<1>0. AlikeBut(x, ids, S, R)
  BY DEF StatusIn, OthersStay, AlikeBut
<1>1. /\ x \in S <=> rows[x].status \in statuses
      /\ x \in R <=> new[x].status \in statuses
  BY DEF StatusIn
<1>2. SameAmounts(rows, new, ids \ {x})
  BY DEF OthersStay, SameAmounts
<1> HIDE DEF S, R
<1>3. PICK rest \in Nat :
        /\ RowSum(rows, S) = rest + (IF x \in S THEN rows[x].amount ELSE 0)
        /\ RowSum(new, R) = rest + (IF x \in R THEN new[x].amount ELSE 0)
  BY <1>0, <1>2, RowSumMoves
<1>4. /\ RowSum(rows, S) = rest + (IF rows[x].status \in statuses THEN rows[x].amount ELSE 0)
      /\ RowSum(new, R) = rest + (IF new[x].status \in statuses THEN new[x].amount ELSE 0)
  BY <1>1, <1>3
<1> QED BY <1>4 DEF S, R

(* What is added up is numbers. *)
LEMMA RowsCountable ==
  ASSUME TypeOK
  PROVE  Countable(wd, Withdrawals) /\ Countable(dep, Deposits) /\ Countable(tab, Tabs)
BY RequestFields, OrderFields, HandlerFields DEF TypeOK, Countable

(* One withdrawal is rewritten, or one deposit. *)
LEMMA WithdrawalMoves ==
  ASSUME TypeOK, TypeOK', NEW w \in Withdrawals,
         \A x \in Withdrawals \ {w} : wd'[x] = wd[x], NEW statuses
  PROVE  \E rest \in Nat :
           /\ WithStatus(statuses) =
                rest + (IF wd[w].status \in statuses THEN wd[w].amount ELSE 0)
           /\ WithStatus(statuses)' =
                rest + (IF wd'[w].status \in statuses THEN wd'[w].amount ELSE 0)
<1>1. Countable(wd, Withdrawals) /\ Countable(wd', Withdrawals)
  BY RequestFields DEF TypeOK, Countable
<1>2. OthersStay(w, Withdrawals, wd, wd') /\ IsFiniteSet(Withdrawals)
  BY FiniteAssumption DEF OthersStay
<1> QED BY <1>1, <1>2, RowMoves, WithdrawalSums

LEMMA DepositMoves ==
  ASSUME TypeOK, TypeOK', NEW d \in Deposits,
         \A x \in Deposits \ {d} : dep'[x] = dep[x]
  PROVE  \E rest \in Nat :
           /\ LifetimeCredited =
                rest + (IF dep[d].status = "credited" THEN dep[d].amount ELSE 0)
           /\ LifetimeCredited' =
                rest + (IF dep'[d].status = "credited" THEN dep'[d].amount ELSE 0)
<1>1. Countable(dep, Deposits) /\ Countable(dep', Deposits)
  BY OrderFields DEF TypeOK, Countable
<1>3. OthersStay(d, Deposits, dep, dep') /\ IsFiniteSet(Deposits)
  BY FiniteAssumption DEF OthersStay
<1>2. PICK rest \in Nat :
        /\ RowSum(dep, StatusIn(dep, Deposits, Credited)) =
             rest + (IF dep[d].status \in Credited THEN dep[d].amount ELSE 0)
        /\ RowSum(dep', StatusIn(dep', Deposits, Credited)) =
             rest + (IF dep'[d].status \in Credited THEN dep'[d].amount ELSE 0)
  BY <1>1, <1>3, RowMoves
<1> QED BY <1>2, CreditedSums DEF Credited

(* Where the wallet, the books and the sums stay, the books agree still.   *)
LEMMA BooksStand ==
  ASSUME BooksAgree, UNCHANGED <<wallet, books>>,
         WithStatus(Held)' = WithStatus(Held),
         WithStatus({"paid"})' = WithStatus({"paid"}),
         LifetimeCredited' = LifetimeCredited
  PROVE  BooksAgree'
BY DEF BooksAgree, Held

LEMMA BooksUntouched ==
  ASSUME BooksAgree, UNCHANGED <<wallet, books, wd, dep>>
  PROVE  BooksAgree'
<1>1. /\ WithStatus(Held)' = WithStatus(Held)
      /\ WithStatus({"paid"})' = WithStatus({"paid"})
  BY WithdrawalSums DEF StatusIn
<1>2. LifetimeCredited' = LifetimeCredited
  BY CreditedSums DEF StatusIn
<1> QED BY <1>1, <1>2, BooksStand

LEMMA DepositsStand == UNCHANGED dep => LifetimeCredited' = LifetimeCredited
BY CreditedSums DEF StatusIn

LEMMA WithdrawalsStand ==
  ASSUME UNCHANGED wd, NEW statuses
  PROVE  WithStatus(statuses)' = WithStatus(statuses)
BY WithdrawalSums DEF StatusIn

(* A hold that is claimed or parked is a hold. *)
LEMMA HoldMoves ==
  ASSUME TypeOK, TypeOK', BooksAgree, UNCHANGED <<wallet, books, dep>>,
         NEW w \in Withdrawals, \A x \in Withdrawals \ {w} : wd'[x] = wd[x],
         wd[w].status \in Held, wd'[w].status \in Held, wd'[w].amount = wd[w].amount
  PROVE  BooksAgree'
<1>1. wd[w].status # "paid" /\ wd'[w].status # "paid"
  BY DEF Held
<1>2. WithStatus(Held)' = WithStatus(Held)
  BY WithdrawalMoves
<1>3. WithStatus({"paid"})' = WithStatus({"paid"})
  BY <1>1, WithdrawalMoves
<1> QED BY <1>2, <1>3, DepositsStand, BooksStand

(* A deposit that was not credited and is not. *)
LEMMA OrderMoves ==
  ASSUME TypeOK, TypeOK', BooksAgree, UNCHANGED <<wallet, books, wd>>,
         NEW d \in Deposits, \A x \in Deposits \ {d} : dep'[x] = dep[x],
         dep[d].status # "credited", dep'[d].status # "credited"
  PROVE  BooksAgree'
<1>1. LifetimeCredited' = LifetimeCredited
  BY DepositMoves
<1> QED BY <1>1, WithdrawalsStand, BooksStand

(* The wallet and the books as numbers, to calculate with. *)
LEMMA BooksInNumbers ==
  ASSUME TypeOK, BooksAgree
  PROVE  /\ wallet \in Nat /\ books.pending \in Int /\ books.payout \in Int
         /\ books.deposit \in Int /\ Stipend \in Nat
         /\ books.pending = WithStatus(Held) /\ books.payout = WithStatus({"paid"})
         /\ books.deposit = LifetimeCredited
         /\ wallet = Stipend + books.deposit - books.pending - books.payout
BY CashierAssumption DEF TypeOK, BooksAgree, Held

LEMMA BooksAgreeIf ==
  ASSUME books'.pending = WithStatus(Held)', books'.payout = WithStatus({"paid"})',
         books'.deposit = LifetimeCredited',
         wallet' = Stipend + books'.deposit - books'.pending - books'.payout
  PROVE  BooksAgree'
BY DEF BooksAgree, Held

LEMMA CreateRequestBooks ==
  ASSUME IInv, IInv', BooksAgree, NEW t \in Tabs, CreateRequest(t)
  PROVE  BooksAgree'
<1>0. PICK a, w, row : /\ a = tab[t].amount /\ w = NewID(Withdrawals, wd)
                         /\ row = [status |-> "pending", amount |-> a, rail |-> tab[t].via]
  OBVIOUS
<1>1. CASE UNCHANGED <<wallet, wd, books>>
  BY <1>1, BooksUntouched DEF CreateRequest
<1>2. CASE /\ Unused(Withdrawals, wd) # {}
           /\ wd' = [wd EXCEPT ![w] = row]
           /\ wallet' = wallet - a
           /\ books' = [books EXCEPT !.pending = @ + a]
  <2>1. w \in Withdrawals /\ wd[w].status = "none"
    BY <1>0, <1>2 DEF NewID, Unused
  <2>2. a \in Nat /\ dep' = dep /\ TypeOK /\ TypeOK'
    BY <1>0, HandlerFields DEF IInv, TypeOK, CreateRequest
  <2>3. /\ wd'[w].status = "pending" /\ wd'[w].amount = a
        /\ \A x \in Withdrawals \ {w} : wd'[x] = wd[x]
    BY <1>0, <1>2, <2>1, <2>2 DEF TypeOK
  <2>4. WithStatus(Held)' = WithStatus(Held) + a /\ WithStatus(Held) \in Nat
    <3>1. wd[w].status \notin Held /\ wd'[w].status \in Held
      BY <2>1, <2>3 DEF Held
    <3> QED BY <2>1, <2>2, <2>3, <3>1, WithdrawalMoves
  <2>5. WithStatus({"paid"})' = WithStatus({"paid"})
    BY <2>1, <2>2, <2>3, WithdrawalMoves
  <2>6. LifetimeCredited' = LifetimeCredited
    BY <2>2, DepositsStand
  <2>7. /\ books'.pending = books.pending + a /\ books'.payout = books.payout
        /\ books'.deposit = books.deposit
    BY <1>2, <2>2 DEF TypeOK
  <2> QED BY <1>2, <2>2, <2>4, <2>5, <2>6, <2>7, BooksInNumbers, BooksAgreeIf
<1> QED BY <1>0, <1>1, <1>2 DEF CreateRequest

LEMMA ClaimBooks ==
  ASSUME IInv, IInv', BooksAgree, NEW k \in Desks, NEW w \in Withdrawals, ClaimForPayout(k, w)
  PROVE  BooksAgree'
<1>1. /\ wd'[w].status = "paying" /\ wd'[w].amount = wd[w].amount
      /\ \A x \in Withdrawals \ {w} : wd'[x] = wd[x]
  BY DEF IInv, TypeOK, Requests, ClaimForPayout
<1>2. wd[w].status \in Held /\ wd'[w].status \in Held
  BY <1>1 DEF ClaimForPayout, Held
<1>3. TypeOK /\ TypeOK' /\ UNCHANGED <<wallet, books, dep>>
  BY DEF IInv, ClaimForPayout
<1> QED BY <1>1, <1>2, <1>3, HoldMoves

LEMMA ReleaseBooks ==
  ASSUME IInv, IInv', BooksAgree, NEW k \in Desks, ReleaseClaim(k)
  PROVE  BooksAgree'
<1>0. PICK w : w = desk[k].id
  OBVIOUS
<1>1. CASE wd' = wd
  BY <1>1, BooksUntouched DEF ReleaseClaim
<1>2. CASE wd[w].status = "paying" /\ wd' = [wd EXCEPT ![w].status = "payout_failed"]
  <2>1. w \in Withdrawals
    BY <1>0 DEF IInv, ClaimIsExclusive, ReleaseClaim, Idle
  <2>2. /\ wd'[w].status = "payout_failed" /\ wd'[w].amount = wd[w].amount
        /\ \A x \in Withdrawals \ {w} : wd'[x] = wd[x]
    BY <1>2, <2>1 DEF IInv, TypeOK, Requests
  <2>3. wd[w].status \in Held /\ wd'[w].status \in Held
    BY <1>2, <2>2 DEF Held
  <2>4. TypeOK /\ TypeOK' /\ UNCHANGED <<wallet, books, dep>>
    BY DEF IInv, ReleaseClaim
  <2> QED BY <2>1, <2>2, <2>3, <2>4, HoldMoves
<1> QED BY <1>0, <1>1, <1>2 DEF ReleaseClaim

LEMMA ApproveBooks ==
  ASSUME IInv, IInv', BooksAgree, NEW k \in Desks, Approve(k)
  PROVE  BooksAgree'
<1>0. PICK w : w = desk[k].id
  OBVIOUS
<1>1. CASE UNCHANGED <<wd, books>>
  BY <1>1, BooksUntouched DEF Approve
<1>2. CASE /\ wd[w].status \in {"pending", "paying"}
           /\ wd' = [wd EXCEPT ![w].status = "paid"]
           /\ books' = [books EXCEPT !.pending = @ - wd[w].amount,
                                     !.payout = @ + wd[w].amount]
  <2>1. w \in Withdrawals
    BY <1>0 DEF IInv, ClaimIsExclusive, Approve, Idle
  <2>2. TypeOK /\ TypeOK' /\ UNCHANGED <<wallet, dep>>
    BY DEF IInv, Approve
  <2>3. PICK a \in Nat : a = wd[w].amount
    BY <2>1, <2>2, RequestFields DEF TypeOK
  <2>4. /\ wd'[w].status = "paid" /\ wd'[w].amount = a
        /\ \A x \in Withdrawals \ {w} : wd'[x] = wd[x]
    BY <1>2, <2>1, <2>2, <2>3 DEF TypeOK, Requests
  <2>5. WithStatus(Held) = WithStatus(Held)' + a /\ WithStatus(Held)' \in Nat
    <3>1. wd[w].status \in Held /\ wd'[w].status \notin Held
      BY <1>2, <2>4 DEF Held
    <3> QED BY <2>1, <2>2, <2>3, <2>4, <3>1, WithdrawalMoves
  <2>6. WithStatus({"paid"})' = WithStatus({"paid"}) + a
    BY <1>2, <2>1, <2>2, <2>3, <2>4, WithdrawalMoves
  <2>7. LifetimeCredited' = LifetimeCredited
    BY <2>2, DepositsStand
  <2>8. /\ books'.pending = books.pending - a /\ books'.payout = books.payout + a
        /\ books'.deposit = books.deposit
    BY <1>2, <2>2, <2>3 DEF TypeOK
  <2> QED BY <2>2, <2>3, <2>5, <2>6, <2>7, <2>8, BooksInNumbers, BooksAgreeIf
<1> QED BY <1>0, <1>1, <1>2 DEF Approve

LEMMA RejectBooks ==
  ASSUME IInv, IInv', BooksAgree, NEW k \in Desks, NEW w \in Withdrawals, Reject(k, w)
  PROVE  BooksAgree'
<1>1. TypeOK /\ TypeOK' /\ UNCHANGED dep
  BY DEF IInv, Reject
<1>2. PICK a \in Nat : a = wd[w].amount
  BY <1>1, RequestFields DEF TypeOK
<1>3. /\ wd'[w].status = "rejected" /\ wd'[w].amount = a
      /\ \A x \in Withdrawals \ {w} : wd'[x] = wd[x]
  BY <1>1, <1>2 DEF TypeOK, Requests, Reject
<1>4. WithStatus(Held) = WithStatus(Held)' + a /\ WithStatus(Held)' \in Nat
  <2>1. wd[w].status \in Held /\ wd'[w].status \notin Held
    BY <1>3 DEF Held, Reject
  <2> QED BY <1>1, <1>2, <1>3, <2>1, WithdrawalMoves
<1>5. WithStatus({"paid"})' = WithStatus({"paid"})
  <2>1. wd[w].status # "paid" /\ wd'[w].status # "paid"
    BY <1>3 DEF Reject
  <2> QED BY <1>1, <1>2, <1>3, <2>1, WithdrawalMoves
<1>6. LifetimeCredited' = LifetimeCredited
  BY <1>1, DepositsStand
<1>7. /\ books'.pending = books.pending - a /\ books'.payout = books.payout
      /\ books'.deposit = books.deposit /\ wallet' = wallet + a
  BY <1>1, <1>2 DEF TypeOK, Reject
<1> QED BY <1>1, <1>2, <1>4, <1>5, <1>6, <1>7, BooksInNumbers, BooksAgreeIf

LEMMA CreditBooks ==
  ASSUME IInv, IInv', BooksAgree, NEW d \in Deposits, MarkCredited(d)
  PROVE  BooksAgree'
<1>1. TypeOK /\ TypeOK' /\ UNCHANGED wd
  BY DEF IInv, MarkCredited
<1>2. PICK a \in Nat : a = dep[d].amount
  BY <1>1, OrderFields DEF TypeOK
<1>3. "credited" \in DepStatus /\ dep' = [dep EXCEPT ![d].status = "credited"]
  BY DEF DepStatus, MarkCredited
<1>4. /\ dep'[d].status = "credited" /\ dep'[d].amount = a
      /\ \A x \in Deposits \ {d} : dep'[x] = dep[x]
  BY <1>1, <1>2, <1>3, SetOrder DEF TypeOK
<1>5. LifetimeCredited' = LifetimeCredited + a /\ LifetimeCredited \in Nat
  BY <1>1, <1>2, <1>4, DepositMoves DEF MarkCredited
<1>6. /\ WithStatus(Held)' = WithStatus(Held)
      /\ WithStatus({"paid"})' = WithStatus({"paid"})
  BY <1>1, WithdrawalsStand
<1>7. /\ books'.pending = books.pending /\ books'.payout = books.payout
      /\ books'.deposit = books.deposit + a /\ wallet' = wallet + a
  BY <1>1, <1>2 DEF TypeOK, MarkCredited
<1> QED BY <1>1, <1>2, <1>5, <1>6, <1>7, BooksInNumbers, BooksAgreeIf

(* While an order is being placed, its invoice is not open to be paid, and *)
(* no other page has it: what AttachGatewayID overwrites, whatever its     *)
(* status, is never a credited order.                                      *)
OnePageAnOrder ==
  /\ \A d \in Deposits : dep[d].status = "credited" => invoice[d] = "paid"
  /\ \A t \in Tabs : tab[t].at \in {"ordered", "invoiced", "refused"} =>
       invoice[tab[t].id] \in {"none", "open"}
  /\ \A t \in Tabs : \A u \in Tabs \ {t} : tab[t].id = tab[u].id => tab[t].id = NoId

Placing == {"ordered", "invoiced", "refused"}

(* A page that goes idle, or on to something else, leaves the others be.   *)
LEMMA PageLeaves ==
  ASSUME OnePageAnOrder, NEW t \in Tabs, \A q \in Tabs \ {t} : tab'[q] = tab[q],
         tab'[t].id = NoId, tab'[t].at \notin Placing,
         \A d \in Deposits : dep'[d].status = "credited" => invoice'[d] = "paid",
         \A q \in Tabs \ {t} : tab[q].at \in Placing => invoice'[tab[q].id] \in {"none", "open"}
  PROVE  OnePageAnOrder'
<1>1. \A q \in Tabs : tab'[q].at \in Placing => invoice'[tab'[q].id] \in {"none", "open"}
  OBVIOUS
<1>2. ASSUME NEW q \in Tabs, NEW u \in Tabs \ {q}, tab'[q].id = tab'[u].id
      PROVE  tab'[q].id = NoId
  BY <1>2 DEF OnePageAnOrder
<1> QED BY <1>1, <1>2 DEF OnePageAnOrder, Placing

LEMMA PagesStand ==
  ASSUME OnePageAnOrder, UNCHANGED <<tab, dep, invoice>>
  PROVE  OnePageAnOrder'
BY DEF OnePageAnOrder

LEMMA PageAsks ==
  ASSUME OnePageAnOrder, NEW t \in Tabs, \A q \in Tabs \ {t} : tab'[q] = tab[q],
         tab'[t].id = NoId, tab'[t].at \notin Placing, UNCHANGED <<dep, invoice>>
  PROVE  OnePageAnOrder'
<1>1. \A d \in Deposits : dep'[d].status = "credited" => invoice'[d] = "paid"
  BY DEF OnePageAnOrder
<1>2. \A q \in Tabs \ {t} : tab[q].at \in Placing => invoice'[tab[q].id] \in {"none", "open"}
  BY DEF OnePageAnOrder, Placing
<1> QED BY <1>1, <1>2, PageLeaves

LEMMA CreatePendingPages ==
  ASSUME IInv, OnePageAnOrder, NEW t \in Tabs, CreatePending(t)
  PROVE  OnePageAnOrder'
<1>0. PICK d : d = NewID(Deposits, dep)
  OBVIOUS
<1>1. d \in Deposits /\ dep[d].status = "none"
  BY <1>0 DEF NewID, Unused, CreatePending
<1>2. invoice[d] = "none" /\ invoice' = invoice /\ \A q \in Tabs : tab[q].id # d
  BY <1>1 DEF IInv, OrdersExist, OrderOK, CreatePending
<1>3. /\ tab' = [tab EXCEPT ![t] = [tab[t] EXCEPT !.at = "ordered", !.id = d]]
      /\ dep' = [dep EXCEPT ![d] = [status |-> "pending", amount |-> tab[t].amount,
                                     gateway |-> tab[t].via]]
  BY <1>0 DEF CreatePending
<1>4. /\ tab'[t].id = d
      /\ \A q \in Tabs \ {t} : tab'[q] = tab[q]
  BY <1>3 DEF IInv, TypeOK, Handlers
<1>5. dep'[d].status = "pending" /\ \A x \in Deposits \ {d} : dep'[x] = dep[x]
  BY <1>1, <1>3 DEF IInv, TypeOK
<1>6. \A x \in Deposits : dep'[x].status = "credited" => invoice'[x] = "paid"
  BY <1>2, <1>5 DEF OnePageAnOrder
<1>7. \A q \in Tabs : tab'[q].at \in Placing => invoice'[tab'[q].id] \in {"none", "open"}
  BY <1>2, <1>4 DEF OnePageAnOrder, Placing
<1>8. \A q \in Tabs : \A u \in Tabs \ {q} : tab'[q].id = tab'[u].id => tab'[q].id = NoId
  BY <1>2, <1>4 DEF OnePageAnOrder
<1> QED BY <1>6, <1>7, <1>8 DEF OnePageAnOrder, Placing

LEMMA CreateInvoicePages ==
  ASSUME IInv, OnePageAnOrder, NEW t \in Tabs, CreateInvoice(t)
  PROVE  OnePageAnOrder'
<1>0. PICK d : d = tab[t].id
  OBVIOUS
<1>1. d \in Deposits /\ dep' = dep /\ invoice[d] \in {"none", "open"}
  BY <1>0 DEF IInv, OrdersExist, PageOK, OnePageAnOrder, CreateInvoice
<1>2. /\ \A q \in Tabs : tab'[q].id = tab[q].id
      /\ \A q \in Tabs \ {t} : tab'[q] = tab[q]
  BY DEF IInv, TypeOK, Handlers, CreateInvoice
<1>3. invoice'[d] \in {"none", "open"} /\ \A x \in Deposits \ {d} : invoice'[x] = invoice[x]
  BY <1>0, <1>1 DEF IInv, TypeOK, CreateInvoice
<1>4. \A x \in Deposits : dep'[x].status = "credited" => invoice'[x] = "paid"
  BY <1>1, <1>3 DEF OnePageAnOrder
<1>5. ASSUME NEW q \in Tabs, tab'[q].at \in Placing
      PROVE  invoice'[tab'[q].id] \in {"none", "open"}
  <2>1. CASE tab[q].id = d
    BY <1>2, <1>3, <2>1
  <2>2. CASE tab[q].id # d
    <3>1. tab'[q] = tab[q] /\ tab[q].at \in Placing
      BY <1>0, <1>2, <1>5, <2>2
    <3>2. tab[q].id \in Deposits
      BY <3>1 DEF IInv, OrdersExist, PageOK, Placing
    <3> QED BY <1>3, <2>2, <3>1, <3>2 DEF OnePageAnOrder, Placing
  <2> QED BY <2>1, <2>2
<1>6. \A q \in Tabs : \A u \in Tabs \ {q} : tab'[q].id = tab'[u].id => tab'[q].id = NoId
  BY <1>2 DEF OnePageAnOrder
<1> QED BY <1>4, <1>5, <1>6 DEF OnePageAnOrder, Placing

LEMMA AttachPages ==
  ASSUME IInv, OnePageAnOrder, NEW t \in Tabs, AttachGatewayID(t)
  PROVE  OnePageAnOrder' /\ dep[tab[t].id].status # "credited"
<1>0. PICK d : d = tab[t].id
  OBVIOUS
<1>1. d \in Deposits /\ invoice[d] \in {"none", "open"} /\ dep[d].status # "credited"
  BY <1>0 DEF IInv, OrdersExist, PageOK, OnePageAnOrder, AttachGatewayID
<1>2. /\ tab'[t].id = NoId /\ tab'[t].at \notin Placing
      /\ \A q \in Tabs \ {t} : tab'[q] = tab[q]
  BY DEF IInv, TypeOK, AttachGatewayID, Idle, Placing
<1>3. \A x \in Deposits \ {d} : invoice'[x] = invoice[x]
  BY <1>0, <1>1 DEF IInv, TypeOK, AttachGatewayID
<1>4. dep'[d].status # "credited" /\ \A x \in Deposits \ {d} : dep'[x] = dep[x]
  BY <1>0, <1>1 DEF IInv, TypeOK, Orders, AttachGatewayID
<1>5. \A x \in Deposits : dep'[x].status = "credited" => invoice'[x] = "paid"
  BY <1>3, <1>4 DEF OnePageAnOrder
<1>6. ASSUME NEW q \in Tabs \ {t}, tab[q].at \in Placing
      PROVE  invoice'[tab[q].id] \in {"none", "open"}
  <2>1. tab[q].id \in Deposits
    BY <1>6 DEF IInv, OrdersExist, PageOK, Placing
  <2>2. tab[q].id # d
    BY <1>0, <1>1, CashierAssumption DEF OnePageAnOrder
  <2> QED BY <1>3, <1>6, <2>1, <2>2 DEF OnePageAnOrder, Placing
<1> QED BY <1>0, <1>1, <1>2, <1>5, <1>6, PageLeaves

LEMMA FailOrderPages ==
  ASSUME IInv, OnePageAnOrder, NEW t \in Tabs, FailOrder(t)
  PROVE  OnePageAnOrder'
<1>0. PICK d : d = tab[t].id
  OBVIOUS
<1>1. d \in Deposits /\ invoice' = invoice
  BY <1>0 DEF IInv, OrdersExist, PageOK, FailOrder
<1>2. /\ tab'[t].id = NoId /\ tab'[t].at \notin Placing
      /\ \A q \in Tabs \ {t} : tab'[q] = tab[q]
  BY DEF IInv, TypeOK, FailOrder, Idle, Placing
<1>3. \A x \in Deposits : dep'[x].status = "credited" => dep[x].status = "credited"
  BY <1>0, <1>1 DEF IInv, TypeOK, Orders, FailOrder
<1>4. \A x \in Deposits : dep'[x].status = "credited" => invoice'[x] = "paid"
  BY <1>1, <1>3 DEF OnePageAnOrder
<1>5. \A q \in Tabs \ {t} : tab[q].at \in Placing => invoice'[tab[q].id] \in {"none", "open"}
  BY <1>1 DEF OnePageAnOrder, Placing
<1> QED BY <1>2, <1>4, <1>5, PageLeaves

LEMMA GatewayPages ==
  ASSUME IInv, OnePageAnOrder, NEW d \in Deposits, Pay(d) \/ MarkCredited(d) \/ MarkFailed(d)
  PROVE  OnePageAnOrder'
<1>1. tab' = tab /\ invoice[d] # "none"
  BY DEF Pay, MarkCredited, MarkFailed
<1>2. \A x \in Deposits \ {d} : dep'[x] = dep[x] /\ invoice'[x] = invoice[x]
  BY DEF IInv, TypeOK, Pay, MarkCredited, MarkFailed
<1>3. dep'[d].status = "credited" => invoice'[d] = "paid"
  <2>1. CASE Pay(d)
    BY <2>1 DEF IInv, TypeOK, OnePageAnOrder, Pay
  <2>2. CASE MarkCredited(d)
    BY <2>2 DEF MarkCredited
  <2>3. CASE MarkFailed(d)
    BY <2>3 DEF IInv, TypeOK, Orders, MarkFailed
  <2> QED BY <2>1, <2>2, <2>3
<1>4. invoice' = invoice \/ invoice[d] = "payable"
  BY DEF Pay, MarkCredited, MarkFailed
<1>5. \A q \in Tabs : tab'[q].at \in Placing => invoice'[tab'[q].id] \in {"none", "open"}
  <2> SUFFICES ASSUME NEW q \in Tabs, tab[q].at \in Placing
               PROVE  invoice'[tab[q].id] \in {"none", "open"}
    BY <1>1
  <2>1. tab[q].id \in Deposits /\ invoice[tab[q].id] \in {"none", "open"}
    BY DEF IInv, OrdersExist, PageOK, OnePageAnOrder, Placing
  <2> QED BY <1>2, <1>4, <2>1
<1>6. \A x \in Deposits : dep'[x].status = "credited" => invoice'[x] = "paid"
  BY <1>2, <1>3 DEF OnePageAnOrder
<1> QED BY <1>1, <1>5, <1>6 DEF OnePageAnOrder, Placing

LEMMA CrashPages ==
  ASSUME IInv, OnePageAnOrder, Crash
  PROVE  OnePageAnOrder'
<1>1. CASE tab' = tab
  BY <1>1, PagesStand DEF Crash
<1>2. CASE \E t \in Tabs : tab' = [tab EXCEPT ![t] = Idle]
  <2>1. PICK t \in Tabs : tab' = [tab EXCEPT ![t] = Idle]
    BY <1>2
  <2>2. /\ tab'[t].id = NoId /\ tab'[t].at \notin Placing
        /\ \A q \in Tabs \ {t} : tab'[q] = tab[q]
    BY <2>1 DEF IInv, TypeOK, Idle, Placing
  <2> QED BY <2>2, PageAsks DEF Crash
<1> QED BY <1>1, <1>2 DEF Crash

LEMMA AskPages ==
  ASSUME IInv, OnePageAnOrder, NEW t \in Tabs,
         AskWithdraw(t) \/ AskDeposit(t) \/ CreateRequest(t)
  PROVE  OnePageAnOrder'
<1>1. UNCHANGED <<dep, invoice>>
  BY DEF AskWithdraw, AskDeposit, CreateRequest
<1>2. tab \in [Tabs -> Handlers(TabSteps, Deposits)]
  BY DEF IInv, TypeOK
<1>3. /\ tab'[t].id = NoId /\ tab'[t].at \notin Placing
      /\ \A q \in Tabs \ {t} : tab'[q] = tab[q]
  <2>1. CASE AskWithdraw(t)
    <3>1. PICK a, r : tab' = [tab EXCEPT ![t] =
                        [at |-> "within limit", amount |-> a, via |-> r, id |-> NoId]]
      BY <2>1 DEF AskWithdraw
    <3> QED BY <1>2, <3>1 DEF Placing
  <2>2. CASE AskDeposit(t)
    <3>1. PICK a, r : tab' = [tab EXCEPT ![t] =
                        [at |-> "may deposit", amount |-> a, via |-> r, id |-> NoId]]
      BY <2>2 DEF AskDeposit
    <3> QED BY <1>2, <3>1 DEF Placing
  <2>3. CASE CreateRequest(t)
    BY <1>2, <2>3 DEF CreateRequest, Idle, Placing
  <2> QED BY <2>1, <2>2, <2>3
<1> QED BY <1>1, <1>3, PageAsks

LEMMA InitPages == Init => OnePageAnOrder
BY DEF Init, OnePageAnOrder, Idle

LEMMA StepPages == IInv /\ OnePageAnOrder /\ [Next]_vars => OnePageAnOrder'
<1> SUFFICES ASSUME IInv, OnePageAnOrder, [Next]_vars PROVE OnePageAnOrder'
  OBVIOUS
<1>1. CASE UNCHANGED <<tab, dep, invoice>>
  BY <1>1, PagesStand
<1>2. CASE \E t \in Tabs :
             \/ AskWithdraw(t) \/ CreateRequest(t)
             \/ AskDeposit(t) \/ CreatePending(t) \/ CreateInvoice(t)
             \/ AttachGatewayID(t) \/ FailOrder(t)
  BY <1>2, AskPages, CreatePendingPages, CreateInvoicePages, AttachPages, FailOrderPages
<1>3. CASE \E k \in Desks :
             \/ CreatePayout(k) \/ ReleaseClaim(k) \/ Approve(k)
             \/ \E w \in Withdrawals : ClaimForPayout(k, w) \/ Reject(k, w)
  BY <1>1, <1>3 DEF CreatePayout, ReleaseClaim, Approve, ClaimForPayout, Reject
<1>4. CASE \E d \in Deposits : Pay(d) \/ MarkCredited(d) \/ MarkFailed(d)
  BY <1>4, GatewayPages
<1>5. CASE Crash \/ UNCHANGED vars
  BY <1>1, <1>5, CrashPages DEF vars
<1> QED BY <1>2, <1>3, <1>4, <1>5 DEF Next

(* The orders' steps leave the books as they are. *)
LEMMA OrderBooks ==
  ASSUME IInv, IInv', OnePageAnOrder, BooksAgree, NEW t \in Tabs,
         CreatePending(t) \/ AttachGatewayID(t) \/ FailOrder(t)
  PROVE  BooksAgree'
<1>1. TypeOK /\ TypeOK' /\ UNCHANGED <<wallet, books, wd>>
  BY DEF IInv, CreatePending, AttachGatewayID, FailOrder
<1>2. CASE dep' = dep
  BY <1>1, <1>2, BooksUntouched
<1>3. CASE dep' # dep /\ CreatePending(t)
  <2>0. PICK d : d = NewID(Deposits, dep)
    OBVIOUS
  <2>1. d \in Deposits /\ dep[d].status = "none"
    BY <1>3, <2>0 DEF NewID, Unused, CreatePending
  <2>2. dep'[d].status = "pending" /\ \A x \in Deposits \ {d} : dep'[x] = dep[x]
    BY <1>1, <1>3, <2>0, <2>1 DEF TypeOK, CreatePending
  <2> QED BY <1>1, <2>1, <2>2, OrderMoves
<1>4. CASE dep' # dep /\ AttachGatewayID(t)
  <2>0. PICK d : d = tab[t].id
    OBVIOUS
  <2>1. d \in Deposits /\ dep[d].status # "credited"
    BY <1>4, <2>0, AttachPages DEF IInv, OrdersExist, PageOK, AttachGatewayID
  <2>2. "waiting" \in DepStatus /\ dep' = [dep EXCEPT ![d].status = "waiting"]
    BY <1>4, <2>0 DEF AttachGatewayID, DepStatus
  <2>3. dep'[d].status = "waiting" /\ \A x \in Deposits \ {d} : dep'[x] = dep[x]
    BY <1>1, <2>1, <2>2, SetOrder DEF TypeOK
  <2> QED BY <1>1, <2>1, <2>3, OrderMoves
<1>5. CASE dep' # dep /\ FailOrder(t)
  <2>0. PICK d : d = tab[t].id
    OBVIOUS
  <2>1. d \in Deposits
    BY <1>5, <2>0 DEF IInv, OrdersExist, PageOK, FailOrder
  <2>2. /\ "failed" \in DepStatus /\ dep[d].status # "credited"
        /\ dep' = [dep EXCEPT ![d].status = "failed"]
    BY <1>5, <2>0 DEF FailOrder, DepStatus
  <2>3. dep'[d].status = "failed" /\ \A x \in Deposits \ {d} : dep'[x] = dep[x]
    BY <1>1, <2>1, <2>2, SetOrder DEF TypeOK
  <2> QED BY <1>1, <2>1, <2>2, <2>3, OrderMoves
<1> QED BY <1>2, <1>3, <1>4, <1>5

LEMMA FailBooks ==
  ASSUME IInv, IInv', BooksAgree, NEW d \in Deposits, MarkFailed(d)
  PROVE  BooksAgree'
<1>1. TypeOK /\ TypeOK' /\ UNCHANGED <<wallet, books, wd>>
  BY DEF IInv, MarkFailed
<1>2. /\ "failed" \in DepStatus /\ dep[d].status # "credited"
      /\ dep' = [dep EXCEPT ![d].status = "failed"]
  BY DEF MarkFailed, DepStatus
<1>3. dep'[d].status = "failed" /\ \A x \in Deposits \ {d} : dep'[x] = dep[x]
  BY <1>1, <1>2, SetOrder DEF TypeOK
<1> QED BY <1>1, <1>2, <1>3, OrderMoves

LEMMA InitBooks == Init => BooksAgree
<1> SUFFICES ASSUME Init PROVE BooksAgree
  OBVIOUS
<1>1. /\ StatusIn(wd, Withdrawals, Held) = {} /\ StatusIn(wd, Withdrawals, {"paid"}) = {}
      /\ StatusIn(dep, Deposits, Credited) = {}
  BY DEF Init, StatusIn, Held, Credited
<1>2. WithStatus(Held) = 0 /\ WithStatus({"paid"}) = 0 /\ LifetimeCredited = 0
  BY <1>1, WithdrawalSums, CreditedSums, RowSumOfNone
<1> QED BY <1>2, CashierAssumption DEF Init, BooksAgree, Held

LEMMA StepBooks == IInv /\ IInv' /\ OnePageAnOrder /\ BooksAgree /\ [Next]_vars => BooksAgree'
<1> SUFFICES ASSUME IInv, IInv', OnePageAnOrder, BooksAgree, [Next]_vars PROVE BooksAgree'
  OBVIOUS
<1>1. CASE UNCHANGED <<wallet, books, wd, dep>>
  BY <1>1, BooksUntouched
<1>2. CASE \E t \in Tabs :
             \/ AskWithdraw(t) \/ CreateRequest(t)
             \/ AskDeposit(t) \/ CreatePending(t) \/ CreateInvoice(t)
             \/ AttachGatewayID(t) \/ FailOrder(t)
  BY <1>1, <1>2, CreateRequestBooks, OrderBooks DEF AskWithdraw, AskDeposit, CreateInvoice
<1>3. CASE \E k \in Desks :
             \/ CreatePayout(k) \/ ReleaseClaim(k) \/ Approve(k)
             \/ \E w \in Withdrawals : ClaimForPayout(k, w) \/ Reject(k, w)
  BY <1>1, <1>3, ReleaseBooks, ApproveBooks, ClaimBooks, RejectBooks DEF CreatePayout
<1>4. CASE \E d \in Deposits : Pay(d) \/ MarkCredited(d) \/ MarkFailed(d)
  BY <1>1, <1>4, CreditBooks, FailBooks DEF Pay
<1>5. CASE Crash \/ UNCHANGED vars
  BY <1>1, <1>5 DEF Crash, vars
<1> QED BY <1>2, <1>3, <1>4, <1>5 DEF Next

(* The house's accounts agree with the requests, and the wallet with both  *)
(* (CreateRequest, Approve and Reject of store/withdrawal.go, MarkCredited *)
(* of store/deposit.go), whatever fails, stops or comes twice.             *)
THEOREM BooksAlwaysAgree == Spec => []BooksAgree
BY InitInv, StepInv, InitPages, StepPages, InitBooks, StepBooks, PTL DEF Spec

----------------------------------------------------------------------------
(* The weekly limit. *)

Counted == {"pending", "paying", "payout_failed", "paid"}
InFlight(tabs) == {t \in Tabs : tabs[t].at = "within limit"}
Largest == CHOOSE a \in Amounts : \A b \in Amounts : b <= a
Leeway == (Cardinality(Tabs) - 1) * Largest

(* What counts against the limit: the rows and the requests under way.     *)
LEMMA LimitInSums ==
  /\ LimitExceededOnlyTogether <=>
       WithStatus(Counted) + RowSum(tab, InFlight(tab)) <= WeeklyLimit + Leeway
  /\ LimitExceededOnlyTogether' <=>
       WithStatus(Counted)' + RowSum(tab', InFlight(tab')) <= WeeklyLimit + Leeway
<1>1. ASSUME NEW S PROVE Sum(S, LAMBDA t : tab[t].amount) = RowSum(tab, S)
  BY DEF RowSum, Sum, MapThenSumSet, MapThenFoldSet
<1>2. LimitExceededOnlyTogether <=>
        WithStatus(Counted) + Sum(InFlight(tab), LAMBDA t : tab[t].amount)
          <= WeeklyLimit + Leeway
  BY DEF LimitExceededOnlyTogether, InFlight, Largest, Leeway, Counted
<1>3. LimitExceededOnlyTogether' <=>
        WithStatus(Counted)' + RowSum(tab', InFlight(tab')) <= WeeklyLimit + Leeway
  BY DEF LimitExceededOnlyTogether, InFlight, Largest, Leeway, Counted, RowSum, Sum,
         MapThenSumSet, MapThenFoldSet
<1> QED BY <1>1, <1>2, <1>3

LEMMA LargestAmount ==
  Largest \in Nat /\ \A a \in Amounts : a <= Largest
<1>1. Largest \in Amounts /\ \A a \in Amounts : a <= Largest
  BY FiniteAssumption DEF Largest
<1> QED BY <1>1, CashierAssumption

LEMMA Monotone ==
  ASSUME NEW k \in Nat, NEW n \in Nat, k <= n, NEW top \in Nat
  PROVE  k * top <= n * top
<1>1. PICK m \in Nat : n = k + m
  <2>1. n - k \in Nat /\ n = k + (n - k)
    OBVIOUS
  <2> QED BY <2>1
<1>2. n * top = k * top + m * top /\ m * top \in Nat /\ k * top \in Nat
  BY <1>1
<1> QED BY <1>2

InOrder(tabs) == \A q \in Tabs : tabs[q].at = "within limit" => tabs[q].amount \in Amounts

(* Other pages than t have at most the leeway under way. *)
LEMMA OthersInFlight ==
  ASSUME NEW t \in Tabs, NEW rows, InOrder(rows)
  PROVE  RowSum(rows, InFlight(rows) \ {t}) <= Leeway /\ RowSum(rows, InFlight(rows) \ {t}) \in Nat
<1> DEFINE others == InFlight(rows) \ {t}
<1>1. others \in SUBSET (Tabs \ {t}) /\ \A q \in others : rows[q].amount \in Amounts
  BY DEF InFlight, InOrder
<1>2. /\ IsFiniteSet(Tabs \ {t}) /\ Cardinality(Tabs \ {t}) = Cardinality(Tabs) - 1
      /\ Cardinality(Tabs \ {t}) \in Nat
  BY FiniteAssumption, FS_RemoveElement, FS_CardinalityType
<1>3. /\ IsFiniteSet(others) /\ Cardinality(others) <= Cardinality(Tabs \ {t})
      /\ Cardinality(others) \in Nat
  BY <1>1, <1>2, FS_Subset, FS_CardinalityType
<1>4. \A q \in others : rows[q].amount \in Nat /\ rows[q].amount <= Largest
  BY <1>1, LargestAmount, CashierAssumption
<1> HIDE DEF others
<1>5. Countable(rows, others) /\ others \in SUBSET others
  BY <1>4 DEF Countable
<1>6. RowSum(rows, others) <= Cardinality(others) * Largest
  BY <1>3, <1>4, <1>5, LargestAmount, RowSumBound
<1>7. Cardinality(others) * Largest <= Cardinality(Tabs \ {t}) * Largest
  BY <1>2, <1>3, LargestAmount, Monotone
<1>8. PICK sum \in Nat, k \in Nat, m \in Nat, top \in Nat :
        /\ sum = RowSum(rows, others) /\ k = Cardinality(others)
        /\ m = Cardinality(Tabs \ {t}) /\ top = Largest
  BY <1>2, <1>3, <1>5, LargestAmount, RowSumType
<1>9. PICK u \in Nat, v \in Nat : u = k * top /\ v = m * top
  OBVIOUS
<1>10. Leeway = v
  BY <1>2, <1>8, <1>9 DEF Leeway
<1>11. sum <= u /\ u <= v
  BY <1>6, <1>7, <1>8, <1>9
<1>12. sum <= v
  BY <1>11
<1> QED BY <1>8, <1>10, <1>12 DEF others

LEMMA LeewayType == Leeway \in Nat /\ WeeklyLimit \in Nat
<1>1. PICK t \in Tabs : TRUE
  BY FiniteAssumption
<1>2. PICK n \in Nat : n = Cardinality(Tabs) - 1
  <2>1. /\ IsFiniteSet(Tabs \ {t}) /\ Cardinality(Tabs \ {t}) = Cardinality(Tabs) - 1
    BY <1>1, FiniteAssumption, FS_RemoveElement
  <2>2. Cardinality(Tabs \ {t}) \in Nat
    BY <2>1, FS_CardinalityType
  <2> QED BY <2>1, <2>2
<1>3. PICK top \in Nat : top = Largest
  BY LargestAmount
<1>4. n * top \in Nat
  OBVIOUS
<1> QED BY <1>2, <1>3, <1>4, CashierAssumption DEF Leeway

(* One page moves. *)
NotInFlight(t, tabs) == tabs[t].at # "within limit"

LEMMA FlightMoves ==
  ASSUME NEW rows, NEW new, Countable(rows, Tabs), Countable(new, Tabs),
         NEW t \in Tabs, OthersStay(t, Tabs, rows, new)
  PROVE  \E rest \in Nat :
           /\ RowSum(rows, InFlight(rows)) =
                rest + (IF rows[t].at = "within limit" THEN rows[t].amount ELSE 0)
           /\ RowSum(new, InFlight(new)) =
                rest + (IF new[t].at = "within limit" THEN new[t].amount ELSE 0)
<1> DEFINE S == InFlight(rows)
           R == InFlight(new)
<1>1. AlikeBut(t, Tabs, S, R)
  BY DEF InFlight, OthersStay, AlikeBut
<1>2. SameAmounts(rows, new, Tabs \ {t}) /\ IsFiniteSet(Tabs)
  BY FiniteAssumption DEF OthersStay, SameAmounts
<1>5. /\ t \in S <=> rows[t].at = "within limit"
      /\ t \in R <=> new[t].at = "within limit"
  BY DEF InFlight
<1> HIDE DEF S, R
<1>3. PICK rest \in Nat :
        /\ RowSum(rows, S) = rest + (IF t \in S THEN rows[t].amount ELSE 0)
        /\ RowSum(new, R) = rest + (IF t \in R THEN new[t].amount ELSE 0)
  BY <1>1, <1>2, RowSumMoves
<1>4. /\ RowSum(rows, S) = rest + (IF rows[t].at = "within limit" THEN rows[t].amount ELSE 0)
      /\ RowSum(new, R) = rest + (IF new[t].at = "within limit" THEN new[t].amount ELSE 0)
  BY <1>3, <1>5
<1> QED BY <1>4 DEF S, R

LEMMA TabMoves ==
  ASSUME TypeOK, TypeOK', NEW t \in Tabs, OthersStay(t, Tabs, tab, tab'), NotInFlight(t, tab')
  PROVE  \E rest \in Nat, more \in Nat :
           /\ RowSum(tab, InFlight(tab)) = rest + more
           /\ RowSum(tab', InFlight(tab')) = rest
           /\ tab[t].at = "within limit" => more = tab[t].amount
<1>1. Countable(tab, Tabs) /\ Countable(tab', Tabs)
  BY HandlerFields DEF TypeOK, Countable
<1>2. PICK rest \in Nat :
        /\ RowSum(tab, InFlight(tab)) =
             rest + (IF tab[t].at = "within limit" THEN tab[t].amount ELSE 0)
        /\ RowSum(tab', InFlight(tab')) =
             rest + (IF tab'[t].at = "within limit" THEN tab'[t].amount ELSE 0)
  BY <1>1, FlightMoves
<1>3. PICK more \in Nat :
        more = IF tab[t].at = "within limit" THEN tab[t].amount ELSE 0
  BY <1>1 DEF Countable
<1>4. RowSum(tab', InFlight(tab')) = rest + 0
  BY <1>2 DEF NotInFlight
<1>5. RowSum(tab', InFlight(tab')) = rest
  BY <1>4
<1>6. RowSum(tab, InFlight(tab)) = rest + more
  BY <1>2, <1>3
<1> QED BY <1>3, <1>5, <1>6

LEMMA LimitTypes ==
  ASSUME TypeOK
  PROVE  WithStatus(Counted) \in Nat /\ RowSum(tab, InFlight(tab)) \in Nat
<1>1. Countable(wd, Withdrawals) /\ Countable(tab, Tabs)
  BY RowsCountable
<1>2. IsFiniteSet(StatusIn(wd, Withdrawals, Counted)) /\ IsFiniteSet(InFlight(tab))
  BY FiniteAssumption, FS_Subset DEF StatusIn, InFlight
<1>3. Countable(wd, StatusIn(wd, Withdrawals, Counted)) /\ Countable(tab, InFlight(tab))
  BY <1>1 DEF Countable, StatusIn, InFlight
<1> QED BY <1>2, <1>3, RowSumType, WithdrawalSums

(* What counts does not grow: the limit is exceeded no further. *)
LEMMA LimitIf ==
  ASSUME TypeOK, LimitExceededOnlyTogether,
         WithStatus(Counted)' \in Nat, RowSum(tab', InFlight(tab')) \in Nat,
         WithStatus(Counted)' + RowSum(tab', InFlight(tab'))
           <= WithStatus(Counted) + RowSum(tab, InFlight(tab))
  PROVE  LimitExceededOnlyTogether'
<1>1. PICK a \in Nat, b \in Nat, c \in Nat, d \in Nat, e \in Nat :
        /\ a = WithStatus(Counted) /\ b = RowSum(tab, InFlight(tab))
        /\ c = WithStatus(Counted)' /\ d = RowSum(tab', InFlight(tab'))
        /\ e = WeeklyLimit + Leeway
  BY LimitTypes, LeewayType
<1>2. a + b <= e /\ c + d <= a + b
  BY <1>1, LimitInSums
<1>3. c + d <= e
  BY <1>2
<1> QED BY <1>1, <1>3, LimitInSums

LEMMA LimitStands ==
  ASSUME LimitExceededOnlyTogether, UNCHANGED <<wd, tab>>
  PROVE  LimitExceededOnlyTogether'
<1>1. WithStatus(Counted)' = WithStatus(Counted)
  BY WithdrawalsStand
<1>2. RowSum(tab', InFlight(tab')) = RowSum(tab, InFlight(tab))
  BY DEF InFlight
<1> QED BY <1>1, <1>2, LimitInSums

(* Rows move between the statuses that count, or out of them. *)
LEMMA LimitRowMoves ==
  ASSUME TypeOK, TypeOK', LimitExceededOnlyTogether, tab' = tab,
         NEW w \in Withdrawals, \A x \in Withdrawals \ {w} : wd'[x] = wd[x],
         wd[w].status \in Counted, wd'[w].amount = wd[w].amount
  PROVE  LimitExceededOnlyTogether'
<1>1. PICK a \in Nat : a = wd[w].amount /\ a = wd'[w].amount
  BY RequestFields DEF TypeOK
<1>2. PICK rest \in Nat :
        /\ WithStatus(Counted) = rest + a
        /\ WithStatus(Counted)' = rest + (IF wd'[w].status \in Counted THEN a ELSE 0)
  BY <1>1, WithdrawalMoves
<1>3. WithStatus(Counted)' \in Nat /\ WithStatus(Counted)' <= WithStatus(Counted)
  BY <1>1, <1>2
<1>4. PICK n \in Nat : n = RowSum(tab, InFlight(tab)) /\ n = RowSum(tab', InFlight(tab'))
  BY LimitTypes DEF InFlight
<1>5. WithStatus(Counted) \in Nat
  BY LimitTypes
<1>6. WithStatus(Counted)' + n <= WithStatus(Counted) + n
  BY <1>3, <1>4, <1>5
<1> QED BY <1>3, <1>4, <1>6, LimitIf

(* A page that has no request under way afterwards. *)
LEMMA LimitPageMoves ==
  ASSUME TypeOK, TypeOK', LimitExceededOnlyTogether, wd' = wd,
         NEW t \in Tabs, OthersStay(t, Tabs, tab, tab'), NotInFlight(t, tab')
  PROVE  LimitExceededOnlyTogether'
<1>1. PICK rest \in Nat, more \in Nat :
        /\ RowSum(tab, InFlight(tab)) = rest + more
        /\ RowSum(tab', InFlight(tab')) = rest
  BY TabMoves
<1>2. PICK n \in Nat : n = WithStatus(Counted) /\ n = WithStatus(Counted)'
  BY LimitTypes, WithdrawalsStand
<1>3. n + rest <= n + (rest + more)
  OBVIOUS
<1> QED BY <1>1, <1>2, <1>3, LimitIf

(* The limit is read: what is under way on other pages is the leeway.      *)
LEMMA AskWithdrawLimit ==
  ASSUME IInv, IInv', NEW t \in Tabs, AskWithdraw(t)
  PROVE  LimitExceededOnlyTogether'
<1>1. PICK a \in Amounts, r \in Rails :
        /\ RecentWithdrawals + a <= WeeklyLimit
        /\ tab' = [tab EXCEPT ![t] =
             [at |-> "within limit", amount |-> a, via |-> r, id |-> NoId]]
  BY DEF AskWithdraw
<1>2. /\ tab'[t].at = "within limit" /\ tab'[t].amount = a
      /\ \A q \in Tabs \ {t} : tab'[q] = tab[q]
  BY <1>1 DEF IInv, TypeOK
<1>3. RecentWithdrawals = WithStatus(Counted)
  <2>1. {w \in Withdrawals : wd[w].status \notin {"none", "rejected"}}
          = {w \in Withdrawals : wd[w].status \in Counted}
    BY RequestFields DEF IInv, TypeOK, WdStatus, Counted
  <2> QED BY <2>1 DEF RecentWithdrawals, WithStatus
<1>4. WithStatus(Counted)' = WithStatus(Counted)
  BY WithdrawalsStand DEF AskWithdraw
<1>5. PICK n \in Nat : n = WithStatus(Counted)
  BY LimitTypes DEF IInv
<1>6. PICK rest \in Nat : rest = RowSum(tab', InFlight(tab') \ {t}) /\ rest <= Leeway
  <2>1. InOrder(tab')
    BY DEF IInv, OrdersExist, PageOK, InOrder
  <2> QED BY <2>1, OthersInFlight
<1>7. RowSum(tab', InFlight(tab')) = a + rest
  <2>1. /\ IsFiniteSet(InFlight(tab')) /\ t \in InFlight(tab')
        /\ InFlight(tab') \in SUBSET Tabs
    BY <1>2, FiniteAssumption, FS_Subset DEF InFlight
  <2>2. Countable(tab', InFlight(tab'))
    BY <2>1, HandlerFields DEF IInv, TypeOK, Countable
  <2>3. RowSum(tab', InFlight(tab')) = tab'[t].amount + RowSum(tab', InFlight(tab') \ {t})
    BY <2>1, <2>2, RowSumOne
  <2> QED BY <1>2, <1>6, <2>3
<1>8. n + (a + rest) <= WeeklyLimit + Leeway
  <2>1. PICK b \in Nat, u \in Nat, v \in Nat : b = a /\ u = WeeklyLimit /\ v = Leeway
    BY LeewayType, CashierAssumption
  <2>2. n + b <= u /\ rest <= v
    BY <1>1, <1>3, <1>5, <1>6, <2>1
  <2>3. n + (b + rest) <= u + v
    BY <2>2
  <2> QED BY <2>1, <2>3
<1> QED BY <1>4, <1>5, <1>7, <1>8, LimitInSums

(* A request made moves from the page to the rows. *)
LEMMA CreateRequestLimit ==
  ASSUME IInv, IInv', LimitExceededOnlyTogether, NEW t \in Tabs, CreateRequest(t)
  PROVE  LimitExceededOnlyTogether'
<1>0. PICK a \in Nat : a = tab[t].amount
  BY HandlerFields DEF IInv, TypeOK
<1>5. PICK w, row : /\ w = NewID(Withdrawals, wd)
                    /\ row = [status |-> "pending", amount |-> a, rail |-> tab[t].via]
  OBVIOUS
<1>1. tab[t].at = "within limit" /\ NotInFlight(t, tab') /\ OthersStay(t, Tabs, tab, tab')
  BY DEF IInv, TypeOK, CreateRequest, Idle, NotInFlight, OthersStay
<1>2. TypeOK /\ TypeOK'
  BY DEF IInv
<1>3. CASE UNCHANGED <<wallet, wd, books>>
  BY <1>1, <1>2, <1>3, LimitPageMoves
<1>4. CASE /\ Unused(Withdrawals, wd) # {}
           /\ wd' = [wd EXCEPT ![w] = row]
  <2>1. w \in Withdrawals /\ wd[w].status = "none"
    BY <1>4, <1>5 DEF NewID, Unused
  <2>2. /\ wd'[w].status = "pending" /\ wd'[w].amount = a
        /\ \A x \in Withdrawals \ {w} : wd'[x] = wd[x]
    BY <1>2, <1>4, <1>5, <2>1 DEF TypeOK
  <2>3. wd[w].status \notin Counted /\ wd'[w].status \in Counted
    BY <2>1, <2>2 DEF Counted
  <2>4. PICK rows \in Nat :
          WithStatus(Counted) = rows /\ WithStatus(Counted)' = rows + a
    <3>1. PICK rows \in Nat :
            /\ WithStatus(Counted) =
                 rows + (IF wd[w].status \in Counted THEN wd[w].amount ELSE 0)
            /\ WithStatus(Counted)' =
                 rows + (IF wd'[w].status \in Counted THEN wd'[w].amount ELSE 0)
      BY <1>2, <2>1, <2>2, WithdrawalMoves
    <3>2. WithStatus(Counted) = rows + 0 /\ WithStatus(Counted)' = rows + a
      BY <2>2, <2>3, <3>1
    <3> QED BY <3>2
  <2>5. PICK rest \in Nat :
          RowSum(tab, InFlight(tab)) = rest + a /\ RowSum(tab', InFlight(tab')) = rest
    BY <1>0, <1>1, <1>2, TabMoves
  <2>6. (rows + a) + rest <= rows + (rest + a) /\ rows + a \in Nat
    OBVIOUS
  <2> QED BY <1>2, <2>4, <2>5, <2>6, LimitIf
<1> QED BY <1>0, <1>3, <1>4, <1>5 DEF CreateRequest

LEMMA DeskLimit ==
  ASSUME IInv, IInv', LimitExceededOnlyTogether, NEW k \in Desks,
         \/ CreatePayout(k) \/ ReleaseClaim(k) \/ Approve(k)
         \/ \E w \in Withdrawals : ClaimForPayout(k, w) \/ Reject(k, w)
  PROVE  LimitExceededOnlyTogether'
<1>1. TypeOK /\ TypeOK' /\ tab' = tab
  BY DEF IInv, CreatePayout, ReleaseClaim, Approve, ClaimForPayout, Reject
<1>2. CASE wd' = wd
  BY <1>1, <1>2, LimitStands
<1>3. CASE \E w \in Withdrawals, s \in WdStatus :
             wd[w].status \in Counted /\ wd' = [wd EXCEPT ![w].status = s]
  <2>1. PICK w \in Withdrawals, s \in WdStatus :
             wd[w].status \in Counted /\ wd' = [wd EXCEPT ![w].status = s]
    BY <1>3
  <2>2. wd'[w].amount = wd[w].amount /\ \A x \in Withdrawals \ {w} : wd'[x] = wd[x]
    BY <1>1, <2>1 DEF TypeOK, Requests
  <2> QED BY <1>1, <2>1, <2>2, LimitRowMoves
<1>4. CASE wd' # wd /\ (ReleaseClaim(k) \/ Approve(k))
  <2>1. desk[k].id \in Withdrawals /\ wd[desk[k].id].status = "paying"
    BY <1>4 DEF IInv, ClaimIsExclusive, ReleaseClaim, Approve, Idle
  <2>2. \E s \in WdStatus : wd' = [wd EXCEPT ![desk[k].id].status = s]
    BY <1>4 DEF ReleaseClaim, Approve, WdStatus
  <2> QED BY <1>3, <2>1, <2>2 DEF Counted
<1>5. CASE \E w \in Withdrawals : ClaimForPayout(k, w) \/ Reject(k, w)
  <2>1. PICK w \in Withdrawals : ClaimForPayout(k, w) \/ Reject(k, w)
    BY <1>5
  <2>2. wd[w].status \in Counted /\ \E s \in WdStatus : wd' = [wd EXCEPT ![w].status = s]
    BY <2>1 DEF ClaimForPayout, Reject, WdStatus, Counted
  <2> QED BY <1>3, <2>2
<1> QED BY <1>2, <1>4, <1>5 DEF CreatePayout

(* The other steps of a page. *)
LEMMA PageLimit ==
  ASSUME IInv, IInv', LimitExceededOnlyTogether, NEW t \in Tabs,
         \/ AskDeposit(t) \/ CreatePending(t) \/ CreateInvoice(t)
         \/ AttachGatewayID(t) \/ FailOrder(t)
  PROVE  LimitExceededOnlyTogether'
<1>1. TypeOK /\ TypeOK' /\ wd' = wd
  BY DEF IInv, AskDeposit, CreatePending, CreateInvoice, AttachGatewayID, FailOrder
<1>2. tab'[t].at # "within limit" /\ \A q \in Tabs \ {t} : tab'[q] = tab[q]
  <2>0. tab \in [Tabs -> Handlers(TabSteps, Deposits)]
    BY <1>1 DEF TypeOK
  <2>1. CASE AskDeposit(t)
    <3>1. PICK a, r : tab' = [tab EXCEPT ![t] =
                        [at |-> "may deposit", amount |-> a, via |-> r, id |-> NoId]]
      BY <2>1 DEF AskDeposit
    <3> QED BY <2>0, <3>1
  <2>2. CASE CreatePending(t)
    <3>1. PICK h : tab' = [tab EXCEPT ![t] = h] /\ h.at = "ordered"
      <4>1. PICK d : tab' = [tab EXCEPT ![t] = [tab[t] EXCEPT !.at = "ordered", !.id = d]]
        BY <2>2 DEF CreatePending
      <4>2. [tab[t] EXCEPT !.at = "ordered", !.id = d].at = "ordered"
        BY <2>0 DEF Handlers
      <4> QED BY <4>1, <4>2
    <3> QED BY <2>0, <3>1
  <2>3. CASE CreateInvoice(t)
    <3>1. PICK next \in {"invoiced", "refused"} : tab' = [tab EXCEPT ![t].at = next]
      BY <2>3 DEF CreateInvoice
    <3>2. tab'[t].at = next /\ \A q \in Tabs \ {t} : tab'[q] = tab[q]
      BY <2>0, <3>1 DEF Handlers
    <3> QED BY <3>2
  <2>4. CASE AttachGatewayID(t) \/ FailOrder(t)
    <3>1. tab' = [tab EXCEPT ![t] = Idle]
      BY <2>4 DEF AttachGatewayID, FailOrder
    <3> QED BY <2>0, <3>1 DEF Idle
  <2> QED BY <2>1, <2>2, <2>3, <2>4
<1> QED BY <1>1, <1>2, LimitPageMoves DEF OthersStay, NotInFlight

LEMMA CrashLimit ==
  ASSUME IInv, IInv', LimitExceededOnlyTogether, Crash
  PROVE  LimitExceededOnlyTogether'
<1>1. CASE tab' = tab
  BY <1>1, LimitStands DEF Crash
<1>2. CASE \E t \in Tabs : tab' = [tab EXCEPT ![t] = Idle]
  <2>1. PICK t \in Tabs : tab' = [tab EXCEPT ![t] = Idle]
    BY <1>2
  <2>2. tab'[t].at # "within limit" /\ \A q \in Tabs \ {t} : tab'[q] = tab[q]
    BY <2>1 DEF IInv, TypeOK, Idle
  <2>3. TypeOK /\ TypeOK' /\ wd' = wd
    BY DEF IInv, Crash
  <2> QED BY <2>2, <2>3, LimitPageMoves DEF OthersStay, NotInFlight
<1> QED BY <1>1, <1>2 DEF Crash

LEMMA InitLimit == Init => LimitExceededOnlyTogether
<1> SUFFICES ASSUME Init PROVE LimitExceededOnlyTogether
  OBVIOUS
<1>1. StatusIn(wd, Withdrawals, Counted) = {} /\ InFlight(tab) = {}
  BY DEF Init, StatusIn, Counted, InFlight, Idle
<1>2. WithStatus(Counted) = 0 /\ RowSum(tab, InFlight(tab)) = 0
  BY <1>1, WithdrawalSums, RowSumOfNone
<1>3. 0 + 0 <= WeeklyLimit + Leeway
  BY LeewayType
<1> QED BY <1>2, <1>3, LimitInSums

LEMMA StepLimit ==
  IInv /\ IInv' /\ LimitExceededOnlyTogether /\ [Next]_vars => LimitExceededOnlyTogether'
<1> SUFFICES ASSUME IInv, IInv', LimitExceededOnlyTogether, [Next]_vars
             PROVE LimitExceededOnlyTogether'
  OBVIOUS
<1>1. CASE UNCHANGED <<wd, tab>>
  BY <1>1, LimitStands
<1>2. CASE \E t \in Tabs :
             \/ AskWithdraw(t) \/ CreateRequest(t)
             \/ AskDeposit(t) \/ CreatePending(t) \/ CreateInvoice(t)
             \/ AttachGatewayID(t) \/ FailOrder(t)
  BY <1>2, AskWithdrawLimit, CreateRequestLimit, PageLimit
<1>3. CASE \E k \in Desks :
             \/ CreatePayout(k) \/ ReleaseClaim(k) \/ Approve(k)
             \/ \E w \in Withdrawals : ClaimForPayout(k, w) \/ Reject(k, w)
  BY <1>3, DeskLimit
<1>4. CASE \E d \in Deposits : Pay(d) \/ MarkCredited(d) \/ MarkFailed(d)
  BY <1>1, <1>4 DEF Pay, MarkCredited, MarkFailed
<1>5. CASE Crash \/ UNCHANGED vars
  BY <1>1, <1>5, CrashLimit DEF vars
<1> QED BY <1>2, <1>3, <1>4, <1>5 DEF Next

(* The weekly limit of rpc/withdrawal.go is exceeded at most by requests   *)
(* that were under way on other pages at the same time.                    *)
THEOREM LimitHoldsForOnePage == Spec => []LimitExceededOnlyTogether
BY InitInv, StepInv, InitLimit, StepLimit, PTL DEF Spec

----------------------------------------------------------------------------
(* The refinement. *)

LEMMA PromiseInit == Init => Promise!Init
<1> SUFFICES ASSUME Init PROVE Promise!Init
  OBVIOUS
<1>1. \A w \in Withdrawals : Fate(w) = "none" /\ Payments(w) = 0 /\ wd[w].amount = 0
  BY DEF Init, Fate, Payments, Gone
<1> QED BY <1>1, CashierAssumption DEF Init, Promise!Init

(* A step that leaves wallet and rows in place, or moves a row between the *)
(* statuses in which its money is held, is not seen.                       *)
LEMMA Unseen ==
  ASSUME wallet' = wallet,
         \A w \in Withdrawals :
           wd'[w].amount = wd[w].amount /\ Fate(w)' = Fate(w) /\ Payments(w)' = Payments(w)
  PROVE  UNCHANGED Promise!vars
BY DEF Promise!vars

LEMMA CreateRequestPromise ==
  ASSUME IInv, NEW t \in Tabs, CreateRequest(t)
  PROVE  Promise!Next \/ UNCHANGED Promise!vars
<1>0. PICK a, w, row : /\ a = tab[t].amount /\ w = NewID(Withdrawals, wd)
                         /\ row = [status |-> "pending", amount |-> a, rail |-> tab[t].via]
  OBVIOUS
<1>1. CASE UNCHANGED <<wallet, wd, books>>
  BY <1>1, Unseen DEF CreateRequest, Fate, Payments, Gone
<1>2. CASE /\ a <= wallet /\ Unused(Withdrawals, wd) # {}
           /\ wd' = [wd EXCEPT ![w] = row]
           /\ wallet' = wallet - a
  <2>1. w \in Withdrawals /\ wd[w].status = "none"
    BY <1>0, <1>2 DEF NewID, Unused
  <2>2. a \in Amounts /\ sent[w] = 0 /\ wd \in [Withdrawals -> Requests]
    BY <1>0, <2>1 DEF IInv, TypeOK, OrdersExist, PageOK, PaidOutOnce, CreateRequest
  <2>3. wd'[w] = row /\ \A x \in Withdrawals \ {w} : wd'[x] = wd[x]
    BY <1>2, <2>1, <2>2
  <2>8. sent' = sent /\ wd'[w].status = "pending" /\ wd'[w].amount = a
    <3>1. sent' = sent
      BY DEF CreateRequest
    <3>2. row.status = "pending" /\ row.amount = a
      BY <1>0
    <3> QED BY <2>3, <3>1, <3>2
  <2>4. Fate(w) = "none" /\ Fate(w)' = "held" /\ wd'[w].amount = a
    BY <2>1, <2>2, <2>8 DEF Fate, Gone
  <2>5. \A x \in Withdrawals \ {w} : Fate(x)' = Fate(x) /\ wd'[x].amount = wd[x].amount
    BY <2>3 DEF Fate, Gone, CreateRequest
  <2>6. \A x \in Withdrawals : Payments(x)' = Payments(x)
    BY <2>1, <2>2, <2>3, <2>8 DEF Payments, Gone
  <2>7. Promise!Hold(w)
    BY <1>2, <2>1, <2>2, <2>4, <2>5, <2>6 DEF Promise!Hold
  <2> QED BY <2>1, <2>7 DEF Promise!Next
<1> QED BY <1>0, <1>1, <1>2 DEF CreateRequest

LEMMA ClaimPromise ==
  ASSUME IInv, NEW k \in Desks, NEW w \in Withdrawals, ClaimForPayout(k, w)
  PROVE  UNCHANGED Promise!vars
<1>1. /\ wd'[w].status = "paying" /\ wd'[w].amount = wd[w].amount
      /\ \A x \in Withdrawals \ {w} : wd'[x] = wd[x]
  BY DEF IInv, TypeOK, Requests, ClaimForPayout
<1> QED BY <1>1, Unseen DEF ClaimForPayout, Fate, Payments, Gone

LEMMA ReleasePromise ==
  ASSUME IInv, NEW k \in Desks, ReleaseClaim(k)
  PROVE  UNCHANGED Promise!vars
<1> DEFINE w == desk[k].id
<1>0. CASE wd' = wd
  BY <1>0, Unseen DEF ReleaseClaim, Fate, Payments, Gone
<1>1. CASE wd[w].status = "paying" /\ wd' = [wd EXCEPT ![w].status = "payout_failed"]
  <2>0. w \in Withdrawals
    BY DEF IInv, ClaimIsExclusive, ReleaseClaim, Idle
  <2>1. /\ wd'[w].status = "payout_failed" /\ wd'[w].amount = wd[w].amount
        /\ \A x \in Withdrawals \ {w} : wd'[x] = wd[x]
    BY <1>1, <2>0 DEF IInv, TypeOK, Requests
  <2> QED BY <1>1, <2>1, Unseen DEF ReleaseClaim, Fate, Payments, Gone
<1> QED BY <1>0, <1>1 DEF ReleaseClaim

LEMMA PayoutPromise ==
  ASSUME IInv, NEW k \in Desks, CreatePayout(k)
  PROVE  Promise!Next \/ UNCHANGED Promise!vars
<1>0. PICK w : w = desk[k].id
  OBVIOUS
<1>1. w \in Withdrawals /\ wd[w].status = "paying" /\ sent[w] = 0
  BY <1>0 DEF IInv, ClaimIsExclusive, CreatePayout, Idle
<1>2. CASE sent' = sent
  BY <1>2, Unseen DEF CreatePayout, Fate, Payments, Gone
<1>3. CASE sent' = [sent EXCEPT ![w] = @ + 1]
  <2>1. sent'[w] = 1 /\ \A x \in Withdrawals \ {w} : sent'[x] = sent[x]
    BY <1>1, <1>3 DEF IInv, TypeOK
  <2>2. Fate(w) = "held" /\ Fate(w)' = "gone" /\ Payments(w)' = 1
    BY <1>1, <2>1 DEF Fate, Payments, Gone, CreatePayout
  <2>3. \A x \in Withdrawals \ {w} : Fate(x)' = Fate(x) /\ Payments(x)' = Payments(x)
    BY <2>1 DEF Fate, Payments, Gone, CreatePayout
  <2>4. Promise!PayOut(w)
    BY <1>1, <2>2, <2>3 DEF Promise!PayOut, CreatePayout
  <2> QED BY <1>1, <2>4 DEF Promise!Next
<1> QED BY <1>0, <1>2, <1>3 DEF CreatePayout

LEMMA ApprovePromise ==
  ASSUME IInv, NEW k \in Desks, Approve(k)
  PROVE  Promise!Next \/ UNCHANGED Promise!vars
<1>3. PICK w : w = desk[k].id
  OBVIOUS
<1>0. w \in Withdrawals /\ wd[w].status = "paying"
  BY <1>3 DEF IInv, ClaimIsExclusive, Approve, Idle
<1>1. CASE wd' = wd
  BY <1>1, Unseen DEF Approve, Fate, Payments, Gone
<1>2. CASE wd' = [wd EXCEPT ![w].status = "paid"]
  <2>1. /\ wd'[w].status = "paid"
        /\ \A x \in Withdrawals : wd'[x].amount = wd[x].amount /\ (x # w => wd'[x] = wd[x])
    BY <1>0, <1>2 DEF IInv, TypeOK, Requests
  <2>2. sent[w] \in {0, 1}
    BY <1>0 DEF IInv, TypeOK, PaidOutOnce
  <2>3. \A x \in Withdrawals \ {w} : Fate(x)' = Fate(x) /\ Payments(x)' = Payments(x)
    BY <2>1 DEF Fate, Payments, Gone, Approve
  <2>4. CASE sent[w] = 1
    <3>1. Fate(w)' = Fate(w) /\ Payments(w)' = Payments(w)
      BY <1>0, <2>1, <2>4 DEF Fate, Payments, Gone, Approve
    <3> QED BY <2>1, <2>3, <3>1, Unseen DEF Approve
  <2>5. CASE sent[w] = 0
    <3>1. Fate(w) = "held" /\ Fate(w)' = "gone" /\ Payments(w)' = 1
      BY <1>0, <2>1, <2>5 DEF Fate, Payments, Gone, Approve
    <3>2. Promise!PayOut(w)
      BY <1>0, <2>1, <2>3, <3>1 DEF Promise!PayOut, Approve
    <3> QED BY <1>0, <3>2 DEF Promise!Next
  <2> QED BY <2>2, <2>4, <2>5
<1> QED BY <1>3, <1>1, <1>2 DEF Approve

LEMMA RejectPromise ==
  ASSUME IInv, NEW k \in Desks, NEW w \in Withdrawals, Reject(k, w)
  PROVE  Promise!Next
<1>1. /\ wd'[w].status = "rejected"
      /\ \A x \in Withdrawals : wd'[x].amount = wd[x].amount /\ (x # w => wd'[x] = wd[x])
  BY DEF IInv, TypeOK, Requests, Reject
<1>2. wd[w].status = "pending" /\ sent[w] = 0
  BY DEF IInv, PaidOutOnce, Reject
<1>3. Fate(w) = "held" /\ Fate(w)' = "returned" /\ Payments(w)' = Payments(w)
  BY <1>1, <1>2 DEF Fate, Payments, Gone, Reject
<1>4. \A x \in Withdrawals \ {w} : Fate(x)' = Fate(x) /\ Payments(x)' = Payments(x)
  BY <1>1 DEF Fate, Payments, Gone, Reject
<1>5. Promise!Return(w)
  BY <1>1, <1>3, <1>4 DEF Promise!Return, Reject
<1> QED BY <1>5 DEF Promise!Next

LEMMA CreditPromise ==
  ASSUME IInv, NEW d \in Deposits, MarkCredited(d)
  PROVE  Promise!Next
<1>1. dep[d].amount \in Amounts
  BY DEF IInv, OrdersExist, OrderOK, MarkCredited
<1>2. \A w \in Withdrawals :
        wd'[w].amount = wd[w].amount /\ Fate(w)' = Fate(w) /\ Payments(w)' = Payments(w)
  BY DEF MarkCredited, Fate, Payments, Gone
<1>3. Promise!Receive
  BY <1>1, <1>2 DEF Promise!Receive, MarkCredited
<1> QED BY <1>3 DEF Promise!Next

LEMMA PromiseStep == IInv /\ [Next]_vars => [Promise!Next]_(Promise!vars)
<1> SUFFICES ASSUME IInv, [Next]_vars PROVE Promise!Next \/ UNCHANGED Promise!vars
  OBVIOUS
<1>1. CASE UNCHANGED <<wallet, wd, sent>>
  BY <1>1, Unseen DEF Fate, Payments, Gone
<1>2. CASE \E t \in Tabs :
             \/ AskWithdraw(t) \/ CreateRequest(t)
             \/ AskDeposit(t) \/ CreatePending(t) \/ CreateInvoice(t)
             \/ AttachGatewayID(t) \/ FailOrder(t)
  BY <1>1, <1>2, CreateRequestPromise
     DEF AskWithdraw, AskDeposit, CreatePending, CreateInvoice, AttachGatewayID, FailOrder
<1>3. CASE \E k \in Desks :
             \/ CreatePayout(k) \/ ReleaseClaim(k) \/ Approve(k)
             \/ \E w \in Withdrawals : ClaimForPayout(k, w) \/ Reject(k, w)
  BY <1>3, PayoutPromise, ReleasePromise, ApprovePromise, ClaimPromise, RejectPromise
<1>4. CASE \E d \in Deposits : Pay(d) \/ MarkCredited(d) \/ MarkFailed(d)
  BY <1>1, <1>4, CreditPromise DEF Pay, MarkFailed
<1>5. CASE Crash \/ UNCHANGED vars
  BY <1>1, <1>5 DEF Crash, vars
<1> QED BY <1>2, <1>3, <1>4, <1>5 DEF Next

(* The cashier of rpc/withdrawal.go, rpc/deposit.go and their stores keeps *)
(* the promise of HeldFunds: each hold is returned or paid out, once.      *)
THEOREM CashierKeepsThePromise == Spec => KeepsThePromise
BY InitInv, StepInv, PromiseInit, PromiseStep, PTL DEF Spec, KeepsThePromise, Promise!Spec
==============================================================================
