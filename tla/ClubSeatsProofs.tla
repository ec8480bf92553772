--------------------------- MODULE ClubSeatsProofs ---------------------------
(***************************************************************************)
(* Theorems about the money behind the seats of a club's table, for any    *)
(* number of seats and players, and any terms of the club.                 *)
(***************************************************************************)
EXTENDS ClubSeats, SumProofs

----------------------------------------------------------------------------
(* Totals over the seats. *)

LEMMA SeatsFinite == IsFiniteSet(Seats)
BY MaxSeatsAssumption, FS_Interval DEF Seats

(* A sum of natural numbers is one. *)
LEMMA TotalType ==
  ASSUME NEW f \in [Seats -> Nat]
  PROVE  Total(f) \in Nat
BY SeatsFinite, SumType DEF Total

(* The sum of sums is the sum of the totals. *)
LEMMA TotalOfSum ==
  ASSUME NEW f \in [Seats -> Nat], NEW g \in [Seats -> Nat]
  PROVE  Total([s \in Seats |-> f[s] + g[s]]) = Total(f) + Total(g)
<1>1. PICK h : h = [s \in Seats |-> f[s] + g[s]]
  OBVIOUS
<1>2. \A s \in Seats : f[s] \in Nat /\ g[s] \in Nat /\ h[s] = f[s] + g[s]
  BY <1>1
<1> QED BY <1>1, <1>2, SeatsFinite, SumOfSums DEF Total

(* The sum of nothing is nothing. *)
LEMMA TotalOfNothing == Total([s \in Seats |-> 0]) = 0
<1>1. PICK z : z = [s \in Seats |-> 0]
  OBVIOUS
<1>2. \A s \in Seats : z[s] = 0
  BY <1>1
<1> QED BY <1>1, <1>2, SeatsFinite, SumOfZeros DEF Total

(* What one seat's change does to the sum. *)
LEMMA TotalChanged ==
  ASSUME NEW f \in [Seats -> Nat], NEW s \in Seats, NEW n \in Nat
  PROVE  Total([f EXCEPT ![s] = n]) + f[s] = Total(f) + n
<1>1. PICK g : g = [f EXCEPT ![s] = n]
  OBVIOUS
<1>2. (\A r \in Seats : f[r] \in Nat) /\ g[s] = n /\ \A r \in Seats \ {s} : g[r] = f[r]
  BY <1>1
<1>3. SumFunctionOnSet(g, Seats) + f[s] = SumFunctionOnSet(f, Seats) + g[s]
  BY <1>2, SeatsFinite, SumChanged
<1> QED BY <1>1, <1>2, <1>3 DEF Total

LEMMA TotalEmptied ==
  ASSUME NEW f \in [Seats -> Nat], NEW s \in Seats, NEW g, g = [f EXCEPT ![s] = 0]
  PROVE  /\ g \in [Seats -> Nat] /\ f[s] \in Nat
         /\ Total(g) + f[s] = Total(f) /\ Total(g) <= Total(f)
<1>1. PICK n \in Nat : n = 0
  OBVIOUS
<1>2. PICK h : h = [f EXCEPT ![s] = n]
  OBVIOUS
<1>3. Total(h) + f[s] = Total(f) + n
  BY <1>2, TotalChanged
<1>4. g = h
  BY <1>1, <1>2
<1>5. g \in [Seats -> Nat] /\ f[s] \in Nat
  OBVIOUS
<1>6. PICK a \in Nat, c \in Nat, k \in Nat : a = Total(g) /\ c = Total(f) /\ k = f[s]
  BY <1>5, TotalType
<1>7. a + k = c /\ a <= c
  <2>1. a + k = c + 0
    BY <1>1, <1>3, <1>4, <1>6
  <2> QED BY <1>6, <2>1
<1> QED BY <1>5, <1>6, <1>7

----------------------------------------------------------------------------
Books ==
  [funds : [Players -> Nat], chips : [Players -> Nat],
   locked : [Players -> Nat], issued : [Players -> Nat],
   loaned : [Players -> Nat], returned : [Players -> Nat], table : Int]

(* Player p's part of the books. *)
SameAccount(b, c, p) ==
  /\ c.funds[p] = b.funds[p] /\ c.chips[p] = b.chips[p] /\ c.locked[p] = b.locked[p]
  /\ c.issued[p] = b.issued[p] /\ c.loaned[p] = b.loaned[p]
  /\ c.returned[p] = b.returned[p]

(* From books b to c only p's part has changed, and the table's account by x. *)
Touches(b, c, p, x) ==
  /\ b \in Books /\ c \in Books
  /\ c.table = b.table + x
  /\ \A q \in Players \ {p} : SameAccount(b, c, q)

(* g is f but for p's amount, which is n. *)
OnlyAt(f, p, n, g) ==
  /\ g \in [Players -> Nat] /\ g = [f EXCEPT ![p] = n] /\ g[p] = n
  /\ \A q \in Players \ {p} : g[q] = f[q]

LEMMA SetAt ==
  ASSUME NEW f \in [Players -> Nat], NEW p \in Players, NEW n \in Nat
  PROVE  \E g : OnlyAt(f, p, n, g)
<1>1. [f EXCEPT ![p] = n] \in [Players -> Nat]
  OBVIOUS
<1> QED BY <1>1 DEF OnlyAt

LEMMA BookFields ==
  ASSUME NEW b \in Books
  PROVE  /\ b.funds \in [Players -> Nat] /\ b.chips \in [Players -> Nat]
         /\ b.locked \in [Players -> Nat] /\ b.issued \in [Players -> Nat]
         /\ b.loaned \in [Players -> Nat] /\ b.returned \in [Players -> Nat]
         /\ b.table \in Int
BY DEF Books

LEMMA Amounts ==
  ASSUME NEW b \in Books, NEW p \in Players
  PROVE  /\ b.funds[p] \in Nat /\ b.chips[p] \in Nat
         /\ b.locked[p] \in Nat /\ b.issued[p] \in Nat
         /\ b.loaned[p] \in Nat /\ b.returned[p] \in Nat
         /\ b.table \in Int
BY BookFields

LEMMA DebitBooks ==
  ASSUME NEW b \in Books, NEW p \in Players, NEW x \in Nat, x <= b.funds[p],
         NEW c, c = DebitTo(b, p, x)
  PROVE  /\ Touches(b, c, p, x)
         /\ c.funds[p] = b.funds[p] - x /\ c.chips[p] = b.chips[p]
         /\ c.locked[p] = b.locked[p] /\ c.issued[p] = b.issued[p]
         /\ c.loaned[p] = b.loaned[p] /\ c.returned[p] = b.returned[p]
<1>1. b.funds[p] - x \in Nat
  BY Amounts
<1>2. PICK f : OnlyAt(b.funds, p, b.funds[p] - x, f)
  <2> DEFINE n0 == b.funds[p] - x
  <2>1. n0 \in Nat /\ b.funds \in [Players -> Nat]
    BY <1>1, BookFields
  <2> HIDE DEF n0
  <2>2. \E g : OnlyAt(b.funds, p, n0, g)
    BY <2>1, SetAt
  <2> QED BY <2>2 DEF n0
<1>3. c = [b EXCEPT !.funds = f, !.table = b.table + x]
  BY <1>2 DEF OnlyAt, Books, DebitTo
<1>4. f \in [Players -> Nat] /\ b.table + x \in Int
  BY <1>2, BookFields DEF OnlyAt
<1>5. c \in Books
  BY <1>3, <1>4 DEF Books
<1>6. /\ c.table = b.table + x
      /\ c.funds = f /\ c.chips = b.chips /\ c.locked = b.locked
      /\ c.issued = b.issued /\ c.loaned = b.loaned /\ c.returned = b.returned
  BY <1>3 DEF Books
<1>7. c.table = b.table + x
  BY <1>6, BookFields
<1> QED BY <1>2, <1>5, <1>6, <1>7 DEF Touches, SameAccount, OnlyAt

LEMMA CreditBooks ==
  ASSUME NEW b \in Books, NEW p \in Players, NEW x \in Nat,
         NEW c, c = CreditFrom(b, p, x)
  PROVE  /\ Touches(b, c, p, 0 - x)
         /\ c.funds[p] = b.funds[p] + x /\ c.chips[p] = b.chips[p]
         /\ c.locked[p] = b.locked[p] /\ c.issued[p] = b.issued[p]
         /\ c.loaned[p] = b.loaned[p] /\ c.returned[p] = b.returned[p]
<1>1. b.funds[p] + x \in Nat
  BY Amounts
<1>2. PICK f : OnlyAt(b.funds, p, b.funds[p] + x, f)
  <2> DEFINE n0 == b.funds[p] + x
  <2>1. n0 \in Nat /\ b.funds \in [Players -> Nat]
    BY <1>1, BookFields
  <2> HIDE DEF n0
  <2>2. \E g : OnlyAt(b.funds, p, n0, g)
    BY <2>1, SetAt
  <2> QED BY <2>2 DEF n0
<1>3. c = [b EXCEPT !.funds = f, !.table = b.table - x]
  BY <1>2 DEF OnlyAt, Books, CreditFrom
<1>4. f \in [Players -> Nat] /\ b.table - x \in Int
  BY <1>2, BookFields DEF OnlyAt
<1>5. c \in Books
  BY <1>3, <1>4 DEF Books
<1>6. /\ c.table = b.table - x
      /\ c.funds = f /\ c.chips = b.chips /\ c.locked = b.locked
      /\ c.issued = b.issued /\ c.loaned = b.loaned /\ c.returned = b.returned
  BY <1>3 DEF Books
<1>7. c.table = b.table + (0 - x)
  BY <1>6, BookFields
<1> QED BY <1>2, <1>5, <1>6, <1>7 DEF Touches, SameAccount, OnlyAt

LEMMA AllocateBooks ==
  ASSUME NEW b \in Books, NEW p \in Players, NEW x \in Nat,
         NEW c, c = AllocateBalance(b, p, x)
  PROVE  /\ Touches(b, c, p, 0)
         /\ c.funds[p] = b.funds[p] /\ c.chips[p] = b.chips[p] + x
         /\ c.locked[p] = b.locked[p] /\ c.issued[p] = b.issued[p] + x
         /\ c.loaned[p] = b.loaned[p] /\ c.returned[p] = b.returned[p]
<1>1. b.chips[p] + x \in Nat /\ b.issued[p] + x \in Nat
  BY Amounts
<1>2. PICK h : OnlyAt(b.chips, p, b.chips[p] + x, h)
  <2> DEFINE n0 == b.chips[p] + x
  <2>1. n0 \in Nat /\ b.chips \in [Players -> Nat]
    BY <1>1, BookFields
  <2> HIDE DEF n0
  <2>2. \E g : OnlyAt(b.chips, p, n0, g)
    BY <2>1, SetAt
  <2> QED BY <2>2 DEF n0
<1>3. PICK i : OnlyAt(b.issued, p, b.issued[p] + x, i)
  <2> DEFINE n0 == b.issued[p] + x
  <2>1. n0 \in Nat /\ b.issued \in [Players -> Nat]
    BY <1>1, BookFields
  <2> HIDE DEF n0
  <2>2. \E g : OnlyAt(b.issued, p, n0, g)
    BY <2>1, SetAt
  <2> QED BY <2>2 DEF n0
<1>4. c = [b EXCEPT !.chips = h, !.issued = i]
  BY <1>2, <1>3 DEF OnlyAt, Books, AllocateBalance
<1>5. h \in [Players -> Nat] /\ i \in [Players -> Nat] /\ b.table \in Int
  BY <1>2, <1>3, BookFields DEF OnlyAt
<1>6. c \in Books
  BY <1>4, <1>5 DEF Books
<1>7. /\ c.table = b.table
      /\ c.funds = b.funds /\ c.chips = h /\ c.locked = b.locked
      /\ c.issued = i /\ c.loaned = b.loaned /\ c.returned = b.returned
  BY <1>4 DEF Books
<1>8. c.table = b.table + 0
  BY <1>7, BookFields
<1> QED BY <1>2, <1>3, <1>6, <1>7, <1>8 DEF Touches, SameAccount, OnlyAt

LEMMA LockBooks ==
  ASSUME NEW b \in Books, NEW p \in Players, NEW x \in Nat, x <= b.chips[p],
         NEW c, c = LockBalanceForTable(b, p, x)
  PROVE  /\ Touches(b, c, p, x)
         /\ c.funds[p] = b.funds[p] /\ c.chips[p] = b.chips[p] - x
         /\ c.locked[p] = b.locked[p] + x /\ c.issued[p] = b.issued[p]
         /\ c.loaned[p] = b.loaned[p] /\ c.returned[p] = b.returned[p]
<1>1. b.chips[p] - x \in Nat /\ b.locked[p] + x \in Nat
  BY Amounts
<1>2. PICK h : OnlyAt(b.chips, p, b.chips[p] - x, h)
  <2> DEFINE n0 == b.chips[p] - x
  <2>1. n0 \in Nat /\ b.chips \in [Players -> Nat]
    BY <1>1, BookFields
  <2> HIDE DEF n0
  <2>2. \E g : OnlyAt(b.chips, p, n0, g)
    BY <2>1, SetAt
  <2> QED BY <2>2 DEF n0
<1>3. PICK l : OnlyAt(b.locked, p, b.locked[p] + x, l)
  <2> DEFINE n0 == b.locked[p] + x
  <2>1. n0 \in Nat /\ b.locked \in [Players -> Nat]
    BY <1>1, BookFields
  <2> HIDE DEF n0
  <2>2. \E g : OnlyAt(b.locked, p, n0, g)
    BY <2>1, SetAt
  <2> QED BY <2>2 DEF n0
<1>4. c = [b EXCEPT !.chips = h, !.locked = l, !.table = b.table + x]
  BY <1>2, <1>3 DEF OnlyAt, Books, LockBalanceForTable
<1>5. h \in [Players -> Nat] /\ l \in [Players -> Nat] /\ b.table + x \in Int
  BY <1>2, <1>3, BookFields DEF OnlyAt
<1>6. c \in Books
  BY <1>4, <1>5 DEF Books
<1>7. /\ c.table = b.table + x
      /\ c.funds = b.funds /\ c.chips = h /\ c.locked = l
      /\ c.issued = b.issued /\ c.loaned = b.loaned /\ c.returned = b.returned
  BY <1>4 DEF Books
<1>8. c.table = b.table + x
  BY <1>7, BookFields
<1> QED BY <1>2, <1>3, <1>6, <1>7, <1>8 DEF Touches, SameAccount, OnlyAt

LEMMA SettleBooks ==
  ASSUME NEW b \in Books, NEW p \in Players, NEW n \in Nat, NEW x \in Nat,
         NEW c, c = SettleSeatAtTable(b, p, n, x)
  PROVE  /\ Touches(b, c, p, 0 - x)
         /\ c.funds[p] = b.funds[p] /\ c.chips[p] = b.chips[p] + x
         /\ c.locked[p] = Greater(0, b.locked[p] - n) /\ c.issued[p] = b.issued[p]
         /\ c.loaned[p] = b.loaned[p] /\ c.returned[p] = b.returned[p]
<1>1. Greater(0, b.locked[p] - n) \in Nat /\ b.chips[p] + x \in Nat
  BY Amounts DEF Greater
<1>2. PICK l : OnlyAt(b.locked, p, Greater(0, b.locked[p] - n), l)
  <2> DEFINE n0 == Greater(0, b.locked[p] - n)
  <2>1. n0 \in Nat /\ b.locked \in [Players -> Nat]
    BY <1>1, BookFields
  <2> HIDE DEF n0
  <2>2. \E g : OnlyAt(b.locked, p, n0, g)
    BY <2>1, SetAt
  <2> QED BY <2>2 DEF n0
<1>3. PICK h : OnlyAt(b.chips, p, b.chips[p] + x, h)
  <2> DEFINE n0 == b.chips[p] + x
  <2>1. n0 \in Nat /\ b.chips \in [Players -> Nat]
    BY <1>1, BookFields
  <2> HIDE DEF n0
  <2>2. \E g : OnlyAt(b.chips, p, n0, g)
    BY <2>1, SetAt
  <2> QED BY <2>2 DEF n0
<1>4. c = [b EXCEPT !.locked = l, !.chips = h, !.table = b.table - x]
  BY <1>2, <1>3 DEF OnlyAt, Books, SettleSeatAtTable
<1>5. l \in [Players -> Nat] /\ h \in [Players -> Nat] /\ b.table - x \in Int
  BY <1>2, <1>3, BookFields DEF OnlyAt
<1>6. c \in Books
  BY <1>4, <1>5 DEF Books
<1>7. /\ c.table = b.table - x
      /\ c.funds = b.funds /\ c.chips = h /\ c.locked = l
      /\ c.issued = b.issued /\ c.loaned = b.loaned /\ c.returned = b.returned
  BY <1>4 DEF Books
<1>8. c.table = b.table + (0 - x)
  BY <1>7, BookFields
<1> QED BY <1>2, <1>3, <1>6, <1>7, <1>8 DEF Touches, SameAccount, OnlyAt

LEMMA RecordBooks ==
  ASSUME NEW b \in Books, NEW p \in Players, NEW n \in Nat, NEW x \in Nat,
         NEW c, c = RecordSeat(b, p, n, x)
  PROVE  /\ Touches(b, c, p, 0)
         /\ c.funds[p] = b.funds[p] /\ c.chips[p] = b.chips[p]
         /\ c.locked[p] = b.locked[p] /\ c.issued[p] = b.issued[p]
         /\ c.loaned[p] = b.loaned[p] + n /\ c.returned[p] = b.returned[p] + x
<1>1. b.loaned[p] + n \in Nat /\ b.returned[p] + x \in Nat
  BY Amounts
<1>2. PICK a : OnlyAt(b.loaned, p, b.loaned[p] + n, a)
  <2> DEFINE n0 == b.loaned[p] + n
  <2>1. n0 \in Nat /\ b.loaned \in [Players -> Nat]
    BY <1>1, BookFields
  <2> HIDE DEF n0
  <2>2. \E g : OnlyAt(b.loaned, p, n0, g)
    BY <2>1, SetAt
  <2> QED BY <2>2 DEF n0
<1>3. PICK r : OnlyAt(b.returned, p, b.returned[p] + x, r)
  <2> DEFINE n0 == b.returned[p] + x
  <2>1. n0 \in Nat /\ b.returned \in [Players -> Nat]
    BY <1>1, BookFields
  <2> HIDE DEF n0
  <2>2. \E g : OnlyAt(b.returned, p, n0, g)
    BY <2>1, SetAt
  <2> QED BY <2>2 DEF n0
<1>4. c = [b EXCEPT !.loaned = a, !.returned = r]
  BY <1>2, <1>3 DEF OnlyAt, Books, RecordSeat
<1>5. a \in [Players -> Nat] /\ r \in [Players -> Nat] /\ b.table \in Int
  BY <1>2, <1>3, BookFields DEF OnlyAt
<1>6. c \in Books
  BY <1>4, <1>5 DEF Books
<1>7. /\ c.table = b.table
      /\ c.funds = b.funds /\ c.chips = b.chips /\ c.locked = b.locked
      /\ c.issued = b.issued /\ c.loaned = a /\ c.returned = r
  BY <1>4 DEF Books
<1>8. c.table = b.table + 0
  BY <1>7, BookFields
<1> QED BY <1>2, <1>3, <1>6, <1>7, <1>8 DEF Touches, SameAccount, OnlyAt

LEMMA Untouched ==
  ASSUME NEW b \in Books, NEW p \in Players
  PROVE  Touches(b, b, p, 0)
BY BookFields DEF Touches, SameAccount

LEMMA TouchesBoth ==
  ASSUME NEW b, NEW c, NEW d, NEW p \in Players, NEW x \in Int, NEW y \in Int,
         Touches(b, c, p, x), Touches(c, d, p, y)
  PROVE  Touches(b, d, p, x + y)
<1>1. b \in Books /\ c.table = b.table + x /\ d.table = c.table + y /\ d \in Books
  BY DEF Touches
<1>2. d.table = b.table + (x + y)
  BY <1>1, BookFields
<1>3. \A q \in Players \ {p} : SameAccount(b, d, q)
  BY DEF Touches, SameAccount
<1> QED BY <1>1, <1>2, <1>3 DEF Touches

----------------------------------------------------------------------------
(* reserveBuyIn. *)

(* A loan is worth a seat: the table lends nothing, or at least the platform's *)
(* minimum.                                                                *)
LoanCoversSeat == AutoApproveNonMembers /\ NonMemberLoan > 0 => NonMemberLoan >= MinBuyIn

LEMMA Terms ==
  /\ NonMemberLoan \in Nat /\ AutoBuyBack \in Nat /\ MinBuyIn \in Nat \ {0}
  /\ MaxBuyIn \in Nat /\ MinBuyIn <= MaxBuyIn /\ Nobody \notin Players
BY ClubSeatsAssumption

LEMMA ClampType ==
  ASSUME NEW x \in Nat
  PROVE  /\ ClampBuyIn(x) \in Nat \ {0} /\ ClampBuyIn(ClampBuyIn(x)) = ClampBuyIn(x)
         /\ MinBuyIn <= ClampBuyIn(x) /\ ClampBuyIn(x) <= MaxBuyIn
BY Terms DEF ClampBuyIn, Greater, Lesser

(* What is taken from a purse: x chips of p's, to the table. *)
TakenFromFunds(b, c, p, x) ==
  /\ Touches(b, c, p, x)
  /\ c.funds[p] = b.funds[p] - x /\ c.chips[p] = b.chips[p]
  /\ c.locked[p] = b.locked[p] /\ c.issued[p] = b.issued[p]
  /\ c.loaned[p] = b.loaned[p] /\ c.returned[p] = b.returned[p]

TakenFromClub(b, c, p, x) ==
  /\ Touches(b, c, p, x)
  /\ c.funds[p] = b.funds[p] /\ c.locked[p] = b.locked[p] + x
  /\ c.chips[p] - c.issued[p] = b.chips[p] - b.issued[p] - x
  /\ c.loaned[p] = b.loaned[p] /\ c.returned[p] = b.returned[p]

LEMMA LendSound ==
  ASSUME NEW b \in Books, NEW p \in Players, NEW x \in Nat, NEW r, r = Lend(b, p, x)
  PROVE  /\ r.wallet = "club" /\ r.amount = Lesser(x, NonMemberLoan)
         /\ TakenFromClub(b, r.books, p, r.amount)
<1> DEFINE y == Lesser(x, NonMemberLoan)
           c == AllocateBalance(b, p, NonMemberLoan)
           d == LockBalanceForTable(c, p, y)
<1>1. r.wallet = "club" /\ r.amount = y /\ r.books = d
  BY DEF Lend, Reservation
<1>2. y \in Nat /\ y <= NonMemberLoan /\ NonMemberLoan \in Nat
  BY Terms DEF Lesser
<1> HIDE DEF y, c
<1>3. /\ Touches(b, c, p, 0)
      /\ c.funds[p] = b.funds[p] /\ c.chips[p] = b.chips[p] + NonMemberLoan
      /\ c.locked[p] = b.locked[p] /\ c.issued[p] = b.issued[p] + NonMemberLoan
      /\ c.loaned[p] = b.loaned[p] /\ c.returned[p] = b.returned[p]
  BY <1>2, AllocateBooks DEF c
<1>4. c \in Books /\ y <= c.chips[p]
  <2>1. c \in Books
    BY <1>3 DEF Touches
  <2> QED BY <2>1, <1>2, <1>3, Amounts
<1> HIDE DEF d
<1>5. /\ Touches(c, d, p, y)
      /\ d.funds[p] = c.funds[p] /\ d.chips[p] = c.chips[p] - y
      /\ d.locked[p] = c.locked[p] + y /\ d.issued[p] = c.issued[p]
      /\ d.loaned[p] = c.loaned[p] /\ d.returned[p] = c.returned[p]
  BY <1>2, <1>4, LockBooks DEF d
<1>6. Touches(b, d, p, y)
  <2>1. Touches(b, d, p, 0 + y)
    BY <1>2, <1>3, <1>5, TouchesBoth
  <2> QED BY <2>1, <1>2
<1>7. d.chips[p] - d.issued[p] = b.chips[p] - b.issued[p] - y
  BY <1>2, <1>3, <1>5, Amounts
<1>8. TakenFromClub(b, d, p, y)
  BY <1>3, <1>5, <1>6, <1>7 DEF TakenFromClub
<1> QED BY <1>1, <1>8 DEF y

(* What a buy-in takes is what the seat is given, if a loan is worth a seat; *)
(* and it comes from the purse the table's terms say.                      *)
LEMMA ReserveSound ==
  ASSUME NEW b \in Books, NEW p \in Players, NEW asked \in Nat, NEW guest \in BOOLEAN,
         NEW r, r = Reserve(b, p, asked, guest), r.wallet # "none"
  PROVE  /\ r.amount \in Nat \ {0}
         /\ LoanCoversSeat => ClampBuyIn(r.amount) = r.amount
         /\ \/ r.wallet = "global" /\ ~OnClubChips(p, guest)
               /\ TakenFromFunds(b, r.books, p, r.amount)
            \/ r.wallet = "club" /\ OnClubChips(p, guest)
               /\ TakenFromClub(b, r.books, p, r.amount)
<1> DEFINE x == ClampBuyIn(asked)
<1>1. x \in Nat \ {0} /\ ClampBuyIn(x) = x /\ MinBuyIn <= x /\ x <= MaxBuyIn
  BY ClampType
<1> HIDE DEF x
<1>0. /\ AutoApproveNonMembers /\ p \notin Members => OnClubChips(p, guest)
      /\ ~(x <= b.chips[p] /\ x > b.chips[p])
  BY <1>1, Amounts DEF OnClubChips
<1>2. CASE ~OnClubChips(p, guest) /\ x <= b.funds[p]
  <2>1. r = Reservation("global", x, DebitTo(b, p, x))
    BY <1>0, <1>2 DEF Reserve, x
  <2>2. r.wallet = "global" /\ r.amount = x /\ r.books = DebitTo(b, p, x)
    BY <2>1 DEF Reservation
  <2>3. TakenFromFunds(b, r.books, p, x)
    BY <1>1, <1>2, <2>2, DebitBooks DEF TakenFromFunds
  <2> QED BY <1>1, <1>2, <2>2, <2>3
<1>3. CASE OnClubChips(p, guest) /\ x <= b.chips[p]
  <2>0. r = Reservation("club", x, LockBalanceForTable(b, p, x))
    BY <1>0, <1>3 DEF Reserve, x
  <2>1. r.wallet = "club" /\ r.amount = x /\ r.books = LockBalanceForTable(b, p, x)
    BY <2>0 DEF Reservation
  <2>2. /\ Touches(b, r.books, p, x)
        /\ r.books.funds[p] = b.funds[p] /\ r.books.chips[p] = b.chips[p] - x
        /\ r.books.locked[p] = b.locked[p] + x /\ r.books.issued[p] = b.issued[p]
        /\ r.books.loaned[p] = b.loaned[p] /\ r.books.returned[p] = b.returned[p]
    BY <1>1, <1>3, <2>1, LockBooks
  <2>3. r.books.chips[p] - r.books.issued[p] = b.chips[p] - b.issued[p] - x
    BY <2>2, <1>1, Amounts
  <2>4. TakenFromClub(b, r.books, p, x)
    BY <2>2, <2>3 DEF TakenFromClub
  <2> QED BY <1>1, <1>3, <2>1, <2>4
<1>4. CASE /\ AutoApproveNonMembers /\ p \notin Members /\ NonMemberLoan > 0
           /\ x > b.chips[p]
  <2>1. OnClubChips(p, guest)
    BY <1>4 DEF OnClubChips
  <2>2. ~(x <= b.chips[p])
    BY <1>1, <1>4, Amounts
  <2>3. r = Lend(b, p, x)
    BY <1>4, <2>1, <2>2 DEF Reserve, x
  <2>4. /\ r.wallet = "club" /\ r.amount = Lesser(x, NonMemberLoan)
        /\ TakenFromClub(b, r.books, p, r.amount)
    BY <1>1, <2>3, LendSound
  <2>5. Lesser(x, NonMemberLoan) \in Nat \ {0}
    BY <1>1, <1>4, Terms DEF Lesser
  <2>6. ASSUME LoanCoversSeat
        PROVE  ClampBuyIn(Lesser(x, NonMemberLoan)) = Lesser(x, NonMemberLoan)
    BY <1>1, <1>4, <2>6, Terms DEF Lesser, Greater, ClampBuyIn, LoanCoversSeat
  <2> QED BY <2>1, <2>4, <2>5, <2>6
<1>5. CASE /\ ~(~OnClubChips(p, guest) /\ x <= b.funds[p])
           /\ ~(OnClubChips(p, guest) /\ x <= b.chips[p])
           /\ ~(/\ AutoApproveNonMembers /\ p \notin Members /\ NonMemberLoan > 0
                /\ x > b.chips[p])
  <2>1. r = Refused(b)
    BY <1>5 DEF Reserve, x
  <2> QED BY <2>1 DEF Refused, Reservation
<1> QED BY <1>2, <1>3, <1>4, <1>5

----------------------------------------------------------------------------
(* releaseBuyInAs. *)

PaidToFunds(b, c, p, x) ==
  /\ Touches(b, c, p, 0 - x)
  /\ c.funds[p] = b.funds[p] + x /\ c.chips[p] = b.chips[p]
  /\ c.locked[p] = b.locked[p] /\ c.issued[p] = b.issued[p]
  /\ c.loaned[p] = b.loaned[p] /\ c.returned[p] = b.returned[p]

(* x chips for the n that were lent, and a line in the settlement. *)
PaidToClub(b, c, p, n, x) ==
  /\ Touches(b, c, p, 0 - x)
  /\ c.funds[p] = b.funds[p] /\ c.chips[p] = b.chips[p] + x
  /\ c.locked[p] = Greater(0, b.locked[p] - n) /\ c.issued[p] = b.issued[p]
  /\ c.loaned[p] = b.loaned[p] + n /\ c.returned[p] = b.returned[p] + x

LEMMA SettledAndRecorded ==
  ASSUME NEW b \in Books, NEW p \in Players, NEW n \in Nat, NEW x \in Nat,
         NEW c, c = RecordSeat(SettleSeatAtTable(b, p, n, x), p, n, x)
  PROVE  PaidToClub(b, c, p, n, x)
<1> DEFINE m == SettleSeatAtTable(b, p, n, x)
<1>1. /\ Touches(b, m, p, 0 - x)
      /\ m.funds[p] = b.funds[p] /\ m.chips[p] = b.chips[p] + x
      /\ m.locked[p] = Greater(0, b.locked[p] - n) /\ m.issued[p] = b.issued[p]
      /\ m.loaned[p] = b.loaned[p] /\ m.returned[p] = b.returned[p]
  <2> HIDE DEF m
  <2> QED BY SettleBooks DEF m
<1>2. c = RecordSeat(m, p, n, x)
  OBVIOUS
<1> HIDE DEF m
<1>3. m \in Books
  BY <1>1 DEF Touches
<1>4. /\ Touches(m, c, p, 0)
      /\ c.funds[p] = m.funds[p] /\ c.chips[p] = m.chips[p]
      /\ c.locked[p] = m.locked[p] /\ c.issued[p] = m.issued[p]
      /\ c.loaned[p] = m.loaned[p] + n /\ c.returned[p] = m.returned[p] + x
  BY <1>2, <1>3, RecordBooks
<1>5. Touches(b, c, p, 0 - x)
  <2>1. PICK y \in Int : y = 0 - x
    OBVIOUS
  <2>2. Touches(b, c, p, y + 0)
    BY <1>1, <1>4, <2>1, TouchesBoth
  <2> QED BY <2>1, <2>2
<1> QED BY <1>1, <1>4, <1>5 DEF PaidToClub

LEMMA ReleasedSound ==
  ASSUME NEW b \in Books, NEW p \in Players, NEW w, NEW n \in Nat, NEW x \in Nat,
         NEW paid \in BOOLEAN, NEW c, c = Released(b, p, w, n, x, paid)
  PROVE  /\ x = 0 \/ (w # "club" /\ ~paid) => c = b
         /\ w # "club" /\ paid => PaidToFunds(b, c, p, x)
         /\ w = "club" /\ paid /\ x # 0 => PaidToClub(b, c, p, n, x)
         /\ Touches(b, c, p, 0 - x) \/ (Touches(b, c, p, 0) /\ (x = 0 \/ ~paid))
<1>1. CASE x = 0
  <2>1. c = b
    BY <1>1 DEF Released
  <2>2. Touches(b, b, p, 0)
    BY Untouched
  <2>3. b.funds[p] = b.funds[p] + x /\ 0 - x = 0
    BY <1>1, Amounts
  <2> QED BY <1>1, <2>1, <2>2, <2>3 DEF PaidToFunds
<1>2. CASE x # 0 /\ w # "club"
  <2>1. CASE paid
    <3>1. c = CreditFrom(b, p, x)
      BY <1>2, <2>1 DEF Released
    <3>2. PaidToFunds(b, c, p, x)
      BY <3>1, CreditBooks DEF PaidToFunds
    <3> QED BY <1>2, <2>1, <3>2 DEF PaidToFunds
  <2>2. CASE ~paid
    <3>1. c = b
      BY <1>2, <2>2 DEF Released
    <3> QED BY <1>2, <2>2, <3>1, Untouched
  <2> QED BY <2>1, <2>2
<1>3. CASE x # 0 /\ w = "club"
  <2>1. CASE paid
    <3>1. c = RecordSeat(SettleSeatAtTable(b, p, n, x), p, n, x)
      BY <1>3, <2>1 DEF Released
    <3>2. PaidToClub(b, c, p, n, x)
      BY <3>1, SettledAndRecorded
    <3> QED BY <1>3, <2>1, <3>2 DEF PaidToClub
  <2>2. CASE ~paid
    <3>1. c = RecordSeat(b, p, n, x)
      BY <1>3, <2>2 DEF Released
    <3>2. Touches(b, c, p, 0)
      BY <3>1, RecordBooks
    <3> QED BY <1>3, <2>2, <3>2
  <2> QED BY <2>1, <2>2
<1> QED BY <1>1, <1>2, <1>3

----------------------------------------------------------------------------
(* Types. *)

SeatTypes ==
  /\ user \in [Seats -> Players \cup {Nobody}]
  /\ stack \in [Seats -> Nat] /\ put \in [Seats -> Nat] /\ live \subseteq Seats
  /\ seatWallet \in [Seats -> Wallets] /\ seatLocked \in [Seats -> Nat]

HostTypes ==
  /\ phase \in Phases /\ cursor \in 0 .. MaxSeats
  /\ kicks \in [Seats -> Players \cup {Nobody}] /\ hostClosed \in BOOLEAN
  /\ hands \in Nat

HistoryTypes ==
  /\ failures \in Nat /\ advanced \in [Players -> Nat] /\ origin \in [Players -> Wallets]
  /\ newcomers \subseteq Players /\ astray \subseteq Players

LEMMA TypesAre == TypeOK <=> SeatTypes /\ HostTypes /\ books \in Books /\ HistoryTypes
BY DEF TypeOK, SeatTypes, HostTypes, HistoryTypes, Books

LEMMA TypesAreNext ==
  TypeOK' <=> SeatTypes' /\ HostTypes' /\ books' \in Books /\ HistoryTypes'
BY DEF TypeOK, SeatTypes, HostTypes, HistoryTypes, Books

LEMMA SeatAt ==
  ASSUME TypeOK, NEW s \in Seats
  PROVE  /\ user[s] \in Players \cup {Nobody} /\ stack[s] \in Nat /\ put[s] \in Nat
         /\ seatWallet[s] \in Wallets /\ seatLocked[s] \in Nat
         /\ user[s] # Nobody => user[s] \in Players
         /\ LockedFor(s) \in Nat /\ books \in Books
BY DEF TypeOK, LockedFor, Books

(* Who cashes out, of which purse, for which lock, and whether it is paid. *)
LEMMA CashOutEffect ==
  ASSUME TypeOK, NEW s \in Seats, user[s] # Nobody, CashOut(s)
  PROVE  \E paid \in BOOLEAN :
           /\ books' = Released(books, user[s], seatWallet[s], LockedFor(s), stack[s], paid)
           /\ failures' = IF paid \/ stack[s] = 0 THEN failures ELSE failures + 1
           /\ astray' = IF seatWallet[s] = "club" /\ (stack[s] = 0 \/ ~paid)
                        THEN astray \cup {user[s]} ELSE astray
BY DEF CashOut, Outcomes

LEMMA CashOutTypes ==
  ASSUME TypeOK, NEW s \in Seats, user[s] # Nobody, CashOut(s)
  PROVE  SeatTypes' /\ books' \in Books /\ HistoryTypes'
<1>1. PICK paid \in BOOLEAN :
        /\ books' = Released(books, user[s], seatWallet[s], LockedFor(s), stack[s], paid)
        /\ failures' = IF paid \/ stack[s] = 0 THEN failures ELSE failures + 1
        /\ astray' = IF seatWallet[s] = "club" /\ (stack[s] = 0 \/ ~paid)
                     THEN astray \cup {user[s]} ELSE astray
  BY CashOutEffect
<1>2. books' \in Books
  <2>1. \/ Touches(books, books', user[s], 0 - stack[s])
        \/ Touches(books, books', user[s], 0)
    BY <1>1, SeatAt, ReleasedSound
  <2> QED BY <2>1 DEF Touches
<1>3. SeatTypes'
  BY DEF TypeOK, SeatTypes, CashOut, Vacated, Wallets
<1>4. failures' \in Nat
  BY <1>1 DEF TypeOK
<1>5. astray' \subseteq Players
  BY <1>1, SeatAt DEF TypeOK
<1>6. advanced' \in [Players -> Nat] /\ origin' \in [Players -> Wallets]
      /\ newcomers' \subseteq Players
  BY DEF TypeOK, CashOut, Vacated, Wallets
<1> QED BY <1>2, <1>3, <1>4, <1>5, <1>6 DEF HistoryTypes

LEMMA AdvanceTypes ==
  ASSUME TypeOK, NEW p \in Players, NEW r, r.amount \in Nat, Advance(p, r)
  PROVE  advanced' \in [Players -> Nat]
BY DEF TypeOK, Advance

LEMMA Bounded ==
  /\ BuyIns \subseteq Nat \ {0} /\ Bets \subseteq Nat \ {0} /\ Rakes \subseteq Nat
  /\ Funds \in [Players -> Nat] /\ Grants \in [Players -> Nat]
BY ClubSeatsAssumption

LEMMA InitTypes == Init => TypeOK
<1> SUFFICES ASSUME Init PROVE TypeOK
  OBVIOUS
<1>1. SeatTypes
  BY DEF Init, SeatTypes, Wallets
<1>2. HostTypes
  <2>1. 0 \in 0 .. MaxSeats /\ "waiting" \in Phases
    BY MaxSeatsAssumption DEF Phases
  <2>2. kicks \in [Seats -> Players \cup {Nobody}]
    BY DEF Init
  <2> QED BY <2>1, <2>2 DEF Init, HostTypes
<1>3. HistoryTypes
  BY DEF Init, HistoryTypes, Wallets
<1>4. books \in Books
  BY Bounded DEF Init, Books
<1> QED BY <1>1, <1>2, <1>3, <1>4, TypesAre

LEMMA ReserveFor ==
  ASSUME TypeOK, NEW p \in Players, NEW x \in Nat, NEW guest \in BOOLEAN,
         NEW r, r = Reserve(books, p, x, guest), r.wallet # "none"
  PROVE  /\ r.amount \in Nat \ {0} /\ r.books \in Books
         /\ Touches(books, r.books, p, r.amount)
         /\ r.wallet \in {"global", "club"}
         /\ LoanCoversSeat => ClampBuyIn(r.amount) = r.amount
<1>1. books \in Books
  BY TypesAre
<1> QED BY <1>1, ReserveSound DEF TakenFromFunds, TakenFromClub, Touches

LEMMA SitDownTypes ==
  ASSUME TypeOK, NEW p \in Players, NEW s \in Seats, NEW x \in BuyIns, SitDown(p, s, x)
  PROVE  TypeOK'
<1> DEFINE r == Reserve(books, p, x, p \in Guests)
<1>0. x \in Nat
  BY Bounded
<1>1. /\ r.wallet # "none" /\ books' = r.books /\ user' = [user EXCEPT ![s] = p]
      /\ stack' = [stack EXCEPT ![s] = ClampBuyIn(r.amount)]
      /\ seatWallet' = [seatWallet EXCEPT ![s] = r.wallet]
      /\ seatLocked' = IF r.wallet = "club" THEN [seatLocked EXCEPT ![s] = r.amount]
                       ELSE seatLocked
      /\ Advance(p, r) /\ origin' = [origin EXCEPT ![p] = r.wallet]
      /\ newcomers' = IF phase = "waiting" THEN newcomers ELSE newcomers \cup {p}
      /\ UNCHANGED <<put, live, phase, cursor, host, hands, failures, astray>>
  BY DEF SitDown
<1>2. r.amount \in Nat /\ r.books \in Books /\ r.wallet \in Wallets
  <2> HIDE DEF r
  <2>1. r.wallet # "none" /\ (p \in Guests) \in BOOLEAN
    BY <1>1
  <2> QED BY <1>0, <2>1, ReserveFor DEF r, Wallets
<1> HIDE DEF r
<1>3. ClampBuyIn(r.amount) \in Nat
  BY <1>2, ClampType
<1>4. SeatTypes'
  BY <1>1, <1>2, <1>3 DEF TypeOK, SeatTypes
<1>5. HostTypes'
  BY <1>1 DEF TypeOK, HostTypes, host
<1>6. advanced' \in [Players -> Nat]
  BY <1>1, <1>2, AdvanceTypes
<1>7. HistoryTypes'
  BY <1>1, <1>2, <1>6 DEF TypeOK, HistoryTypes
<1> QED BY <1>1, <1>2, <1>4, <1>5, <1>7, TypesAreNext

LEMMA SitRefusedTypes ==
  ASSUME TypeOK, NEW p \in Players, NEW s \in Seats, NEW x \in BuyIns, SitRefused(p, s, x)
  PROVE  TypeOK'
<1> DEFINE r == Reserve(books, p, x, p \in Guests)
<1>0. x \in Nat
  BY Bounded
<1>1. /\ r.wallet # "none" /\ Advance(p, r)
      /\ UNCHANGED <<seats, phase, cursor, host, hands, origin, newcomers>>
      /\ \E paid \in Outcomes :
           /\ books' = Released(r.books, p, r.wallet, r.amount, r.amount, paid)
           /\ failures' = IF paid THEN failures ELSE failures + 1
           /\ astray' = IF paid \/ r.wallet # "club" THEN astray ELSE astray \cup {p}
  BY DEF SitRefused
<1>2. r.amount \in Nat /\ r.books \in Books
  <2> HIDE DEF r
  <2>1. r.wallet # "none" /\ (p \in Guests) \in BOOLEAN
    BY <1>1
  <2> QED BY <1>0, <2>1, ReserveFor DEF r
<1> HIDE DEF r
<1>3. PICK paid \in BOOLEAN :
           /\ books' = Released(r.books, p, r.wallet, r.amount, r.amount, paid)
           /\ failures' = IF paid THEN failures ELSE failures + 1
           /\ astray' = IF paid \/ r.wallet # "club" THEN astray ELSE astray \cup {p}
  BY <1>1 DEF Outcomes
<1>4. books' \in Books
  <2>1. \/ Touches(r.books, books', p, 0 - r.amount) \/ Touches(r.books, books', p, 0)
    BY <1>2, <1>3, ReleasedSound
  <2> QED BY <2>1 DEF Touches
<1>5. SeatTypes'
  BY <1>1 DEF TypeOK, SeatTypes, seats
<1>6. HostTypes'
  BY <1>1 DEF TypeOK, HostTypes, host
<1>7. advanced' \in [Players -> Nat]
  BY <1>1, <1>2, AdvanceTypes
<1>8. failures' \in Nat /\ astray' \subseteq Players
  BY <1>3 DEF TypeOK
<1>9. HistoryTypes'
  BY <1>1, <1>7, <1>8 DEF TypeOK, HistoryTypes
<1> QED BY <1>4, <1>5, <1>6, <1>9, TypesAreNext

LEMMA AddChipsTypes ==
  ASSUME TypeOK, NEW s \in Seats, NEW x \in BuyIns, AddChips(s, x)
  PROVE  TypeOK'
<1> DEFINE y == Lesser(x, MaxBuyIn - stack[s])
           r == Reserve(books, user[s], y, FALSE)
<1>0. user[s] \in Players /\ y \in Nat /\ stack[s] \in Nat
  <2>1. user[s] # Nobody /\ stack[s] < MaxBuyIn
    BY DEF AddChips
  <2> QED BY <2>1, SeatAt, Bounded, Terms DEF Lesser
<1>1. /\ r.wallet # "none" /\ books' = r.books
      /\ stack' = [stack EXCEPT ![s] = @ + r.amount]
      /\ Advance(user[s], r)
      /\ astray' = IF r.wallet = "club" THEN astray \cup {user[s]} ELSE astray
      /\ UNCHANGED <<user, put, live, seatWallet, seatLocked, phase, cursor, host, hands,
                     failures, origin, newcomers>>
  BY DEF AddChips
<1>2. r.amount \in Nat /\ r.books \in Books
  <2> HIDE DEF r, y
  <2>1. r.wallet # "none" /\ FALSE \in BOOLEAN
    BY <1>1
  <2> QED BY <1>0, <2>1, ReserveFor DEF r
<1> HIDE DEF r, y
<1>3. SeatTypes'
  BY <1>1, <1>2, <1>0 DEF TypeOK, SeatTypes
<1>4. HostTypes'
  BY <1>1 DEF TypeOK, HostTypes, host
<1>5. advanced' \in [Players -> Nat]
  BY <1>0, <1>1, <1>2, AdvanceTypes
<1>6. HistoryTypes'
  BY <1>0, <1>1, <1>5 DEF TypeOK, HistoryTypes
<1> QED BY <1>1, <1>2, <1>3, <1>4, <1>6, TypesAreNext

(* A buy-back that is not refused is a reservation. *)
LEMMA BuyBackReserves ==
  ASSUME BuyBack.wallet # "none"
  PROVE  BuyBack = Reserve(books, user[cursor], AutoBuyBack, seatWallet[cursor] = "club")
<1>1. Refused(books).wallet = "none"
  BY DEF Refused, Reservation
<1> QED BY <1>1 DEF BuyBack

(* The sweep over the seats has come to one. *)
LEMMA CursorSeat ==
  ASSUME TypeOK, cursor < MaxSeats
  PROVE  cursor \in Seats /\ cursor + 1 \in 0 .. MaxSeats
BY MaxSeatsAssumption DEF TypeOK, Seats

LEMMA BuyBackInTypes == ASSUME TypeOK, BuyBackIn PROVE TypeOK'
<1> DEFINE r == BuyBack
           s == cursor
<1>0. s \in Seats /\ user[s] \in Players
  BY CursorSeat, SeatAt DEF BuyBackIn, Sweeping, IsBust
<1>1. /\ r.wallet # "none" /\ books' = r.books
      /\ stack' = [stack EXCEPT ![s] = r.amount]
      /\ seatWallet' = [seatWallet EXCEPT ![s] = r.wallet]
      /\ Advance(user[s], r)
      /\ astray' = IF "club" \in {r.wallet, seatWallet[s]} THEN astray \cup {user[s]} ELSE astray
      /\ UNCHANGED <<user, put, live, seatLocked, phase, cursor, host, hands, failures,
                     origin, newcomers>>
  BY DEF BuyBackIn
<1>2. r.amount \in Nat /\ r.books \in Books /\ r.wallet \in Wallets
  <2>1. r = Reserve(books, user[s], AutoBuyBack, seatWallet[s] = "club")
    BY <1>1, BuyBackReserves
  <2> HIDE DEF r, s
  <2>2. PICK guest \in BOOLEAN : r = Reserve(books, user[s], AutoBuyBack, guest)
    <3>1. (seatWallet[s] = "club") \in BOOLEAN
      OBVIOUS
    <3> QED BY <2>1, <3>1
  <2>3. AutoBuyBack \in Nat /\ r.wallet # "none"
    BY <1>1, Terms
  <2>4. r.amount \in Nat \ {0} /\ r.books \in Books /\ r.wallet \in {"global", "club"}
    BY <1>0, <2>2, <2>3, ReserveFor
  <2> QED BY <2>4 DEF Wallets
<1> HIDE DEF r, s
<1>3. SeatTypes'
  BY <1>1, <1>2, <1>0 DEF TypeOK, SeatTypes
<1>4. HostTypes'
  BY <1>1 DEF TypeOK, HostTypes, host
<1>5. advanced' \in [Players -> Nat]
  BY <1>0, <1>1, <1>2, AdvanceTypes
<1>6. HistoryTypes'
  BY <1>0, <1>1, <1>5 DEF TypeOK, HistoryTypes
<1> QED BY <1>1, <1>2, <1>3, <1>4, <1>6, TypesAreNext

LEMMA StandUpTypes == ASSUME TypeOK, NEW s \in Seats, StandUp(s) PROVE TypeOK'
<1>1. HostTypes'
  BY DEF StandUp, TypeOK, HostTypes, host
<1> QED BY <1>1, CashOutTypes, TypesAreNext DEF StandUp

LEMMA HostKicksTypes == ASSUME TypeOK, NEW s \in Seats, HostKicks(s) PROVE TypeOK'
<1>1. HostTypes'
  BY DEF HostKicks, TypeOK, HostTypes
<1>2. CASE s \in live
  <2>1. UNCHANGED <<seats, books, failures, ghosts>>
    BY <1>2 DEF HostKicks
  <2> QED BY <1>1, <2>1, TypesAreNext DEF TypeOK, SeatTypes, HistoryTypes, Books, seats, ghosts
<1>3. CASE s \notin live
  <2>1. user[s] # Nobody /\ CashOut(s)
    BY <1>3 DEF HostKicks
  <2> QED BY <1>1, <2>1, CashOutTypes, TypesAreNext
<1> QED BY <1>2, <1>3

LEMMA KickPendingTypes == ASSUME TypeOK, NEW s \in Seats, KickPending(s) PROVE TypeOK'
<1>1. HostTypes'
  BY DEF KickPending, TypeOK, HostTypes
<1>2. CASE user[s] = Nobody
  <2>1. UNCHANGED <<seats, books, failures, ghosts>>
    BY <1>2 DEF KickPending
  <2> QED BY <1>1, <2>1, TypesAreNext DEF TypeOK, SeatTypes, HistoryTypes, Books, seats, ghosts
<1>3. CASE user[s] # Nobody
  <2>1. CashOut(s)
    BY <1>3 DEF KickPending
  <2> QED BY <1>1, <1>3, <2>1, CashOutTypes, TypesAreNext
<1> QED BY <1>2, <1>3

LEMMA EvictTypes == ASSUME TypeOK, Evict PROVE TypeOK'
<1>1. cursor \in Seats /\ cursor + 1 \in 0 .. MaxSeats
  BY CursorSeat DEF Evict, Sweeping
<1>2. HostTypes'
  BY <1>1 DEF Evict, StepOn, TypeOK, HostTypes, host
<1> QED BY <1>1, <1>2, CashOutTypes, TypesAreNext DEF Evict

LEMMA CloseTableTypes == ASSUME TypeOK, CloseTable PROVE TypeOK'
<1>1. CASE cursor = MaxSeats
  <2>1. /\ phase' = "closed" /\ cursor' = 0 /\ UNCHANGED <<seats, books, failures, ghosts>>
        /\ UNCHANGED <<host, hands>>
    BY <1>1 DEF CloseTable
  <2>2. 0 \in 0 .. MaxSeats /\ "closed" \in Phases
    BY MaxSeatsAssumption DEF Phases
  <2>3. HostTypes'
    BY <2>1, <2>2 DEF TypeOK, HostTypes, host
  <2> QED BY <2>1, <2>3, TypesAreNext DEF TypeOK, SeatTypes, HistoryTypes, Books, seats, ghosts
<1>2. CASE cursor # MaxSeats
  <2>1. cursor < MaxSeats
    BY <1>2, MaxSeatsAssumption DEF TypeOK
  <2>2. cursor \in Seats /\ cursor + 1 \in 0 .. MaxSeats
    BY <2>1, CursorSeat
  <2>3. /\ StepOn /\ UNCHANGED phase /\ UNCHANGED <<host, hands>>
        /\ IF user[cursor] # Nobody THEN CashOut(cursor)
           ELSE UNCHANGED <<seats, books, failures, ghosts>>
    BY <1>2 DEF CloseTable
  <2>4. HostTypes'
    BY <2>2, <2>3 DEF StepOn, TypeOK, HostTypes, host
  <2>5. CASE user[cursor] = Nobody
    BY <2>3, <2>4, <2>5, TypesAreNext DEF TypeOK, SeatTypes, HistoryTypes, Books, seats, ghosts
  <2>6. CASE user[cursor] # Nobody
    BY <2>2, <2>3, <2>4, <2>6, CashOutTypes, TypesAreNext
  <2> QED BY <2>5, <2>6
<1> QED BY <1>1, <1>2

LEMMA BustOutTypes == ASSUME TypeOK, BustOut PROVE TypeOK'
<1>1. cursor \in Seats /\ cursor + 1 \in 0 .. MaxSeats /\ user[cursor] \in Players
  BY CursorSeat, SeatAt DEF BustOut, Sweeping, IsBust
<1>2. HostTypes'
  BY <1>1 DEF BustOut, StepOn, TypeOK, HostTypes, host
<1>3. SeatTypes'
  BY DEF BustOut, Vacated, TypeOK, SeatTypes
<1>4. HistoryTypes'
  BY <1>1 DEF BustOut, Vacated, TypeOK, HistoryTypes, Wallets
<1>5. books' \in Books
  BY TypesAre DEF BustOut
<1> QED BY <1>2, <1>3, <1>4, <1>5, TypesAreNext

LEMMA MoveSeatTypes ==
  ASSUME TypeOK, NEW from \in Seats, NEW to \in Seats, MoveSeat(from, to) PROVE TypeOK'
<1>1. user[from] \in Players
  BY SeatAt DEF MoveSeat
<1>2. seatWallet' \in [Seats -> Wallets]
  BY DEF MoveSeat, WalletAfterMove, TypeOK, Wallets
<1>3. SeatTypes'
  BY <1>2 DEF MoveSeat, TypeOK, SeatTypes
<1>4. HostTypes' /\ books' \in Books
  BY TypesAre DEF MoveSeat, TypeOK, HostTypes, host
<1>5. HistoryTypes'
  BY <1>1 DEF MoveSeat, TypeOK, HistoryTypes
<1> QED BY <1>3, <1>4, <1>5, TypesAreNext

LEMMA NextHandTypes ==
  ASSUME TypeOK, NEW paid \in [Seats -> Nat], NextHandFollows(paid),
         failures' \in Nat, books' \in Books
  PROVE  TypeOK'
<1>1. SeatTypes'
  BY DEF NextHandFollows, TypeOK, SeatTypes
<1>2. HostTypes'
  <2>1. 0 \in 0 .. MaxSeats /\ "clearing" \in Phases
    BY MaxSeatsAssumption DEF Phases
  <2> QED BY <2>1 DEF NextHandFollows, TypeOK, HostTypes, host
<1>3. HistoryTypes'
  BY DEF NextHandFollows, TypeOK, HistoryTypes, ghosts
<1> QED BY <1>1, <1>2, <1>3, TypesAreNext

(* What a showdown pays, and what the club takes. *)
LEMMA ShowdownEffect ==
  ASSUME TypeOK, ShowdownResolved
  PROVE  \E rake \in Nat, won \in [Seats -> Nat] :
           /\ Total(won) + rake = Total(put) /\ NextHandFollows(won)
           /\ \/ books' = [books EXCEPT !.table = @ - rake] /\ UNCHANGED failures
              \/ books' = books /\ failures' = failures + 1
<1>1. Total(put) \in Nat
  BY TotalType DEF TypeOK
<1>2. PICK r \in Rakes :
        /\ \E won \in Payouts(Lesser(r, Total(put))) : NextHandFollows(won)
        /\ \/ books' = [books EXCEPT !.table = @ - Lesser(r, Total(put))] /\ UNCHANGED failures
           \/ failures' = failures + 1 /\ UNCHANGED books
  BY DEF ShowdownResolved
<1>3. PICK rake \in Nat : rake = Lesser(r, Total(put))
  BY <1>1, Bounded DEF Lesser
<1>4. PICK won \in Payouts(rake) : NextHandFollows(won)
  BY <1>2, <1>3
<1>5. won \in [Seats -> Nat] /\ Total(won) + rake = Total(put)
  BY <1>1 DEF Payouts
<1>6. \/ books' = [books EXCEPT !.table = @ - rake] /\ UNCHANGED failures
      \/ books' = books /\ failures' = failures + 1
  BY <1>2, <1>3
<1> QED BY <1>4, <1>5, <1>6

LEMMA RakeBooks ==
  ASSUME NEW b \in Books, NEW rake \in Nat, NEW c, c = [b EXCEPT !.table = @ - rake]
  PROVE  /\ c \in Books /\ c.table = b.table - rake
         /\ \A p \in Players : SameAccount(b, c, p)
BY DEF Books, SameAccount

LEMMA ShowdownTypes == ASSUME TypeOK, ShowdownResolved \/ ShowdownFailed PROVE TypeOK'
<1>0. books \in Books /\ failures \in Nat /\ put \in [Seats -> Nat]
  BY TypesAre DEF TypeOK
<1>1. CASE ShowdownResolved
  <2>1. PICK rake \in Nat, won \in [Seats -> Nat] :
          /\ NextHandFollows(won)
          /\ \/ books' = [books EXCEPT !.table = @ - rake] /\ UNCHANGED failures
             \/ books' = books /\ failures' = failures + 1
    BY <1>1, ShowdownEffect
  <2>2. books' \in Books /\ failures' \in Nat
    BY <1>0, <2>1, RakeBooks
  <2> QED BY <2>1, <2>2, NextHandTypes
<1>2. CASE ShowdownFailed
  BY <1>0, <1>2, NextHandTypes DEF ShowdownFailed
<1> QED BY <1>1, <1>2

(* The steps that neither seat anyone nor move a chip from seat to seat. *)
Quiet ==
  \/ AutoStartHand \/ BettingEnds \/ KeepSeat \/ SeatsCleared
  \/ HostCloses \/ SafePointDone \/ ScheduledClose
  \/ \E s \in Seats : Fold(s)

LEMMA QuietTypes == ASSUME TypeOK, Quiet PROVE TypeOK'
<1>1. CASE AutoStartHand
  BY <1>1 DEF AutoStartHand, Occupied, TypeOK, Phases, host, ghosts
<1>2. CASE BettingEnds
  BY <1>2 DEF BettingEnds, TypeOK, Phases, seats, host, ghosts
<1>3. CASE KeepSeat
  <2>1. cursor + 1 \in 0 .. MaxSeats
    BY <1>3, CursorSeat DEF KeepSeat, Sweeping
  <2> QED BY <1>3, <2>1 DEF KeepSeat, StepOn, TypeOK, seats, host, ghosts
<1>4. CASE SeatsCleared
  <2>1. 0 \in 0 .. MaxSeats
    BY MaxSeatsAssumption
  <2> QED BY <1>4, <2>1 DEF SeatsCleared, TypeOK, Phases, seats, host, ghosts
<1>5. CASE HostCloses
  BY <1>5 DEF HostCloses, TypeOK, seats, ghosts
<1>6. CASE SafePointDone
  BY <1>6 DEF SafePointDone, TypeOK, Phases, seats, host
<1>7. CASE ScheduledClose
  BY <1>7 DEF ScheduledClose, TypeOK, Phases, seats, host, ghosts
<1>8. CASE \E s \in Seats : Fold(s)
  BY <1>8 DEF Fold, TypeOK, host, ghosts
<1> QED BY <1>1, <1>2, <1>3, <1>4, <1>5, <1>6, <1>7, <1>8 DEF Quiet

LEMMA BetTypes == ASSUME TypeOK, NEW s \in Seats, NEW x \in Bets, Bet(s, x) PROVE TypeOK'
<1>1. stack[s] - x \in Nat /\ put[s] + x \in Nat
  BY SeatAt, Bounded DEF Bet
<1>2. SeatTypes'
  BY <1>1 DEF Bet, TypeOK, SeatTypes
<1> QED BY <1>2, TypesAreNext DEF Bet, TypeOK, HostTypes, HistoryTypes, Books, host, ghosts

(* The cases of a step. *)
Step ==
  \/ \E p \in Players, s \in Seats, x \in BuyIns : SitDown(p, s, x)
  \/ \E p \in Players, s \in Seats, x \in BuyIns : SitRefused(p, s, x)
  \/ \E s \in Seats, x \in BuyIns : AddChips(s, x)
  \/ \E s \in Seats, x \in Bets : Bet(s, x)
  \/ \E s \in Seats : StandUp(s)
  \/ \E s \in Seats : HostKicks(s)
  \/ \E s \in Seats : KickPending(s)
  \/ \E from \in Seats, to \in Seats : MoveSeat(from, to)
  \/ ShowdownResolved \/ ShowdownFailed
  \/ Evict \/ BuyBackIn \/ BustOut \/ CloseTable \/ Quiet

LEMMA StepsAre == Next => Step
BY DEF Next, Step, Quiet

LEMMA TypesStep == TypeOK /\ [Next]_vars => TypeOK'
<1> SUFFICES ASSUME TypeOK, [Next]_vars PROVE TypeOK'
  OBVIOUS
<1>1. CASE UNCHANGED vars
  BY <1>1 DEF vars, seats, host, ghosts, TypeOK
<1>2. CASE Step
  BY <1>2, SitDownTypes, SitRefusedTypes, AddChipsTypes, BetTypes, StandUpTypes, HostKicksTypes,
     KickPendingTypes, MoveSeatTypes, ShowdownTypes, EvictTypes, BuyBackInTypes,
     BustOutTypes, CloseTableTypes, QuietTypes DEF Step
<1> QED BY <1>1, <1>2, StepsAre

(* Whatever the club's terms and however the database fails, no stack,     *)
(* purse or lock is ever negative, and the sweeps never leave the ring     *)
(* (reserveBuyIn, releaseBuyIn, SettleSeatAtTable).                        *)
THEOREM ClubSeatsTypes == Spec => []TypeOK
BY InitTypes, TypesStep, PTL DEF Spec

(* A step that may empty a seat pays its player out, felts him, or leaves  *)
(* everyone where he is.                                                   *)
LEMMA Departures ==
  ASSUME TypeOK,
         \/ \E s \in Seats : StandUp(s) \/ HostKicks(s) \/ KickPending(s)
         \/ Evict \/ CloseTable
  PROVE  \/ \E s \in Seats : user[s] # Nobody /\ CashOut(s)
         \/ UNCHANGED <<seats, books, failures, ghosts>>
<1>1. ASSUME NEW s \in Seats, StandUp(s) \/ HostKicks(s) \/ KickPending(s)
      PROVE  (user[s] # Nobody /\ CashOut(s)) \/ UNCHANGED <<seats, books, failures, ghosts>>
  BY <1>1 DEF StandUp, HostKicks, KickPending
<1>2. CASE Evict
  BY <1>2, CursorSeat DEF Evict, Sweeping
<1>3. CASE CloseTable
  <2>1. CASE cursor = MaxSeats \/ user[cursor] = Nobody
    BY <1>3, <2>1 DEF CloseTable
  <2>2. CASE cursor # MaxSeats /\ user[cursor] # Nobody
    <3>1. cursor \in Seats
      BY <2>2, CursorSeat, MaxSeatsAssumption DEF TypeOK
    <3> QED BY <1>3, <2>2, <3>1 DEF CloseTable
  <2> QED BY <2>1, <2>2
<1> QED BY <1>1, <1>2, <1>3

----------------------------------------------------------------------------
(* The table's account. *)

(* Stacks and pots went up by no more than the table's account did. *)
LEMMA StillCovered ==
  ASSUME TypeOK, TypeOK', TableCanPay, NEW d \in Int,
         books'.table >= books.table + d,
         Total(stack') + Total(put') <= Total(stack) + Total(put) + d
  PROVE  TableCanPay'
<1>1. /\ Total(stack) \in Nat /\ Total(put) \in Nat /\ books.table \in Int
      /\ Total(stack') \in Nat /\ Total(put') \in Nat /\ books'.table \in Int
  BY TotalType DEF TypeOK
<1> QED BY <1>1 DEF TableCanPay

(* One seat's stack is set, and no other chips move. *)
LEMMA StackSet ==
  ASSUME TypeOK, NEW s \in Seats, NEW n \in Nat, stack' = [stack EXCEPT ![s] = n], put' = put
  PROVE  Total(stack') + Total(put') = Total(stack) + Total(put) + (n - stack[s])
<1>0. stack \in [Seats -> Nat] /\ put \in [Seats -> Nat]
  BY DEF TypeOK
<1>1. stack' \in [Seats -> Nat] /\ stack[s] \in Nat
  BY <1>0
<1>2. Total(stack') + stack[s] = Total(stack) + n
  BY <1>0, TotalChanged
<1>3. PICK a \in Nat, b \in Nat, c \in Nat, k \in Nat :
        a = Total(stack) /\ b = Total(put) /\ c = Total(stack') /\ k = stack[s]
  BY <1>0, <1>1, TotalType
<1>4. c + k = a + n
  BY <1>2, <1>3
<1>5. c + b = a + b + (n - k)
  BY <1>4
<1> QED BY <1>3, <1>5

(* A seat is emptied: what was on it is gone from the sum. *)
LEMMA Emptied ==
  ASSUME TypeOK, NEW s \in Seats,
         stack' = [stack EXCEPT ![s] = 0], put' = [put EXCEPT ![s] = 0]
  PROVE  Total(stack') + Total(put') <= Total(stack) + Total(put) - stack[s]
<1>1. stack \in [Seats -> Nat] /\ put \in [Seats -> Nat]
  BY DEF TypeOK
<1>2. /\ stack' \in [Seats -> Nat] /\ stack[s] \in Nat
      /\ Total(stack') + stack[s] = Total(stack)
  BY <1>1, TotalEmptied
<1>3. put' \in [Seats -> Nat] /\ Total(put') <= Total(put)
  BY <1>1, TotalEmptied
<1>4. Total(stack) \in Nat /\ Total(put) \in Nat /\ Total(stack') \in Nat /\ Total(put') \in Nat
  BY <1>1, <1>2, <1>3, TotalType
<1> QED BY <1>2, <1>3, <1>4

LEMMA CashOutCovered ==
  ASSUME TypeOK, TypeOK', TableCanPay, NEW s \in Seats, user[s] # Nobody, CashOut(s)
  PROVE  TableCanPay'
<1>1. user[s] \in Players /\ stack[s] \in Nat /\ books \in Books
  BY SeatAt
<1>2. \/ Touches(books, books', user[s], 0 - stack[s])
      \/ Touches(books, books', user[s], 0)
  BY <1>1, CashOutEffect, ReleasedSound, SeatAt
<1>3. books'.table >= books.table + (0 - stack[s])
  BY <1>1, <1>2, Amounts DEF Touches
<1>4. stack' = [stack EXCEPT ![s] = 0] /\ put' = [put EXCEPT ![s] = 0]
  BY DEF CashOut, Vacated
<1>5. Total(stack') + Total(put') <= Total(stack) + Total(put) - stack[s]
  BY <1>4, Emptied
<1>6. Total(stack) \in Nat /\ Total(put) \in Nat /\ Total(stack') \in Nat /\ Total(put') \in Nat
  BY TotalType DEF TypeOK
<1>7. Total(stack') + Total(put') <= Total(stack) + Total(put) + (0 - stack[s])
  BY <1>1, <1>5, <1>6
<1> QED BY <1>1, <1>3, <1>7, StillCovered

(* Chips are reserved, and a seat has that many more, or at most that many. *)
LEMMA SeatCharged ==
  ASSUME TypeOK, TypeOK', TableCanPay, NEW p \in Players, NEW s \in Seats, NEW x \in Nat,
         Touches(books, books', p, x), put' = put,
         NEW n \in Nat, n <= stack[s] + x, stack' = [stack EXCEPT ![s] = n]
  PROVE  TableCanPay'
<1>1. books'.table = books.table + x /\ books.table \in Int
  BY DEF Touches, TypeOK
<1>2. Total(stack') + Total(put') = Total(stack) + Total(put) + (n - stack[s])
  BY StackSet
<1>3. Total(stack) \in Nat /\ Total(put) \in Nat /\ Total(stack') \in Nat /\ Total(put') \in Nat
      /\ stack[s] \in Nat
  BY TotalType DEF TypeOK
<1>4. Total(stack') + Total(put') <= Total(stack) + Total(put) + x
  BY <1>2, <1>3
<1>5. x \in Int /\ books'.table >= books.table + x
  BY <1>1
<1> QED BY <1>4, <1>5, StillCovered

LEMMA SitDownCovered ==
  ASSUME LoanCoversSeat, TypeOK, TypeOK', TableCanPay,
         NEW p \in Players, NEW s \in Seats, NEW x \in BuyIns, SitDown(p, s, x)
  PROVE  TableCanPay'
<1>1. PICK r : r = Reserve(books, p, x, p \in Guests)
  OBVIOUS
<1>2. /\ r.wallet # "none" /\ books' = r.books /\ put' = put
      /\ stack' = [stack EXCEPT ![s] = ClampBuyIn(r.amount)]
  BY <1>1 DEF SitDown
<1>3. /\ r.amount \in Nat /\ Touches(books, books', p, r.amount)
      /\ ClampBuyIn(r.amount) = r.amount
  <2>1. x \in Nat /\ (p \in Guests) \in BOOLEAN
    BY Bounded
  <2> QED BY <1>1, <1>2, <2>1, ReserveFor
<1>4. r.amount <= stack[s] + r.amount
  BY <1>3, SeatAt
<1> QED BY <1>2, <1>3, <1>4, SeatCharged

LEMMA AddChipsCovered ==
  ASSUME TypeOK, TypeOK', TableCanPay, NEW s \in Seats, NEW x \in BuyIns, AddChips(s, x)
  PROVE  TableCanPay'
<1>1. PICK y \in Nat : y = Lesser(x, MaxBuyIn - stack[s])
  <2>1. stack[s] < MaxBuyIn
    BY DEF AddChips
  <2> QED BY <2>1, SeatAt, Bounded, Terms DEF Lesser
<1>2. PICK r : r = Reserve(books, user[s], y, FALSE)
  OBVIOUS
<1>3. /\ r.wallet # "none" /\ books' = r.books /\ put' = put /\ user[s] # Nobody
      /\ stack' = [stack EXCEPT ![s] = @ + r.amount]
  BY <1>1, <1>2 DEF AddChips
<1>4. r.amount \in Nat /\ Touches(books, books', user[s], r.amount) /\ user[s] \in Players
  BY <1>2, <1>3, SeatAt, ReserveFor
<1>5. stack[s] \in Nat
  BY SeatAt
<1>6. PICK n \in Nat : n = stack[s] + r.amount
  BY <1>4, <1>5
<1>7. stack' = [stack EXCEPT ![s] = n] /\ n <= stack[s] + r.amount
  BY <1>3, <1>4, <1>5, <1>6
<1> QED BY <1>3, <1>4, <1>7, SeatCharged

LEMMA BuyBackInCovered ==
  ASSUME TypeOK, TypeOK', TableCanPay, BuyBackIn PROVE TableCanPay'
<1>1. PICK s \in Seats : s = cursor /\ user[s] \in Players
  BY CursorSeat, SeatAt DEF BuyBackIn, Sweeping, IsBust
<1>2. PICK r : r = BuyBack
  OBVIOUS
<1>3. /\ r.wallet # "none" /\ books' = r.books /\ put' = put
      /\ stack' = [stack EXCEPT ![s] = r.amount]
  BY <1>1, <1>2 DEF BuyBackIn
<1>4. r = Reserve(books, user[s], AutoBuyBack, seatWallet[s] = "club")
  BY <1>1, <1>2, <1>3, BuyBackReserves
<1>5. r.amount \in Nat /\ Touches(books, books', user[s], r.amount)
  BY <1>1, <1>3, <1>4, Terms, ReserveFor
<1>6. r.amount <= stack[s] + r.amount
  BY <1>5, SeatAt
<1> QED BY <1>1, <1>3, <1>5, <1>6, SeatCharged

(* A refusal gives back what it has taken, or leaves it to the table. *)
LEMMA SitRefusedCovered ==
  ASSUME TypeOK, TypeOK', TableCanPay,
         NEW p \in Players, NEW s \in Seats, NEW x \in BuyIns, SitRefused(p, s, x)
  PROVE  TableCanPay'
<1>1. PICK r : r = Reserve(books, p, x, p \in Guests)
  OBVIOUS
<1>2. /\ r.wallet # "none" /\ stack' = stack /\ put' = put
      /\ \E paid \in BOOLEAN :
           books' = Released(r.books, p, r.wallet, r.amount, r.amount, paid)
  BY <1>1 DEF SitRefused, Outcomes, seats
<1>3. r.amount \in Nat /\ r.books \in Books /\ Touches(books, r.books, p, r.amount)
  <2>1. x \in Nat /\ (p \in Guests) \in BOOLEAN
    BY Bounded
  <2> QED BY <1>1, <1>2, <2>1, ReserveFor
<1>4. \/ Touches(r.books, books', p, 0 - r.amount) \/ Touches(r.books, books', p, 0)
  BY <1>2, <1>3, ReleasedSound
<1>5. books'.table >= books.table + 0
  <2>1. r.books.table = books.table + r.amount /\ books.table \in Int
    BY <1>3 DEF Touches, TypeOK
  <2>2. books'.table = r.books.table + (0 - r.amount) \/ books'.table = r.books.table + 0
    BY <1>4 DEF Touches
  <2> QED BY <1>3, <2>1, <2>2
<1>6. Total(stack') + Total(put') <= Total(stack) + Total(put) + 0
  BY <1>2, TotalType DEF TypeOK
<1> QED BY <1>5, <1>6, StillCovered

LEMMA MoveSeatCovered ==
  ASSUME TypeOK, TypeOK', TableCanPay,
         NEW from \in Seats, NEW to \in Seats, MoveSeat(from, to)
  PROVE  TableCanPay'
<1>1. /\ stack' = [stack EXCEPT ![to] = stack[from], ![from] = 0] /\ from # to
      /\ put' = put /\ books' = books
  BY DEF MoveSeat
<1>2. stack \in [Seats -> Nat] /\ stack[from] \in Nat /\ stack[to] \in Nat
  BY DEF TypeOK
<1>3. PICK f : f = [stack EXCEPT ![to] = stack[from]]
  OBVIOUS
<1>4. f \in [Seats -> Nat] /\ f[from] = stack[from] /\ stack' = [f EXCEPT ![from] = 0]
  BY <1>1, <1>2, <1>3
<1>5. Total(f) + stack[to] = Total(stack) + stack[from]
  BY <1>2, <1>3, TotalChanged
<1>6. Total(stack') + f[from] = Total(f)
  BY <1>4, TotalEmptied
<1>7. /\ Total(f) \in Nat /\ Total(stack) \in Nat /\ Total(put) \in Nat
      /\ Total(stack') \in Nat /\ Total(put') \in Nat
  BY <1>4, TotalType DEF TypeOK
<1>8. Total(stack') <= Total(stack)
  BY <1>2, <1>4, <1>5, <1>6, <1>7
<1>9. books'.table >= books.table + 0
  BY <1>1 DEF TypeOK
<1>10. Total(stack') + Total(put') <= Total(stack) + Total(put) + 0
  BY <1>1, <1>7, <1>8
<1> QED BY <1>9, <1>10, StillCovered

LEMMA BetCovered ==
  ASSUME TypeOK, TypeOK', TableCanPay, NEW s \in Seats, NEW x \in Bets, Bet(s, x)
  PROVE  TableCanPay'
<1>1. /\ stack' = [stack EXCEPT ![s] = @ - x] /\ put' = [put EXCEPT ![s] = @ + x]
      /\ x <= stack[s] /\ books' = books
  BY DEF Bet
<1>2. /\ stack \in [Seats -> Nat] /\ put \in [Seats -> Nat]
      /\ stack[s] \in Nat /\ put[s] \in Nat /\ x \in Nat
  BY Bounded DEF TypeOK
<1>3. PICK a \in Nat, c \in Nat : a = stack[s] - x /\ c = put[s] + x
  BY <1>1, <1>2
<1>4. Total(stack') + stack[s] = Total(stack) + a
  BY <1>1, <1>2, <1>3, TotalChanged
<1>5. Total(put') + put[s] = Total(put) + c
  BY <1>1, <1>2, <1>3, TotalChanged
<1>6. Total(stack) \in Nat /\ Total(put) \in Nat /\ Total(stack') \in Nat /\ Total(put') \in Nat
  BY TotalType DEF TypeOK
<1>7. Total(stack') + Total(put') = Total(stack) + Total(put)
  <2>1. PICK y \in Nat : y = stack[s]
    BY <1>2
  <2>2. PICK z \in Nat : z = put[s]
    BY <1>2
  <2>3. a = y - x /\ c = z + x
    BY <1>3, <2>1, <2>2
  <2>4. Total(stack') + y = Total(stack) + a /\ Total(put') + z = Total(put) + c
    BY <1>4, <1>5, <2>1, <2>2
  <2> QED BY <1>2, <1>6, <2>3, <2>4
<1>8. books'.table >= books.table + 0
  BY <1>1 DEF TypeOK
<1> QED BY <1>6, <1>7, <1>8, StillCovered

(* The pot goes to the stacks. *)
LEMMA NextHandCovered ==
  ASSUME TypeOK, TypeOK', TableCanPay, NEW paid \in [Seats -> Nat], NextHandFollows(paid),
         NEW d \in Int, Total(paid) <= Total(put) + d, books'.table >= books.table + d
  PROVE  TableCanPay'
<1>1. /\ stack' = [s \in Seats |-> stack[s] + paid[s]] /\ put' = [s \in Seats |-> 0]
  BY DEF NextHandFollows
<1>2. stack \in [Seats -> Nat]
  BY DEF TypeOK
<1>3. Total(stack') = Total(stack) + Total(paid) /\ Total(put') = 0
  BY <1>1, <1>2, TotalOfSum, TotalOfNothing
<1>4. Total(stack) \in Nat /\ Total(put) \in Nat /\ Total(paid) \in Nat
  BY TotalType DEF TypeOK
<1>5. Total(stack') + Total(put') <= Total(stack) + Total(put) + d
  BY <1>3, <1>4
<1> QED BY <1>5, StillCovered

LEMMA ShowdownCovered ==
  ASSUME TypeOK, TypeOK', TableCanPay, ShowdownResolved \/ ShowdownFailed PROVE TableCanPay'
<1>0. books \in Books /\ books.table \in Int /\ put \in [Seats -> Nat] /\ Total(put) \in Nat
  BY TypesAre, TotalType DEF TypeOK
<1>1. CASE ShowdownResolved
  <2>1. PICK rake \in Nat, won \in [Seats -> Nat] :
          /\ Total(won) + rake = Total(put) /\ NextHandFollows(won)
          /\ \/ books' = [books EXCEPT !.table = @ - rake] /\ UNCHANGED failures
             \/ books' = books /\ failures' = failures + 1
    BY <1>1, ShowdownEffect
  <2>2. books'.table >= books.table - rake
    BY <1>0, <2>1, RakeBooks
  <2>3. PICK d \in Int : d = 0 - rake
    OBVIOUS
  <2>4. Total(won) <= Total(put) + d /\ books'.table >= books.table + d
    <3>1. Total(won) \in Nat
      BY TotalType
    <3> QED BY <1>0, <2>1, <2>2, <2>3, <3>1
  <2> QED BY <2>1, <2>4, NextHandCovered
<1>2. CASE ShowdownFailed
  <2>1. NextHandFollows(put) /\ books' = books
    BY <1>2 DEF ShowdownFailed
  <2>2. Total(put) <= Total(put) + 0 /\ books'.table >= books.table + 0
    BY <1>0, <2>1
  <2> QED BY <1>0, <2>1, <2>2, NextHandCovered
<1> QED BY <1>1, <1>2

(* No chips move, in seats, pots or books. *)
LEMMA NothingPaid ==
  ASSUME TableCanPay, UNCHANGED <<stack, put, books>> PROVE TableCanPay'
BY DEF TableCanPay

LEMMA QuietMovesNothing == ASSUME Quiet PROVE UNCHANGED <<stack, put, books>>
BY DEF Quiet, AutoStartHand, BettingEnds, KeepSeat, SeatsCleared, HostCloses, SafePointDone,
       ScheduledClose, Fold, seats

LEMMA OthersCovered ==
  ASSUME TypeOK, TypeOK', TableCanPay,
         \/ \E s \in Seats : StandUp(s) \/ HostKicks(s) \/ KickPending(s)
         \/ Evict \/ BustOut \/ CloseTable \/ Quiet
  PROVE  TableCanPay'
<1>1. CASE \E s \in Seats : user[s] # Nobody /\ CashOut(s)
  BY <1>1, CashOutCovered
<1>2. CASE UNCHANGED <<stack, put, books>>
  BY <1>2, NothingPaid
<1>3. CASE \/ \E s \in Seats : StandUp(s) \/ HostKicks(s) \/ KickPending(s)
           \/ Evict \/ CloseTable
  BY <1>1, <1>2, <1>3, Departures DEF seats
<1>5. CASE BustOut
  <2>1. cursor \in Seats
    BY <1>5, CursorSeat DEF BustOut, Sweeping
  <2>2. /\ stack' = [stack EXCEPT ![cursor] = 0] /\ put' = [put EXCEPT ![cursor] = 0]
        /\ books' = books /\ stack[cursor] = 0
    BY <1>5 DEF BustOut, Vacated, IsBust
  <2>3. Total(stack') + Total(put') <= Total(stack) + Total(put) - stack[cursor]
    BY <2>1, <2>2, Emptied
  <2>4. Total(stack) \in Nat /\ Total(put) \in Nat /\ Total(stack') \in Nat /\ Total(put') \in Nat
        /\ books.table \in Int
    BY TotalType DEF TypeOK
  <2>5. Total(stack') + Total(put') <= Total(stack) + Total(put) + 0
    BY <2>2, <2>3, <2>4
  <2>6. books'.table >= books.table + 0
    BY <2>2, <2>4
  <2> QED BY <2>5, <2>6, StillCovered
<1>7. CASE Quiet
  BY <1>2, <1>7, QuietMovesNothing
<1> QED BY <1>3, <1>5, <1>7

LEMMA CoveredInit == Init => TableCanPay
<1> SUFFICES ASSUME Init PROVE TableCanPay
  OBVIOUS
<1>1. stack = [s \in Seats |-> 0] /\ put = [s \in Seats |-> 0] /\ books.table = 0
  BY DEF Init
<1> QED BY <1>1, TotalOfNothing DEF TableCanPay

LEMMA CoveredStep ==
  ASSUME LoanCoversSeat
  PROVE  TypeOK /\ TypeOK' /\ TableCanPay /\ [Next]_vars => TableCanPay'
<1> SUFFICES ASSUME TypeOK, TypeOK', TableCanPay, [Next]_vars PROVE TableCanPay'
  OBVIOUS
<1>1. CASE UNCHANGED vars
  BY <1>1, NothingPaid DEF vars, seats
<1>2. CASE Step
  BY <1>2, SitDownCovered, SitRefusedCovered, AddChipsCovered, BetCovered, MoveSeatCovered,
     ShowdownCovered, BuyBackInCovered, OthersCovered DEF Step
<1> QED BY <1>1, <1>2, StepsAre

(* Whatever purses the chips of the seats come from, whatever the rake and *)
(* however often the database fails, the table's account covers all stacks *)
(* and pots: nobody is paid chips that were never charged for.  It takes   *)
(* that a loan, if there is one, is worth a seat: the buy-in is clamped    *)
(* down to the loan, and the seat up to the platform's minimum.            *)
THEOREM TableAlwaysPays == LoanCoversSeat => (Spec => []TableCanPay)
<1> SUFFICES ASSUME LoanCoversSeat PROVE Spec => []TableCanPay
  OBVIOUS
<1>1. TypeOK /\ TypeOK' /\ TableCanPay /\ [Next]_vars => TableCanPay'
  BY CoveredStep
<1> QED BY <1>1, CoveredInit, ClubSeatsTypes, PTL DEF Spec

----------------------------------------------------------------------------
(* Who sits where, and on whose money. *)

(* Nobody sits twice; and a seat has the purse its player bought in from,  *)
(* which is the cash purse only if a later reservation for him would be    *)
(* of cash again.                                                          *)
OneSeatEach == \A r, s \in Seats : user[r] = user[s] /\ user[s] # Nobody => r = s

PurseOf(p, w, from) ==
  /\ w = from /\ w \in {"global", "club"}
  /\ w = "global" => ~OnClubChips(p, FALSE)

PurseKnown == \A s \in Occupied : PurseOf(user[s], seatWallet[s], origin[user[s]])

Seating == TypeOK /\ OneSeatEach /\ PurseKnown

LEMMA SeatingStays ==
  ASSUME Seating, TypeOK', UNCHANGED <<user, seatWallet, origin>> PROVE Seating'
BY DEF Seating, OneSeatEach, PurseKnown, Occupied

(* A player is gone from his seat, whatever becomes of its purse. *)
LEMMA SeatingLeft ==
  ASSUME Seating, TypeOK', NEW s \in Seats, user[s] # Nobody,
         user' = [user EXCEPT ![s] = Nobody], origin' = [origin EXCEPT ![user[s]] = "none"],
         \A r \in Seats \ {s} : seatWallet'[r] = seatWallet[r]
  PROVE  Seating'
<1>1. TypeOK /\ OneSeatEach /\ PurseKnown /\ user[s] \in Players
  BY SeatAt DEF Seating
<1>2. /\ user'[s] = Nobody
      /\ \A r \in Seats \ {s} : user'[r] = user[r]
  BY <1>1 DEF TypeOK
<1>3. OneSeatEach'
  BY <1>1, <1>2 DEF OneSeatEach
<1>4. ASSUME NEW r \in Occupied'
      PROVE  /\ r \in Occupied /\ user'[r] = user[r] /\ seatWallet'[r] = seatWallet[r]
             /\ origin'[user'[r]] = origin[user[r]]
  <2>1. r \in Seats /\ r # s /\ user'[r] = user[r] /\ user[r] # Nobody
    BY <1>2, <1>4 DEF Occupied
  <2>2. user[r] # user[s] /\ user[r] \in Players
    BY <1>1, <2>1, SeatAt DEF OneSeatEach
  <2>3. origin'[user[r]] = origin[user[r]]
    BY <1>1, <2>2 DEF TypeOK
  <2>4. seatWallet'[r] = seatWallet[r] /\ r \in Occupied
    BY <2>1 DEF Occupied
  <2> QED BY <2>1, <2>3, <2>4
<1>5. PurseKnown'
  <2> SUFFICES ASSUME NEW r \in Occupied'
               PROVE  PurseOf(user'[r], seatWallet'[r], origin'[user'[r]])
    BY DEF PurseKnown
  <2>1. PurseOf(user[r], seatWallet[r], origin[user[r]])
    BY <1>1, <1>4 DEF PurseKnown
  <2> QED BY <1>4, <2>1
<1> QED BY <1>3, <1>5 DEF Seating

LEMMA CashOutSeating ==
  ASSUME Seating, TypeOK', NEW s \in Seats, user[s] # Nobody, CashOut(s) PROVE Seating'
<1>1. /\ user' = [user EXCEPT ![s] = Nobody] /\ origin' = [origin EXCEPT ![user[s]] = "none"]
      /\ seatWallet' = [seatWallet EXCEPT ![s] = "none"]
  BY DEF CashOut, Vacated
<1>2. \A r \in Seats \ {s} : seatWallet'[r] = seatWallet[r]
  BY <1>1 DEF Seating, TypeOK
<1> QED BY <1>1, <1>2, SeatingLeft

LEMMA BustOutSeating == ASSUME Seating, TypeOK', BustOut PROVE Seating'
<1>1. cursor \in Seats
  BY CursorSeat DEF BustOut, Sweeping, Seating
<1>2. /\ user' = [user EXCEPT ![cursor] = Nobody]
      /\ origin' = [origin EXCEPT ![user[cursor]] = "none"]
      /\ seatWallet' = seatWallet /\ user[cursor] # Nobody
  BY DEF BustOut, Vacated, IsBust
<1> QED BY <1>1, <1>2, SeatingLeft

(* Terms that put a player on club chips put a guest on them too. *)
LEMMA GuestsTerms ==
  ASSUME NEW p, NEW guest, OnClubChips(p, FALSE)
  PROVE  OnClubChips(p, guest)
BY DEF OnClubChips

LEMMA SitDownSeating ==
  ASSUME Seating, TypeOK', NEW p \in Players, NEW s \in Seats, NEW x \in BuyIns, SitDown(p, s, x)
  PROVE  Seating'
<1>0. TypeOK /\ OneSeatEach /\ PurseKnown /\ books \in Books
  BY TypesAre DEF Seating
<1>1. PICK r : r = Reserve(books, p, x, p \in Guests)
  OBVIOUS
<1>2. /\ r.wallet # "none" /\ user' = [user EXCEPT ![s] = p] /\ user[s] = Nobody
      /\ seatWallet' = [seatWallet EXCEPT ![s] = r.wallet]
      /\ origin' = [origin EXCEPT ![p] = r.wallet]
      /\ \A q \in Seats : user[q] # p
  BY <1>1 DEF SitDown, Seated
<1>3. r.wallet \in {"global", "club"} /\ (r.wallet = "global" => ~OnClubChips(p, FALSE))
  <2>1. x \in Nat /\ (p \in Guests) \in BOOLEAN
    BY Bounded
  <2>2. PICK guest \in BOOLEAN : r = Reserve(books, p, x, guest)
    BY <1>1, <2>1
  <2>3. \/ r.wallet = "global" /\ ~OnClubChips(p, guest)
        \/ r.wallet = "club"
    BY <1>0, <1>2, <2>1, <2>2, ReserveSound
  <2> QED BY <2>3, GuestsTerms
<1>4. /\ user'[s] = p /\ seatWallet'[s] = r.wallet /\ origin'[p] = r.wallet
      /\ \A q \in Seats \ {s} : user'[q] = user[q] /\ seatWallet'[q] = seatWallet[q]
      /\ \A q \in Players \ {p} : origin'[q] = origin[q]
  BY <1>0, <1>2 DEF TypeOK
<1>5. OneSeatEach'
  BY <1>0, <1>2, <1>4 DEF OneSeatEach
<1>6. ASSUME NEW q \in Occupied'
      PROVE  PurseOf(user'[q], seatWallet'[q], origin'[user'[q]])
  <2>1. CASE q = s
    BY <1>3, <1>4, <2>1 DEF PurseOf
  <2>2. CASE q # s
    <3>1. q \in Occupied /\ user'[q] = user[q] /\ seatWallet'[q] = seatWallet[q]
      BY <1>4, <1>6, <2>2 DEF Occupied
    <3>2. user[q] \in Players /\ user[q] # p
      BY <1>0, <1>2, <3>1, SeatAt DEF Occupied
    <3>3. origin'[user[q]] = origin[user[q]]
      BY <1>4, <3>2
    <3>4. PurseOf(user[q], seatWallet[q], origin[user[q]])
      BY <1>0, <3>1 DEF PurseKnown
    <3> QED BY <3>1, <3>3, <3>4
  <2> QED BY <2>1, <2>2
<1>7. PurseKnown'
  BY <1>6 DEF PurseKnown
<1> QED BY <1>5, <1>7 DEF Seating

LEMMA MoveSeatSeating ==
  ASSUME Seating, TypeOK', NEW from \in Seats, NEW to \in Seats, MoveSeat(from, to)
  PROVE  Seating'
<1>0. TypeOK /\ OneSeatEach /\ PurseKnown
  BY DEF Seating
<1>1. /\ user[from] # Nobody /\ user[to] = Nobody /\ from # to
      /\ user' = [user EXCEPT ![to] = user[from], ![from] = Nobody]
      /\ origin' = origin /\ seatWallet' = WalletAfterMove(from, to)
  BY DEF MoveSeat
<1>2. from \in Occupied /\ seatWallet[from] \in {"global", "club"}
  BY <1>0, <1>1 DEF Occupied, PurseKnown, PurseOf
<1>3. seatWallet' = [seatWallet EXCEPT ![to] = seatWallet[from], ![from] = "none"]
  BY <1>1, <1>2 DEF WalletAfterMove
<1>4. /\ user'[to] = user[from] /\ user'[from] = Nobody
      /\ seatWallet'[to] = seatWallet[from]
      /\ \A q \in Seats \ {from, to} : user'[q] = user[q] /\ seatWallet'[q] = seatWallet[q]
  BY <1>0, <1>1, <1>3 DEF TypeOK
<1>5. OneSeatEach'
  <2>1. ASSUME NEW q \in Seats, NEW r \in Seats,
               user'[q] = user'[r], user'[r] # Nobody, q # r
        PROVE  FALSE
    <3>1. q # from /\ r # from
      BY <1>4, <2>1
    <3>2. user'[r] = user[IF r = to THEN from ELSE r] /\ user'[q] = user[IF q = to THEN from ELSE q]
      BY <1>4, <3>1
    <3>3. (IF q = to THEN from ELSE q) = (IF r = to THEN from ELSE r)
      BY <1>0, <2>1, <3>2 DEF OneSeatEach
    <3> QED BY <2>1, <3>1, <3>3
  <2> QED BY <2>1 DEF OneSeatEach
<1>6. ASSUME NEW q \in Occupied'
      PROVE  PurseOf(user'[q], seatWallet'[q], origin'[user'[q]])
  <2>0. SUFFICES \E r \in Occupied : user'[q] = user[r] /\ seatWallet'[q] = seatWallet[r]
    BY <1>0, <1>1 DEF PurseKnown
  <2>1. CASE q = to
    BY <1>2, <1>4, <2>1
  <2>2. CASE q # to
    <3>1. q \in Seats /\ user'[q] # Nobody
      BY <1>6 DEF Occupied
    <3>2. user'[q] = user[q] /\ seatWallet'[q] = seatWallet[q]
      BY <1>4, <2>2, <3>1
    <3> QED BY <3>1, <3>2 DEF Occupied
  <2> QED BY <2>1, <2>2
<1>7. PurseKnown'
  BY <1>6 DEF PurseKnown
<1> QED BY <1>5, <1>7 DEF Seating

(* A seat is bought back into from the purse it was bought from. *)
LEMMA BuyBackSamePurse ==
  ASSUME Seating, BuyBackIn
  PROVE  /\ cursor \in Seats /\ user[cursor] \in Players
         /\ BuyBack.wallet = seatWallet[cursor] /\ seatWallet' = seatWallet
<1>0. TypeOK /\ PurseKnown /\ books \in Books
  BY TypesAre DEF Seating
<1>1. PICK s \in Seats : s = cursor /\ user[s] \in Players /\ s \in Occupied
  BY <1>0, CursorSeat, SeatAt DEF BuyBackIn, Sweeping, IsBust, Occupied
<1>2. PICK r : r = BuyBack
  OBVIOUS
<1>3. r.wallet # "none" /\ seatWallet' = [seatWallet EXCEPT ![s] = r.wallet]
  BY <1>1, <1>2 DEF BuyBackIn
<1>4. PICK guest \in BOOLEAN : guest = (seatWallet[s] = "club")
  OBVIOUS
<1>5. r = Reserve(books, user[s], AutoBuyBack, guest)
  BY <1>1, <1>2, <1>3, <1>4, BuyBackReserves
<1>6. \/ r.wallet = "global" /\ ~OnClubChips(user[s], guest)
      \/ r.wallet = "club" /\ OnClubChips(user[s], guest)
  BY <1>0, <1>1, <1>3, <1>5, Terms, ReserveSound
<1>7. /\ seatWallet[s] \in {"global", "club"}
      /\ seatWallet[s] = "global" => ~OnClubChips(user[s], FALSE)
  BY <1>0, <1>1 DEF PurseKnown, PurseOf
<1>8. r.wallet = seatWallet[s]
  <2>1. CASE seatWallet[s] = "club"
    BY <1>4, <1>6, <2>1 DEF OnClubChips
  <2>2. CASE seatWallet[s] = "global"
    <3>1. guest = FALSE
      BY <1>4, <2>2
    <3> QED BY <1>6, <1>7, <2>2, <3>1
  <2> QED BY <1>7, <2>1, <2>2
<1>9. seatWallet' = seatWallet
  BY <1>0, <1>3, <1>8 DEF TypeOK
<1> QED BY <1>1, <1>2, <1>8, <1>9

(* Nobody comes, goes or changes purse. *)
LEMMA OthersSit ==
  ASSUME Seating,
         \/ \E p \in Players, s \in Seats, x \in BuyIns : SitRefused(p, s, x)
         \/ \E s \in Seats, x \in BuyIns : AddChips(s, x)
         \/ \E s \in Seats, x \in Bets : Bet(s, x)
         \/ ShowdownResolved \/ ShowdownFailed \/ BuyBackIn \/ Quiet
  PROVE  UNCHANGED <<user, seatWallet, origin>>
<1>1. CASE Quiet
  BY <1>1 DEF Quiet, AutoStartHand, BettingEnds, KeepSeat, SeatsCleared, HostCloses,
              SafePointDone, ScheduledClose, Fold, seats, ghosts
<1>2. CASE BuyBackIn
  BY <1>2, BuyBackSamePurse DEF BuyBackIn
<1>3. CASE ShowdownResolved \/ ShowdownFailed
  BY <1>3 DEF ShowdownResolved, ShowdownFailed, NextHandFollows, ghosts
<1>4. ASSUME NEW s \in Seats, NEW x, AddChips(s, x) \/ Bet(s, x)
      PROVE  UNCHANGED <<user, seatWallet, origin>>
  BY <1>4 DEF AddChips, Bet, ghosts
<1>5. ASSUME NEW p, NEW s \in Seats, NEW x, SitRefused(p, s, x)
      PROVE  UNCHANGED <<user, seatWallet, origin>>
  BY <1>5 DEF SitRefused, seats
<1> QED BY <1>1, <1>2, <1>3, <1>4, <1>5

LEMMA SeatingStep == Seating /\ TypeOK' /\ [Next]_vars => Seating'
<1> SUFFICES ASSUME Seating, TypeOK', [Next]_vars PROVE Seating'
  OBVIOUS
<1>1. CASE UNCHANGED vars
  BY <1>1, SeatingStays DEF vars, seats, ghosts
<1>2. CASE \/ \E s \in Seats : StandUp(s) \/ HostKicks(s) \/ KickPending(s)
           \/ Evict \/ CloseTable
  BY <1>2, Departures, CashOutSeating, SeatingStays DEF Seating, seats, ghosts
<1>3. CASE Step
  BY <1>2, <1>3, SitDownSeating, MoveSeatSeating, BustOutSeating, OthersSit, SeatingStays DEF Step
<1> QED BY <1>1, <1>3, StepsAre

LEMMA SeatingInit == Init => Seating
<1> SUFFICES ASSUME Init PROVE Seating
  OBVIOUS
<1>1. \A s \in Seats : user[s] = Nobody
  BY DEF Init
<1> QED BY <1>1, InitTypes DEF Seating, OneSeatEach, PurseKnown, Occupied

LEMMA SeatingHolds == Spec => []Seating
BY SeatingInit, SeatingStep, ClubSeatsTypes, PTL DEF Spec

----------------------------------------------------------------------------
(* Leaving. *)

LEMMA WhereHeSits ==
  ASSUME Seating, NEW s \in Seats, user[s] # Nobody
  PROVE  SeatOf(user[s]) = s
<1>1. \E r \in Seats : user[r] = user[s]
  OBVIOUS
<1>2. SeatOf(user[s]) \in Seats /\ user[SeatOf(user[s])] = user[s]
  BY <1>1 DEF SeatOf
<1> QED BY <1>2 DEF Seating, OneSeatEach

(* What a player's purse has been paid, if anything was refused nobody. *)
LEMMA CashOutPays ==
  ASSUME Seating, NEW s \in Seats, user[s] # Nobody, CashOut(s), failures' = failures
  PROVE  Purse(books', origin[user[s]], user[s]) =
           Purse(books, origin[user[s]], user[s]) + stack[s]
<1>0. TypeOK /\ user[s] \in Players /\ books \in Books /\ stack[s] \in Nat /\ LockedFor(s) \in Nat
  BY SeatAt DEF Seating
<1>1. origin[user[s]] = seatWallet[s] /\ seatWallet[s] \in {"global", "club"}
  BY DEF Seating, PurseKnown, PurseOf, Occupied
<1>2. PICK paid \in BOOLEAN :
        /\ books' = Released(books, user[s], seatWallet[s], LockedFor(s), stack[s], paid)
        /\ failures' = IF paid \/ stack[s] = 0 THEN failures ELSE failures + 1
  BY <1>0, CashOutEffect
<1>3. paid \/ stack[s] = 0
  BY <1>0, <1>2 DEF TypeOK
<1>4. CASE stack[s] = 0
  <2>1. books' = books
    BY <1>0, <1>2, <1>4, ReleasedSound
  <2>2. Purse(books, seatWallet[s], user[s]) \in Nat
    BY <1>0, Amounts DEF Purse
  <2> QED BY <1>1, <1>4, <2>1, <2>2
<1>5. CASE stack[s] # 0 /\ seatWallet[s] = "global"
  <2>1. PaidToFunds(books, books', user[s], stack[s])
    BY <1>0, <1>2, <1>3, <1>5, ReleasedSound
  <2> QED BY <1>1, <1>5, <2>1 DEF PaidToFunds, Purse
<1>6. CASE stack[s] # 0 /\ seatWallet[s] = "club"
  <2>1. PaidToClub(books, books', user[s], LockedFor(s), stack[s])
    BY <1>0, <1>2, <1>3, <1>6, ReleasedSound
  <2> QED BY <1>1, <1>6, <2>1 DEF PaidToClub, Purse
<1> QED BY <1>1, <1>4, <1>5, <1>6

LEMMA BustOutPays ==
  ASSUME Seating, BustOut
  PROVE  Purse(books', origin[user[cursor]], user[cursor]) =
           Purse(books, origin[user[cursor]], user[cursor]) + stack[cursor]
<1>1. books' = books /\ stack[cursor] = 0
  BY DEF BustOut, IsBust
<1>2. user[cursor] \in Players /\ books \in Books
  BY CursorSeat, SeatAt DEF Seating, BustOut, Sweeping, IsBust
<1>3. PICK n \in Nat : n = Purse(books, origin[user[cursor]], user[cursor])
  BY <1>2, Amounts DEF Purse
<1> QED BY <1>1, <1>3

(* If one seat is emptied, its player is the only one who may be gone. *)
LEMMA OnlyHeLeaves ==
  ASSUME TypeOK, NEW s \in Seats, user' = [user EXCEPT ![s] = Nobody],
         NEW p \in Players, Seated(p), ~Seated(p)'
  PROVE  user[s] = p
<1>1. PICK r \in Seats : user[r] = p
  BY DEF Seated
<1>2. r # s => user'[r] = p
  BY <1>1 DEF TypeOK
<1> QED BY <1>1, <1>2 DEF Seated

LEMMA NobodyLeaves ==
  ASSUME Seating,
         \/ UNCHANGED user
         \/ \E p \in Players, s \in Seats, x \in BuyIns : SitDown(p, s, x)
         \/ \E from \in Seats, to \in Seats : MoveSeat(from, to),
         NEW p \in Players, Seated(p)
  PROVE  Seated(p)'
<1>0. TypeOK /\ p # Nobody
  BY Terms DEF Seating
<1>1. PICK r \in Seats : user[r] = p
  BY DEF Seated
<1>2. CASE UNCHANGED user
  BY <1>1, <1>2 DEF Seated
<1>3. ASSUME NEW q \in Players, NEW s \in Seats, NEW x \in BuyIns, SitDown(q, s, x)
      PROVE  Seated(p)'
  <2>1. user' = [user EXCEPT ![s] = q] /\ s # r
    BY <1>0, <1>1, <1>3 DEF SitDown
  <2> QED BY <1>0, <1>1, <2>1 DEF Seated, TypeOK
<1>4. ASSUME NEW from \in Seats, NEW to \in Seats, MoveSeat(from, to)
      PROVE  Seated(p)'
  <2>1. user' = [user EXCEPT ![to] = user[from], ![from] = Nobody] /\ to # r /\ to # from
    BY <1>0, <1>1, <1>4 DEF MoveSeat
  <2>2. user'[IF r = from THEN to ELSE r] = p
    BY <1>0, <1>1, <2>1 DEF TypeOK
  <2> QED BY <2>2 DEF Seated
<1> QED BY <1>2, <1>3, <1>4

Paid(p) ==
  Purse(books', origin[p], p) = Purse(books, origin[p], p) + stack[SeatOf(p)]

LEMMA LeaversArePaid ==
  ASSUME Seating, [Next]_vars, NEW p \in Players, Seated(p), ~Seated(p)', failures' = failures
  PROVE  Paid(p)
<1>0. TypeOK
  BY DEF Seating
<1>1. CASE \E s \in Seats : user[s] # Nobody /\ CashOut(s)
  <2>1. PICK s \in Seats : user[s] # Nobody /\ CashOut(s)
    BY <1>1
  <2>2. user[s] = p
    BY <1>0, <2>1, OnlyHeLeaves DEF CashOut, Vacated
  <2> QED BY <2>1, <2>2, WhereHeSits, CashOutPays DEF Paid
<1>2. CASE BustOut
  <2>1. PICK s \in Seats : s = cursor /\ user[s] # Nobody /\ user' = [user EXCEPT ![s] = Nobody]
    BY <1>0, <1>2, CursorSeat DEF BustOut, Vacated, Sweeping, IsBust
  <2>2. user[s] = p
    BY <1>0, <2>1, OnlyHeLeaves
  <2> QED BY <1>2, <2>1, <2>2, WhereHeSits, BustOutPays DEF Paid
<1>3. UNCHANGED user => FALSE
  BY NobodyLeaves
<1>4. CASE \/ \E s \in Seats : StandUp(s) \/ HostKicks(s) \/ KickPending(s)
           \/ Evict \/ CloseTable
  BY <1>0, <1>1, <1>3, <1>4, Departures DEF seats
<1>5. CASE Step
  BY <1>2, <1>3, <1>4, <1>5, OthersSit, NobodyLeaves DEF Step
<1> QED BY <1>3, <1>5, StepsAre DEF vars, seats

(* Whoever leaves, of his own will or not, is paid his whole stack into    *)
(* the purse he bought in from, through every change of seat, top-up and   *)
(* buy-back in between, unless the payment is refused and logged           *)
(* (releaseBuyInAs, moveSeatTracking, standUpBusted).                      *)
THEOREM LeaversPaidInFull == Spec => PaidInFull
<1>1. Seating /\ [Next]_vars =>
        [\A p \in Players :
           Seated(p) /\ ~Seated(p)' /\ failures' = failures =>
             Purse(books', origin[p], p) = Purse(books, origin[p], p) + stack[SeatOf(p)]]_vars
  BY LeaversArePaid DEF Paid
<1> QED BY <1>1, SeatingHolds, PTL DEF Spec, PaidInFull

----------------------------------------------------------------------------
(* Kicks put off until after the hand. *)

(* Outside the hand and its clearing no kick waits; and a seat with a kick *)
(* on it holds the player it was meant for, nobody, or a newcomer.         *)
KicksMeant ==
  /\ phase \in {"waiting", "closing", "closed"} => KicksDone
  /\ \A s \in Seats : kicks[s] # Nobody => user[s] \in {Nobody, kicks[s]} \cup newcomers

(* Nobody has come to a seat, and nobody has been forgotten as a newcomer. *)
LEMMA KicksStay ==
  ASSUME KicksMeant, kicks' = kicks, newcomers' = newcomers,
         phase' \in {"waiting", "closing", "closed"} => KicksDone,
         \A s \in Seats : user'[s] \in {Nobody, user[s]}
  PROVE  KicksMeant'
BY DEF KicksMeant, KicksDone

LEMMA CashOutComers ==
  ASSUME TypeOK, NEW s \in Seats, CashOut(s)
  PROVE  newcomers' = newcomers /\ \A r \in Seats : user'[r] \in {Nobody, user[r]}
BY DEF CashOut, Vacated, TypeOK

LEMMA KicksStep == TypeOK /\ KicksMeant /\ [Next]_vars => KicksMeant'
<1> SUFFICES ASSUME TypeOK, KicksMeant, [Next]_vars PROVE KicksMeant'
  OBVIOUS
<1>0. /\ phase \in {"waiting", "closing", "closed"} => KicksDone
      /\ \A s \in Seats : user[s] \in {Nobody, user[s]}
  BY DEF KicksMeant
<1>1. CASE UNCHANGED <<user, kicks, newcomers, phase>>
  BY <1>0, <1>1, KicksStay
<1>2. ASSUME NEW p \in Players, NEW s \in Seats, NEW x \in BuyIns, SitDown(p, s, x)
      PROVE  KicksMeant'
  <2>1. /\ user' = [user EXCEPT ![s] = p] /\ kicks' = kicks /\ phase' = phase
        /\ phase # "waiting" => newcomers' = newcomers \cup {p}
        /\ phase = "waiting" => newcomers' = newcomers
    BY <1>2 DEF SitDown, host
  <2>2. CASE phase = "waiting"
    BY <1>0, <2>1, <2>2 DEF KicksMeant, KicksDone
  <2>3. CASE phase # "waiting"
    BY <1>0, <2>1, <2>3 DEF KicksMeant, KicksDone, TypeOK
  <2> QED BY <2>2, <2>3
<1>3. ASSUME NEW s \in Seats, StandUp(s) PROVE KicksMeant'
  BY <1>0, <1>3, CashOutComers, KicksStay DEF StandUp, host
<1>4. ASSUME NEW s \in Seats, HostKicks(s) PROVE KicksMeant'
  <2>1. CASE s \in live
    BY <1>4, <2>1 DEF HostKicks, KicksMeant, KicksDone, TypeOK, seats, ghosts
  <2>2. CASE s \notin live
    BY <1>0, <1>4, <2>2, CashOutComers, KicksStay DEF HostKicks
  <2> QED BY <2>1, <2>2
<1>5. ASSUME NEW s \in Seats, KickPending(s) PROVE KicksMeant'
  <2>1. /\ kicks' = [kicks EXCEPT ![s] = Nobody] /\ phase' = "safe"
    BY <1>5 DEF KickPending
  <2>2. newcomers' = newcomers /\ \A r \in Seats : user'[r] \in {Nobody, user[r]}
    BY <1>0, <1>5, CashOutComers DEF KickPending, seats, ghosts
  <2> QED BY <2>1, <2>2 DEF KicksMeant, TypeOK
<1>6. ASSUME NEW from \in Seats, NEW to \in Seats, MoveSeat(from, to) PROVE KicksMeant'
  BY <1>0, <1>6 DEF MoveSeat, CanMove, host, KicksMeant, KicksDone
<1>7. CASE ShowdownResolved \/ ShowdownFailed
  BY <1>0, <1>7, KicksStay DEF ShowdownResolved, ShowdownFailed, NextHandFollows, host, ghosts
<1>8. CASE Evict
  <2>1. cursor \in Seats
    BY <1>8, CursorSeat DEF Evict, Sweeping
  <2> QED BY <1>0, <1>8, <2>1, CashOutComers, KicksStay DEF Evict, host
<1>9. CASE BustOut
  <2>1. \A r \in Seats : user'[r] \in {Nobody, user[r]}
    BY <1>9 DEF BustOut, Vacated, TypeOK
  <2> QED BY <1>0, <1>9, <2>1, KicksStay DEF BustOut, host
<1>10. CASE CloseTable
  <2>1. CASE cursor = MaxSeats \/ user[cursor] = Nobody
    BY <1>0, <1>10, <2>1, KicksStay DEF CloseTable, host, seats, ghosts
  <2>2. CASE cursor # MaxSeats /\ user[cursor] # Nobody
    <3>1. cursor \in Seats
      BY <2>2, CursorSeat, MaxSeatsAssumption DEF TypeOK
    <3> QED BY <1>0, <1>10, <2>2, <3>1, CashOutComers, KicksStay DEF CloseTable, host
  <2> QED BY <2>1, <2>2
<1>11. CASE SafePointDone
  BY <1>11 DEF SafePointDone, KicksMeant, KicksDone, host, seats
<1>12. CASE Quiet
  <2>1. CASE AutoStartHand \/ BettingEnds \/ SeatsCleared \/ ScheduledClose
    BY <1>0, <2>1, KicksStay DEF AutoStartHand, BettingEnds, SeatsCleared, ScheduledClose,
                                 host, seats, ghosts
  <2>2. CASE KeepSeat \/ HostCloses \/ \E s \in Seats : Fold(s)
    BY <1>1, <2>2 DEF KeepSeat, HostCloses, Fold, host, seats, ghosts
  <2> QED BY <1>11, <1>12, <2>1, <2>2 DEF Quiet
<1>13. ASSUME NEW s \in Seats, NEW x, AddChips(s, x) \/ Bet(s, x)
       PROVE  UNCHANGED <<user, kicks, newcomers, phase>>
  BY <1>13 DEF AddChips, Bet, host, ghosts
<1>14. ASSUME NEW p, NEW s \in Seats, NEW x, SitRefused(p, s, x)
       PROVE  UNCHANGED <<user, kicks, newcomers, phase>>
  BY <1>14 DEF SitRefused, host, seats
<1>15. CASE BuyBackIn
  BY <1>1, <1>15 DEF BuyBackIn, host
<1>16. CASE Step
  BY <1>1, <1>2, <1>3, <1>4, <1>5, <1>6, <1>7, <1>8, <1>9, <1>10, <1>12, <1>13, <1>14, <1>15,
     <1>16 DEF Step
<1> QED BY <1>1, <1>16, StepsAre DEF vars, seats, host, ghosts

LEMMA KicksInit == Init => KicksMeant
BY DEF Init, KicksMeant, KicksDone

LEMMA KicksHold == Spec => []KicksMeant
BY KicksInit, KicksStep, ClubSeatsTypes, PTL DEF Spec

(* A kick that had to wait for the end of the hand removes the player the  *)
(* host meant, or one who took the seat during the hand; never one who was *)
(* dealt in elsewhere and moved, nor one who came later                    *)
(* (PendingKickSeats, processPendingKicks).                                *)
THEOREM KicksRemoveTheMeant == Spec => KickHitsTheMeant
<1>1. KicksMeant /\ [Next]_vars =>
        [\A s \in Seats :
           kicks[s] # Nobody /\ kicks'[s] = Nobody /\ user[s] # Nobody =>
             user[s] = kicks[s] \/ user[s] \in newcomers]_vars
  BY DEF KicksMeant
<1> QED BY <1>1, KicksHold, PTL DEF Spec, KickHitsTheMeant

----------------------------------------------------------------------------
(* The three accounts of a player's club chips. *)

(* felt chips lie on the table for p; adv were ever locked for him. *)
Agrees(b, p, adv, felt) ==
  /\ adv = b.loaned[p] + felt
  /\ b.locked[p] = felt
  /\ b.chips[p] = Grants[p] + b.issued[p] - adv + b.returned[p]

FeltAt(w, locked) == IF w = "club" THEN locked ELSE 0

(* The books agree for p, with the seat he has, if he has one; and a seat  *)
(* on club chips has a lock.                                               *)
AgreesFor(p) ==
  /\ ~Seated(p) => Agrees(books, p, advanced[p], 0)
  /\ \A s \in Seats : user[s] = p =>
       /\ Agrees(books, p, advanced[p], FeltAt(seatWallet[s], seatLocked[s]))
       /\ seatWallet[s] = "club" => seatLocked[s] > 0

Agreement == \A p \in Players \ astray : AgreesFor(p)

LEMMA AgreementIsEnough == Agreement => AccountsAgree
<1> SUFFICES ASSUME Agreement, NEW p \in Players \ astray
             PROVE  Agrees(books, p, advanced[p], OnFelt(p))
  BY DEF AccountsAgree, Agrees
<1>1. AgreesFor(p)
  BY DEF Agreement
<1>2. CASE Seated(p)
  <2>1. SeatOf(p) \in Seats /\ user[SeatOf(p)] = p
    BY <1>2 DEF Seated, SeatOf
  <2>2. OnFelt(p) = FeltAt(seatWallet[SeatOf(p)], seatLocked[SeatOf(p)])
    BY <1>2 DEF OnFelt, FeltAt
  <2> QED BY <1>1, <2>1, <2>2 DEF AgreesFor
<1>3. CASE ~Seated(p)
  BY <1>1, <1>3 DEF AgreesFor, OnFelt
<1> QED BY <1>2, <1>3

LEMMA SameAgrees ==
  ASSUME NEW b, NEW c, NEW p, SameAccount(b, c, p), NEW adv, NEW felt, Agrees(b, p, adv, felt)
  PROVE  Agrees(c, p, adv, felt)
BY DEF SameAccount, Agrees

(* Cash goes one way or the other, and the club's accounts are as before. *)
LEMMA CashAgrees ==
  ASSUME NEW b, NEW c, NEW p, NEW x, TakenFromFunds(b, c, p, x) \/ PaidToFunds(b, c, p, x),
         NEW adv, NEW felt, Agrees(b, p, adv, felt)
  PROVE  Agrees(c, p, adv, felt)
BY DEF TakenFromFunds, PaidToFunds, Agrees

LEMMA LockAgrees ==
  ASSUME NEW b \in Books, NEW c \in Books, NEW p \in Players, NEW x \in Nat,
         TakenFromClub(b, c, p, x), NEW adv \in Nat, NEW felt \in Nat, Agrees(b, p, adv, felt)
  PROVE  Agrees(c, p, adv + x, felt + x)
<1>1. PICK g \in Nat, h \in Nat, i \in Nat, r \in Nat :
        g = Grants[p] /\ h = b.chips[p] /\ i = b.issued[p] /\ r = b.returned[p]
  BY Bounded, Amounts
<1>2. PICK hh \in Nat, ii \in Nat : hh = c.chips[p] /\ ii = c.issued[p]
  BY Amounts
<1>3. PICK l \in Nat, a \in Nat : l = b.locked[p] /\ a = b.loaned[p]
  BY Amounts
<1>4. hh - ii = h - i - x /\ c.returned[p] = r /\ c.locked[p] = l + x /\ c.loaned[p] = a
  BY <1>1, <1>2, <1>3 DEF TakenFromClub
<1>5. adv = a + felt /\ l = felt /\ h = g + i - adv + r
  BY <1>1, <1>3 DEF Agrees
<1>6. adv + x = a + (felt + x) /\ hh = g + ii - (adv + x) + r
  BY <1>4, <1>5
<1> QED BY <1>1, <1>2, <1>4, <1>5, <1>6 DEF Agrees

LEMMA SettleAgrees ==
  ASSUME NEW b \in Books, NEW c \in Books, NEW p \in Players, NEW x \in Nat, NEW felt \in Nat,
         PaidToClub(b, c, p, felt, x), NEW adv \in Nat, Agrees(b, p, adv, felt)
  PROVE  Agrees(c, p, adv, 0)
<1>1. PICK g \in Nat, h \in Nat, i \in Nat, r \in Nat :
        g = Grants[p] /\ h = b.chips[p] /\ i = b.issued[p] /\ r = b.returned[p]
  BY Bounded, Amounts
<1>2. PICK l \in Nat, a \in Nat : l = b.locked[p] /\ a = b.loaned[p]
  BY Amounts
<1>3. /\ c.chips[p] = h + x /\ c.issued[p] = i /\ c.returned[p] = r + x
      /\ c.locked[p] = Greater(0, l - felt) /\ c.loaned[p] = a + felt
  BY <1>1, <1>2 DEF PaidToClub
<1>4. adv = a + felt /\ l = felt /\ h = g + i - adv + r
  BY <1>1, <1>2 DEF Agrees
<1>5. Greater(0, l - felt) = 0
  BY <1>4 DEF Greater
<1>6. adv = (a + felt) + 0 /\ h + x = g + i - adv + (r + x)
  BY <1>4
<1> QED BY <1>1, <1>3, <1>5, <1>6 DEF Agrees

(* Nothing about p has changed. *)
LEMMA AgreesStill ==
  ASSUME NEW p, AgreesFor(p), SameAccount(books, books', p), advanced'[p] = advanced[p],
         \A s \in Seats : user'[s] = p <=> user[s] = p,
         \A s \in Seats : user[s] = p =>
           seatWallet'[s] = seatWallet[s] /\ seatLocked'[s] = seatLocked[s]
  PROVE  AgreesFor(p)'
<1>1. ~Seated(p)' => Agrees(books', p, advanced'[p], 0)
  BY SameAgrees DEF AgreesFor, Seated
<1>2. ASSUME NEW s \in Seats, user'[s] = p
      PROVE  /\ Agrees(books', p, advanced'[p], FeltAt(seatWallet'[s], seatLocked'[s]))
             /\ seatWallet'[s] = "club" => seatLocked'[s] > 0
  BY <1>2, SameAgrees DEF AgreesFor
<1> QED BY <1>1, <1>2 DEF AgreesFor

LEMMA Itself == ASSUME NEW b, NEW p PROVE SameAccount(b, b, p)
BY DEF SameAccount

(* The accounts and the seats are as they were. *)
LEMMA AgreementStays ==
  ASSUME Agreement, UNCHANGED <<user, seatWallet, seatLocked, advanced, astray>>,
         \A p \in Players : SameAccount(books, books', p)
  PROVE  Agreement'
BY AgreesStill DEF Agreement

(* A step is p's alone: neither the accounts nor the seats of others change. *)
Alone(p) ==
  /\ astray \subseteq astray'
  /\ \A q \in Players \ {p} :
       /\ SameAccount(books, books', q) /\ advanced'[q] = advanced[q]
       /\ \A s \in Seats :
            /\ user'[s] = q <=> user[s] = q
            /\ user[s] = q => seatWallet'[s] = seatWallet[s] /\ seatLocked'[s] = seatLocked[s]

LEMMA AgreementOfOne ==
  ASSUME Agreement, NEW p \in Players, Alone(p), p \notin astray' => AgreesFor(p)'
  PROVE  Agreement'
<1> SUFFICES ASSUME NEW q \in Players \ astray' PROVE AgreesFor(q)'
  BY DEF Agreement
<1>1. CASE q = p
  BY <1>1
<1>2. CASE q # p
  <2>1. AgreesFor(q)
    BY DEF Agreement, Alone
  <2> QED BY <1>2, <2>1, AgreesStill DEF Alone
<1> QED BY <1>1, <1>2

LEMMA AdvancedBy ==
  ASSUME TypeOK, NEW p \in Players, NEW r, Advance(p, r)
  PROVE  /\ \A q \in Players \ {p} : advanced'[q] = advanced[q]
         /\ advanced'[p] = IF r.wallet = "club" THEN advanced[p] + r.amount ELSE advanced[p]
         /\ advanced[p] \in Nat
BY DEF Advance, TypeOK

LEMMA SitDownAgrees ==
  ASSUME Seating, Agreement,
         NEW p \in Players, NEW s \in Seats, NEW x \in BuyIns, SitDown(p, s, x)
  PROVE  Agreement'
<1>0. TypeOK /\ books \in Books
  BY TypesAre DEF Seating
<1>1. PICK r : r = Reserve(books, p, x, p \in Guests)
  OBVIOUS
<1>2. /\ r.wallet # "none" /\ books' = r.books /\ user' = [user EXCEPT ![s] = p]
      /\ seatWallet' = [seatWallet EXCEPT ![s] = r.wallet]
      /\ seatLocked' = IF r.wallet = "club" THEN [seatLocked EXCEPT ![s] = r.amount]
                       ELSE seatLocked
      /\ Advance(p, r) /\ astray' = astray /\ user[s] = Nobody
      /\ \A q \in Seats : user[q] # p
  BY <1>1 DEF SitDown, Seated
<1>3. /\ r.amount \in Nat \ {0}
      /\ \/ r.wallet = "global" /\ TakenFromFunds(books, books', p, r.amount)
         \/ r.wallet = "club" /\ TakenFromClub(books, books', p, r.amount)
  <2>1. x \in Nat /\ (p \in Guests) \in BOOLEAN
    BY Bounded
  <2>2. PICK guest \in BOOLEAN : r = Reserve(books, p, x, guest)
    BY <1>1, <2>1
  <2> QED BY <1>0, <1>2, <2>1, <2>2, ReserveSound
<1>4. /\ Touches(books, books', p, r.amount) /\ books' \in Books
  BY <1>3 DEF TakenFromFunds, TakenFromClub, Touches
<1>5. /\ user'[s] = p /\ seatWallet'[s] = r.wallet
      /\ r.wallet = "club" => seatLocked'[s] = r.amount
      /\ \A q \in Seats \ {s} : /\ user'[q] = user[q] /\ seatWallet'[q] = seatWallet[q]
                                /\ seatLocked'[q] = seatLocked[q]
  BY <1>0, <1>2 DEF TypeOK
<1>6. Alone(p)
  BY <1>0, <1>2, <1>4, <1>5, AdvancedBy, Terms DEF Alone, Touches
<1>7. ASSUME p \notin astray'
      PROVE  AgreesFor(p)'
  <2>1. Agrees(books, p, advanced[p], 0)
    BY <1>2, <1>7 DEF Agreement, AgreesFor, Seated
  <2>2. \A q \in Seats : user'[q] = p <=> q = s
    BY <1>2, <1>5
  <2>3. Agrees(books', p, advanced'[p], FeltAt(seatWallet'[s], seatLocked'[s]))
    <3>1. CASE r.wallet = "global"
      <4>1. advanced'[p] = advanced[p] /\ FeltAt(seatWallet'[s], seatLocked'[s]) = 0
        BY <1>0, <1>2, <1>5, <3>1, AdvancedBy DEF FeltAt
      <4> QED BY <1>3, <2>1, <3>1, <4>1, CashAgrees
    <3>2. CASE r.wallet = "club"
      <4>1. PICK n \in Nat : n = 0
        OBVIOUS
      <4>2. /\ advanced[p] \in Nat /\ advanced'[p] = advanced[p] + r.amount
            /\ FeltAt(seatWallet'[s], seatLocked'[s]) = n + r.amount
        BY <1>0, <1>2, <1>3, <1>5, <3>2, <4>1, AdvancedBy DEF FeltAt
      <4>3. Agrees(books', p, advanced[p] + r.amount, n + r.amount)
        BY <1>0, <1>3, <1>4, <2>1, <3>2, <4>1, <4>2, LockAgrees
      <4> QED BY <4>2, <4>3
    <3> QED BY <1>3, <3>1, <3>2
  <2>4. seatWallet'[s] = "club" => seatLocked'[s] > 0
    BY <1>3, <1>5
  <2> QED BY <2>2, <2>3, <2>4 DEF AgreesFor, Seated
<1> QED BY <1>6, <1>7, AgreementOfOne

LEMMA SitRefusedAgrees ==
  ASSUME Seating, Agreement,
         NEW p \in Players, NEW s \in Seats, NEW x \in BuyIns, SitRefused(p, s, x)
  PROVE  Agreement'
<1>0. TypeOK /\ books \in Books
  BY TypesAre DEF Seating
<1>1. PICK r : r = Reserve(books, p, x, p \in Guests)
  OBVIOUS
<1>2. /\ r.wallet # "none" /\ Advance(p, r) /\ UNCHANGED <<user, seatWallet, seatLocked>>
      /\ \A q \in Seats : user[q] # p
      /\ \E paid \in BOOLEAN :
           /\ books' = Released(r.books, p, r.wallet, r.amount, r.amount, paid)
           /\ astray' = IF paid \/ r.wallet # "club" THEN astray ELSE astray \cup {p}
  BY <1>1 DEF SitRefused, Outcomes, seats, Seated
<1>3. /\ r.amount \in Nat \ {0}
      /\ \/ r.wallet = "global" /\ TakenFromFunds(books, r.books, p, r.amount)
         \/ r.wallet = "club" /\ TakenFromClub(books, r.books, p, r.amount)
  <2>1. x \in Nat /\ (p \in Guests) \in BOOLEAN
    BY Bounded
  <2>2. PICK guest \in BOOLEAN : r = Reserve(books, p, x, guest)
    BY <1>1, <2>1
  <2> QED BY <1>0, <1>2, <2>1, <2>2, ReserveSound
<1>4. /\ Touches(books, r.books, p, r.amount) /\ r.books \in Books
  BY <1>3 DEF TakenFromFunds, TakenFromClub, Touches
<1>5. PICK paid \in BOOLEAN :
        /\ books' = Released(r.books, p, r.wallet, r.amount, r.amount, paid)
        /\ astray' = IF paid \/ r.wallet # "club" THEN astray ELSE astray \cup {p}
  BY <1>2
<1>6. /\ r.wallet # "club" /\ ~paid => books' = r.books
      /\ r.wallet # "club" /\ paid => PaidToFunds(r.books, books', p, r.amount)
      /\ r.wallet = "club" /\ paid => PaidToClub(r.books, books', p, r.amount, r.amount)
      /\ Touches(r.books, books', p, 0 - r.amount) \/ Touches(r.books, books', p, 0)
  BY <1>3, <1>4, <1>5, ReleasedSound
<1>7. Alone(p)
  <2>1. \A q \in Players \ {p} : SameAccount(books, books', q)
    BY <1>4, <1>6 DEF Touches, SameAccount
  <2> QED BY <1>0, <1>2, <1>5, <2>1, AdvancedBy DEF Alone
<1>8. ASSUME p \notin astray'
      PROVE  AgreesFor(p)'
  <2>1. Agrees(books, p, advanced[p], 0)
    BY <1>2, <1>5, <1>8 DEF Agreement, AgreesFor, Seated
  <2>2. Agrees(books', p, advanced'[p], 0)
    <3>1. CASE r.wallet = "global"
      <4>1. advanced'[p] = advanced[p]
        BY <1>0, <1>2, <3>1, AdvancedBy
      <4>2. Agrees(r.books, p, advanced[p], 0)
        BY <1>3, <2>1, <3>1, CashAgrees
      <4>3. r.wallet # "club"
        BY <3>1
      <4> QED BY <1>6, <4>1, <4>2, <4>3, CashAgrees
    <3>2. CASE r.wallet = "club"
      <4>1. paid
        BY <1>5, <1>8, <3>2
      <4>2. PICK n \in Nat : n = 0
        OBVIOUS
      <4>3. advanced[p] \in Nat /\ advanced'[p] = advanced[p] + r.amount
        BY <1>0, <1>2, <3>2, AdvancedBy
      <4>4. Agrees(r.books, p, advanced[p] + r.amount, n + r.amount)
        BY <1>0, <1>3, <1>4, <2>1, <3>2, <4>2, <4>3, LockAgrees
      <4>5. n + r.amount = r.amount /\ advanced'[p] \in Nat
        BY <1>3, <4>2, <4>3
      <4>6. books' \in Books
        BY <1>6 DEF Touches
      <4> QED BY <1>3, <1>4, <1>6, <3>2, <4>1, <4>3, <4>4, <4>5, <4>6, SettleAgrees
    <3> QED BY <1>3, <3>1, <3>2
  <2> QED BY <1>2, <2>2 DEF AgreesFor, Seated
<1> QED BY <1>7, <1>8, AgreementOfOne

(* Seat s is the only one p has, and is emptied. *)
LEMMA AloneLeaving ==
  ASSUME Seating, NEW s \in Seats, user[s] # Nobody, user' = [user EXCEPT ![s] = Nobody],
         \A q \in Seats \ {s} : seatWallet'[q] = seatWallet[q] /\ seatLocked'[q] = seatLocked[q],
         astray \subseteq astray', advanced' = advanced,
         \A q \in Players \ {user[s]} : SameAccount(books, books', q)
  PROVE  Alone(user[s]) /\ ~(\E q \in Seats : user'[q] = user[s])
<1>0. TypeOK /\ OneSeatEach
  BY DEF Seating
<1>1. /\ user'[s] = Nobody
      /\ \A q \in Seats \ {s} : user'[q] = user[q] /\ user[q] # user[s]
  BY <1>0 DEF TypeOK, OneSeatEach
<1>2. ~(\E q \in Seats : user'[q] = user[s])
  BY <1>1
<1>3. \A q \in Players \ {user[s]}, r \in Seats :
        (user'[r] = q <=> user[r] = q) /\ (user[r] = q => r # s)
  BY <1>1, Terms
<1>4. Alone(user[s])
  BY <1>3 DEF Alone
<1> QED BY <1>2, <1>4

LEMMA CashOutAgrees ==
  ASSUME Seating, Agreement, NEW s \in Seats, user[s] # Nobody, CashOut(s)
  PROVE  Agreement'
<1>0. /\ TypeOK /\ user[s] \in Players /\ books \in Books /\ stack[s] \in Nat
      /\ LockedFor(s) \in Nat /\ seatLocked[s] \in Nat
  BY SeatAt DEF Seating
<1>1. PICK p \in Players : p = user[s]
  BY <1>0
<1>2. PICK paid \in BOOLEAN :
        /\ books' = Released(books, p, seatWallet[s], LockedFor(s), stack[s], paid)
        /\ astray' = IF seatWallet[s] = "club" /\ (stack[s] = 0 \/ ~paid)
                     THEN astray \cup {p} ELSE astray
  BY <1>0, <1>1, CashOutEffect
<1>3. /\ user' = [user EXCEPT ![s] = Nobody] /\ advanced' = advanced
      /\ \A q \in Seats \ {s} : seatWallet'[q] = seatWallet[q] /\ seatLocked'[q] = seatLocked[q]
  BY <1>0 DEF CashOut, Vacated, TypeOK
<1>4. /\ stack[s] = 0 \/ (seatWallet[s] # "club" /\ ~paid) => books' = books
      /\ seatWallet[s] # "club" /\ paid => PaidToFunds(books, books', p, stack[s])
      /\ seatWallet[s] = "club" /\ paid /\ stack[s] # 0 =>
           PaidToClub(books, books', p, LockedFor(s), stack[s])
      /\ Touches(books, books', p, 0 - stack[s]) \/ Touches(books, books', p, 0)
  BY <1>0, <1>2, ReleasedSound
<1>5. \A q \in Players \ {p} : SameAccount(books, books', q)
  BY <1>4 DEF Touches
<1>6. Alone(p) /\ ~(\E q \in Seats : user'[q] = p)
  BY <1>1, <1>2, <1>3, <1>5, AloneLeaving
<1>7. ASSUME p \notin astray'
      PROVE  AgreesFor(p)'
  <2>1. /\ Agrees(books, p, advanced[p], FeltAt(seatWallet[s], seatLocked[s]))
        /\ seatWallet[s] = "club" => seatLocked[s] > 0
    BY <1>1, <1>2, <1>7 DEF Agreement, AgreesFor
  <2>2. Agrees(books', p, advanced'[p], 0)
    <3>1. CASE seatWallet[s] # "club"
      <4>1. Agrees(books, p, advanced[p], 0)
        BY <2>1, <3>1 DEF FeltAt
      <4> QED BY <1>3, <1>4, <3>1, <4>1, CashAgrees
    <3>2. CASE seatWallet[s] = "club"
      <4>1. paid /\ stack[s] # 0
        BY <1>2, <1>7, <3>2
      <4>2. /\ Agrees(books, p, advanced[p], LockedFor(s)) /\ advanced[p] \in Nat
        BY <1>0, <2>1, <3>2 DEF FeltAt, LockedFor, TypeOK
      <4>3. books' \in Books
        BY <1>4 DEF Touches
      <4> QED BY <1>0, <1>3, <1>4, <3>2, <4>1, <4>2, <4>3, SettleAgrees
    <3> QED BY <3>1, <3>2
  <2> QED BY <1>6, <2>2 DEF AgreesFor, Seated
<1> QED BY <1>6, <1>7, AgreementOfOne

LEMMA BustOutAgrees == ASSUME Seating, Agreement, BustOut PROVE Agreement'
<1>0. TypeOK
  BY DEF Seating
<1>1. PICK s \in Seats, p \in Players : s = cursor /\ p = user[s] /\ user[s] # Nobody
  BY <1>0, CursorSeat, SeatAt DEF BustOut, Sweeping, IsBust
<1>2. /\ user' = [user EXCEPT ![s] = Nobody] /\ advanced' = advanced
      /\ UNCHANGED <<seatWallet, seatLocked, books>>
      /\ astray' = IF seatWallet[s] = "club" THEN astray \cup {p} ELSE astray
  BY <1>1 DEF BustOut, Vacated
<1>3. Alone(p) /\ ~(\E q \in Seats : user'[q] = p)
  BY <1>1, <1>2, Itself, AloneLeaving
<1>4. ASSUME p \notin astray'
      PROVE  AgreesFor(p)'
  <2>1. p \notin astray /\ FeltAt(seatWallet[s], seatLocked[s]) = 0
    BY <1>2, <1>4 DEF FeltAt
  <2>2. Agrees(books, p, advanced[p], 0)
    BY <1>1, <2>1 DEF Agreement, AgreesFor
  <2> QED BY <1>2, <1>3, <2>2 DEF AgreesFor, Seated
<1> QED BY <1>3, <1>4, AgreementOfOne

(* Reservation r has been made for p. *)
Bought(p, r) ==
  \/ TakenFromFunds(books, books', p, r.amount) /\ r.wallet = "global"
  \/ TakenFromClub(books, books', p, r.amount) /\ r.wallet = "club"

(* p has more chips, all of his cash, or he is astray; no seat changes.    *)
LEMMA MoreChipsAgree ==
  ASSUME Seating, Agreement, NEW p \in Players, NEW r,
         Bought(p, r), Advance(p, r), UNCHANGED <<user, seatWallet, seatLocked>>,
         astray \subseteq astray', r.wallet = "club" => p \in astray'
  PROVE  Agreement'
<1>0. TypeOK
  BY DEF Seating
<1>1. \A q \in Players \ {p} : SameAccount(books, books', q)
  BY DEF Bought, TakenFromFunds, TakenFromClub, Touches
<1>2. Alone(p)
  BY <1>0, <1>1, AdvancedBy DEF Alone
<1>3. ASSUME p \notin astray'
      PROVE  AgreesFor(p)'
  <2>1. AgreesFor(p) /\ r.wallet # "club"
    BY <1>3 DEF Agreement
  <2>2. advanced'[p] = advanced[p] /\ TakenFromFunds(books, books', p, r.amount)
    BY <1>0, <2>1, AdvancedBy DEF Bought
  <2>3. \A felt : Agrees(books, p, advanced[p], felt) => Agrees(books', p, advanced'[p], felt)
    BY <2>2, CashAgrees
  <2> QED BY <2>1, <2>3 DEF AgreesFor, Seated
<1> QED BY <1>2, <1>3, AgreementOfOne

LEMMA AddChipsAgrees ==
  ASSUME Seating, Agreement, NEW s \in Seats, NEW x \in BuyIns, AddChips(s, x) PROVE Agreement'
<1>0. TypeOK /\ books \in Books
  BY TypesAre DEF Seating
<1>1. PICK y \in Nat : y = Lesser(x, MaxBuyIn - stack[s])
  <2>1. stack[s] < MaxBuyIn
    BY DEF AddChips
  <2> QED BY <1>0, <2>1, SeatAt, Bounded, Terms DEF Lesser
<1>2. PICK p \in Players : p = user[s]
  BY <1>0, SeatAt DEF AddChips
<1>3. PICK r : r = Reserve(books, p, y, FALSE)
  OBVIOUS
<1>4. /\ r.wallet # "none" /\ books' = r.books /\ Advance(p, r)
      /\ UNCHANGED <<user, seatWallet, seatLocked>>
      /\ astray' = IF r.wallet = "club" THEN astray \cup {p} ELSE astray
  BY <1>1, <1>2, <1>3 DEF AddChips
<1>5. Bought(p, r)
  BY <1>0, <1>3, <1>4, ReserveSound DEF Bought
<1>6. astray \subseteq astray' /\ (r.wallet = "club" => p \in astray')
  BY <1>4
<1> QED BY <1>4, <1>5, <1>6, MoreChipsAgree

LEMMA BuyBackInAgrees == ASSUME Seating, Agreement, BuyBackIn PROVE Agreement'
<1>0. TypeOK /\ books \in Books
  BY TypesAre DEF Seating
<1>1. PICK p \in Players : p = user[cursor]
  BY BuyBackSamePurse
<1>2. PICK r : r = BuyBack
  OBVIOUS
<1>3. /\ r.wallet # "none" /\ books' = r.books /\ Advance(p, r)
      /\ UNCHANGED <<user, seatWallet, seatLocked>>
      /\ astray' = IF "club" \in {r.wallet, seatWallet[cursor]} THEN astray \cup {p} ELSE astray
  BY <1>1, <1>2, BuyBackSamePurse DEF BuyBackIn
<1>4. PICK guest \in BOOLEAN : r = Reserve(books, p, AutoBuyBack, guest)
  <2>1. (seatWallet[cursor] = "club") \in BOOLEAN
    OBVIOUS
  <2> QED BY <1>1, <1>2, <1>3, <2>1, BuyBackReserves
<1>5. Bought(p, r)
  BY <1>0, <1>3, <1>4, Terms, ReserveSound DEF Bought
<1>6. astray \subseteq astray' /\ (r.wallet = "club" => p \in astray')
  BY <1>3
<1> QED BY <1>3, <1>5, <1>6, MoreChipsAgree

LEMMA MoveSeatAgrees ==
  ASSUME Seating, Agreement, NEW from \in Seats, NEW to \in Seats, MoveSeat(from, to)
  PROVE  Agreement'
<1>0. TypeOK /\ OneSeatEach /\ PurseKnown
  BY DEF Seating
<1>1. PICK p \in Players : p = user[from]
  BY <1>0, SeatAt DEF MoveSeat
<1>2. /\ user[to] = Nobody /\ from # to /\ from \in Occupied /\ p # Nobody
      /\ user' = [user EXCEPT ![to] = p, ![from] = Nobody]
      /\ seatWallet' = WalletAfterMove(from, to)
      /\ UNCHANGED <<seatLocked, books, advanced>>
      /\ astray' = IF seatWallet[from] = "club" THEN astray \cup {p} ELSE astray
  BY <1>1 DEF MoveSeat, Occupied
<1>3. seatWallet' = [seatWallet EXCEPT ![to] = seatWallet[from], ![from] = "none"]
  BY <1>0, <1>2 DEF WalletAfterMove, PurseKnown, PurseOf
<1>4. /\ user'[to] = p /\ user'[from] = Nobody /\ seatWallet'[to] = seatWallet[from]
      /\ \A q \in Seats \ {from, to} :
           /\ user'[q] = user[q] /\ user[q] # p
           /\ seatWallet'[q] = seatWallet[q]
  BY <1>0, <1>1, <1>2, <1>3 DEF TypeOK, OneSeatEach
<1>5. Alone(p)
  <2>1. ASSUME NEW q \in Players \ {p}, NEW s \in Seats
        PROVE  /\ user'[s] = q <=> user[s] = q
               /\ user[s] = q => seatWallet'[s] = seatWallet[s]
    <3>1. q # Nobody /\ q # p
      BY Terms
    <3>2. CASE s = from
      BY <1>1, <1>4, <3>1, <3>2
    <3>3. CASE s = to
      BY <1>2, <1>4, <3>1, <3>3
    <3>4. CASE s \notin {from, to}
      BY <1>4, <3>4
    <3> QED BY <3>2, <3>3, <3>4
  <2>2. /\ astray \subseteq astray' /\ advanced' = advanced /\ seatLocked' = seatLocked
        /\ \A q \in Players : SameAccount(books, books', q)
    BY <1>2, Itself
  <2> QED BY <2>1, <2>2 DEF Alone
<1>6. ASSUME p \notin astray'
      PROVE  AgreesFor(p)'
  <2>1. AgreesFor(p) /\ seatWallet[from] # "club"
    BY <1>2, <1>6 DEF Agreement
  <2>2. Agrees(books, p, advanced[p], 0)
    BY <1>1, <2>1 DEF AgreesFor, FeltAt
  <2>3. \A q \in Seats : user'[q] = p <=> q = to
    BY <1>2, <1>4
  <2>4. seatWallet'[to] # "club" /\ FeltAt(seatWallet'[to], seatLocked'[to]) = 0
    BY <1>4, <2>1 DEF FeltAt
  <2> QED BY <1>2, <2>2, <2>3, <2>4 DEF AgreesFor, Seated
<1> QED BY <1>5, <1>6, AgreementOfOne

(* Steps of the hand and of the clocks, which touch no account. *)
LEMMA OthersAgree ==
  ASSUME Seating, Agreement,
         \/ \E s \in Seats, x \in Bets : Bet(s, x)
         \/ ShowdownResolved \/ ShowdownFailed \/ Quiet
  PROVE  Agreement'
<1>0. TypeOK /\ books \in Books
  BY TypesAre DEF Seating
<1>1. CASE Quiet
  <2>1. UNCHANGED <<user, seatWallet, seatLocked, advanced, astray, books>>
    BY <1>1 DEF Quiet, AutoStartHand, BettingEnds, KeepSeat, SeatsCleared, HostCloses,
                SafePointDone, ScheduledClose, Fold, seats, ghosts
  <2> QED BY <2>1, Itself, AgreementStays
<1>2. ASSUME NEW s \in Seats, NEW x \in Bets, Bet(s, x) PROVE Agreement'
  <2>1. UNCHANGED <<user, seatWallet, seatLocked, advanced, astray, books>>
    BY <1>2 DEF Bet, ghosts
  <2> QED BY <2>1, Itself, AgreementStays
<1>3. CASE ShowdownResolved
  <2>1. PICK rake \in Nat, won \in [Seats -> Nat] :
          /\ NextHandFollows(won)
          /\ \/ books' = [books EXCEPT !.table = @ - rake] \/ books' = books
    BY <1>0, <1>3, ShowdownEffect
  <2>2. \A p \in Players : SameAccount(books, books', p)
    BY <1>0, <2>1, RakeBooks, Itself
  <2>3. UNCHANGED <<user, seatWallet, seatLocked, advanced, astray>>
    BY <2>1 DEF NextHandFollows, ghosts
  <2> QED BY <2>2, <2>3, AgreementStays
<1>4. CASE ShowdownFailed
  <2>1. UNCHANGED <<user, seatWallet, seatLocked, advanced, astray, books>>
    BY <1>4 DEF ShowdownFailed, NextHandFollows, ghosts
  <2> QED BY <2>1, Itself, AgreementStays
<1> QED BY <1>1, <1>2, <1>3, <1>4

LEMMA AgreementStep == Seating /\ Agreement /\ [Next]_vars => Agreement'
<1> SUFFICES ASSUME Seating, Agreement, [Next]_vars PROVE Agreement'
  OBVIOUS
<1>0. TypeOK
  BY DEF Seating
<1>1. CASE UNCHANGED <<seats, books, failures, ghosts>>
  <2>1. UNCHANGED <<user, seatWallet, seatLocked, advanced, astray, books>>
    BY <1>1 DEF seats, ghosts
  <2> QED BY <2>1, Itself, AgreementStays
<1>2. CASE \/ \E s \in Seats : StandUp(s) \/ HostKicks(s) \/ KickPending(s)
           \/ Evict \/ CloseTable
  BY <1>0, <1>1, <1>2, Departures, CashOutAgrees
<1>3. CASE Step
  BY <1>2, <1>3, SitDownAgrees, SitRefusedAgrees, AddChipsAgrees, MoveSeatAgrees,
     BuyBackInAgrees, BustOutAgrees, OthersAgree DEF Step
<1> QED BY <1>1, <1>3, StepsAre DEF vars

LEMMA AgreementInit == Init => Agreement
<1> SUFFICES ASSUME Init, NEW p \in Players PROVE AgreesFor(p)
  BY DEF Agreement
<1>1. /\ \A s \in Seats : user[s] # p
      /\ books.loaned[p] = 0 /\ books.locked[p] = 0 /\ books.chips[p] = Grants[p]
      /\ books.issued[p] = 0 /\ books.returned[p] = 0 /\ advanced[p] = 0
  BY Terms DEF Init
<1>2. Grants[p] \in Nat
  BY Bounded
<1> QED BY <1>1, <1>2 DEF AgreesFor, Agrees, Seated

(* What was ever locked for a player, what the settlement says was lent to *)
(* him and returned, his lock and his balance agree, for every player none *)
(* of whose seats on club chips was moved, topped up, bought back into,    *)
(* felted, or cashed out in vain (LockBalanceForTable, SettleSeatAtTable,  *)
(* recordSeatSettlement).                                                  *)
THEOREM AccountsAlwaysAgree == Spec => []AccountsAgree
<1>1. Spec => []Agreement
  BY AgreementInit, AgreementStep, SeatingHolds, PTL DEF Spec
<1> QED BY <1>1, AgreementIsEnough, PTL

==============================================================================
