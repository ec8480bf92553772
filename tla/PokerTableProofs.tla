--------------------------- MODULE PokerTableProofs ---------------------------
(***************************************************************************)
(* What the operators of PokerTable preserve: the type of a table, the     *)
(* accounting of its pot, and the chips of every seat; and what a turn of  *)
(* BettingRound comes to.                                                  *)
(***************************************************************************)
EXTENDS BettingRound, SumProofs

----------------------------------------------------------------------------
(* Totals over the seats. *)

LEMMA SeatsFinite == IsFiniteSet(Seats)
BY MaxSeatsAssumption, FS_Interval DEF Seats

(* A sum of natural numbers is one. *)
LEMMA TotalType ==
  ASSUME NEW f \in [Seats -> Nat]
  PROVE  Total(f) \in Nat
BY SeatsFinite, SumType DEF Total

(* The sum of sums is the sum of the totals. *)
LEMMA TotalOfSum ==
  ASSUME NEW f \in [Seats -> Nat], NEW g \in [Seats -> Nat]
  PROVE  Total([s \in Seats |-> f[s] + g[s]]) = Total(f) + Total(g)
<1>1. PICK h : h = [s \in Seats |-> f[s] + g[s]]
  OBVIOUS
<1>2. \A s \in Seats : f[s] \in Nat /\ g[s] \in Nat /\ h[s] = f[s] + g[s]
  BY <1>1
<1> QED BY <1>1, <1>2, SeatsFinite, SumOfSums DEF Total

(* The sum of nothing is nothing. *)
LEMMA TotalOfNothing == Total([s \in Seats |-> 0]) = 0
<1>1. PICK z : z = [s \in Seats |-> 0]
  OBVIOUS
<1>2. \A s \in Seats : z[s] = 0
  BY <1>1
<1> QED BY <1>1, <1>2, SeatsFinite, SumOfZeros DEF Total

(* The chips of one seat alone are all there are. *)
LEMMA TotalOfOne ==
  ASSUME NEW s \in Seats, NEW n \in Nat
  PROVE  Total([r \in Seats |-> IF r = s THEN n ELSE 0]) = n
<1>1. PICK z, one : z = [r \in Seats |-> 0] /\ one = [r \in Seats |-> IF r = s THEN n ELSE 0]
  OBVIOUS
<1>2. \A r \in Seats : z[r] \in Nat
  BY <1>1
<1>3. one[s] = n /\ z[s] = 0 /\ \A r \in Seats \ {s} : one[r] = z[r]
  BY <1>1
<1>4. SumFunctionOnSet(one, Seats) + z[s] = SumFunctionOnSet(z, Seats) + one[s]
  BY <1>2, <1>3, SeatsFinite, SumChanged
<1>5. SumFunctionOnSet(z, Seats) = 0
  BY <1>1, TotalOfNothing DEF Total
<1>6. PICK k \in Nat : k = SumFunctionOnSet(one, Seats)
  <2>1. \A r \in Seats : one[r] \in Nat
    BY <1>1
  <2> QED BY <2>1, SeatsFinite, SumType
<1>7. k + 0 = 0 + n
  BY <1>3, <1>4, <1>5, <1>6
<1> QED BY <1>1, <1>6, <1>7 DEF Total

(* What one seat's change does to the sum. *)
LEMMA TotalChanged ==
  ASSUME NEW f \in [Seats -> Nat], NEW s \in Seats, NEW n \in Nat
  PROVE  Total([f EXCEPT ![s] = n]) + f[s] = Total(f) + n
<1>1. PICK g : g = [f EXCEPT ![s] = n]
  OBVIOUS
<1>2. (\A r \in Seats : f[r] \in Nat) /\ g[s] = n /\ \A r \in Seats \ {s} : g[r] = f[r]
  BY <1>1
<1>3. SumFunctionOnSet(g, Seats) + f[s] = SumFunctionOnSet(f, Seats) + g[s]
  BY <1>2, SeatsFinite, SumChanged
<1> QED BY <1>1, <1>2, <1>3 DEF Total

LEMMA TotalEmptied ==
  ASSUME NEW f \in [Seats -> Nat], NEW s \in Seats, NEW g, g = [f EXCEPT ![s] = 0]
  PROVE  /\ g \in [Seats -> Nat] /\ f[s] \in Nat
         /\ Total(g) + f[s] = Total(f) /\ Total(g) <= Total(f)
<1>1. PICK n \in Nat : n = 0
  OBVIOUS
<1>2. PICK h : h = [f EXCEPT ![s] = n]
  OBVIOUS
<1>3. Total(h) + f[s] = Total(f) + n
  BY <1>2, TotalChanged
<1>4. g = h
  BY <1>1, <1>2
<1>5. g \in [Seats -> Nat] /\ f[s] \in Nat
  OBVIOUS
<1>6. PICK a \in Nat, c \in Nat, k \in Nat : a = Total(g) /\ c = Total(f) /\ k = f[s]
  BY <1>5, TotalType
<1>7. a + k = c /\ a <= c
  <2>1. a + k = c + 0
    BY <1>1, <1>3, <1>4, <1>6
  <2> QED BY <1>6, <2>1
<1> QED BY <1>5, <1>6, <1>7

(* The walk round the ring ends at a seat of the set it looks for. *)
LEMMA FirstFromIn ==
  ASSUME NEW S \in SUBSET Seats, S # {}, NEW from \in Int
  PROVE  FirstFrom(from, S) \in S
<1> DEFINE T == {Steps(from, s) : s \in S}
<1> USE MaxSeatsAssumption
<1>1. \A s \in Seats : Steps(from, s) \in Nat
  BY DEF Steps, Seats
<1>2. T \in SUBSET Nat /\ \E z : z \in T
  BY <1>1
<1>3. PICK x \in T : \A y \in T : ~(y < x)
  <2> HIDE DEF T
  <2> QED BY <1>2, LeastOf
<1>4. PICK s \in S : x = Steps(from, s)
  BY <1>3
<1>5. \A r \in S : Steps(from, s) <= Steps(from, r)
  BY <1>1, <1>3, <1>4
<1> QED BY <1>5 DEF FirstFrom

----------------------------------------------------------------------------
(* The pot holds what the seats have contributed. *)
Accounted(t) == t.pot = Total(t.contrib)

(* Nobody has bet more on the street than contributed to the hand. *)
Backed(t) == \A s \in Seats : t.bet[s] <= t.contrib[s]

Sound(t) == t \in Tables /\ Backed(t)

(* Nobody has bet more than n. *)
BetAtMost(t, n) == \A s \in Seats : t.bet[s] <= n

(* From t to u no seat gains or loses chips, and the pot gains what the    *)
(* seats contribute.                                                       *)
SameChips(t, u) ==
  /\ u.pot + Total(t.contrib) = t.pot + Total(u.contrib)
  /\ \A s \in Seats : u.stack[s] + u.contrib[s] = t.stack[s] + t.contrib[s]

LEMMA SameChipsTrans ==
  ASSUME NEW t \in Tables, NEW u \in Tables, NEW v \in Tables,
         SameChips(t, u), SameChips(u, v)
  PROVE  SameChips(t, v)
<1>1. PICK a \in Nat, b \in Nat, c \in Nat :
        a = Total(t.contrib) /\ b = Total(u.contrib) /\ c = Total(v.contrib)
  BY TotalType DEF Tables
<1>2. t.pot \in Nat /\ u.pot \in Nat /\ v.pot \in Nat
  BY DEF Tables
<1>3. u.pot + a = t.pot + b /\ v.pot + b = u.pot + c
  BY <1>1 DEF SameChips
<1>4. v.pot + a = t.pot + c
  BY <1>2, <1>3
<1>5. \A s \in Seats : v.stack[s] + v.contrib[s] = t.stack[s] + t.contrib[s]
  BY DEF SameChips
<1> QED BY <1>1, <1>4, <1>5 DEF SameChips

(* The accounts of the pot stay right. *)
LEMMA SameChipsAccounted ==
  ASSUME NEW t \in Tables, NEW u \in Tables, Accounted(t), SameChips(t, u)
  PROVE  Accounted(u)
<1>1. PICK a \in Nat, b \in Nat : a = Total(t.contrib) /\ b = Total(u.contrib)
  BY TotalType DEF Tables
<1>2. u.pot \in Nat /\ u.pot + a = a + b
  BY <1>1 DEF SameChips, Accounted, Tables
<1> QED BY <1>1, <1>2 DEF Accounted

(* A step that moves no chips keeps the accounts. *)
LEMMA NoChipsMoved ==
  ASSUME NEW t, Sound(t), NEW u \in Tables,
         u.stack = t.stack, u.contrib = t.contrib, u.pot = t.pot,
         \A s \in Seats : u.bet[s] <= t.bet[s] \/ u.bet[s] = 0
  PROVE  Sound(u) /\ SameChips(t, u)
<1>1. \A s \in Seats : t.contrib[s] \in Nat /\ t.bet[s] \in Nat /\ u.bet[s] \in Nat
  BY DEF Sound, Tables
<1>2. Backed(u)
  BY <1>1 DEF Sound, Backed
<1> QED BY <1>2 DEF Sound, SameChips

----------------------------------------------------------------------------
(* Chips into the pot. *)

LEMMA CollectSound ==
  ASSUME NEW t \in Tables,
         NEW paid \in [Seats -> Nat], \A s \in Seats : paid[s] <= t.stack[s]
  PROVE  /\ Collect(t, paid) \in Tables
         /\ SameChips(t, Collect(t, paid))
         /\ Collect(t, paid).bet = t.bet
         /\ Collect(t, paid).currentBet = t.currentBet
         /\ \A s \in Seats : Collect(t, paid).contrib[s] = t.contrib[s] + paid[s]
<1> DEFINE u == Collect(t, paid)
           stack == [s \in Seats |-> t.stack[s] - paid[s]]
           contrib == [s \in Seats |-> t.contrib[s] + paid[s]]
           pot == t.pot + Total(paid)
<1>1. t.stack \in [Seats -> Nat] /\ t.contrib \in [Seats -> Nat] /\ t.pot \in Nat
  BY DEF Tables
<1>2. stack \in [Seats -> Nat] /\ contrib \in [Seats -> Nat]
  BY <1>1
<1>3. Total(paid) \in Nat /\ pot \in Nat
  BY <1>1, TotalType
<1>4. u = [t EXCEPT !.stack = stack, !.contrib = contrib, !.pot = pot]
  BY DEF Collect
<1>5. Total(contrib) = Total(t.contrib) + Total(paid)
  BY <1>1, TotalOfSum
<1> HIDE DEF stack, contrib, pot, u
<1>6. /\ u \in Tables /\ u.stack = stack /\ u.contrib = contrib /\ u.pot = pot
      /\ u.bet = t.bet /\ u.currentBet = t.currentBet
  BY <1>2, <1>3, <1>4 DEF Tables
<1>7. u.pot + Total(t.contrib) = t.pot + Total(u.contrib)
  <2> PICK a \in Nat, b \in Nat, c \in Nat :
        a = Total(t.contrib) /\ b = Total(paid) /\ c = t.pot
    BY <1>1, <1>3, TotalType
  <2>1. (c + b) + a = c + (a + b)
    OBVIOUS
  <2> QED BY <1>5, <1>6, <2>1 DEF pot
<1>8. \A s \in Seats : u.stack[s] + u.contrib[s] = t.stack[s] + t.contrib[s]
  BY <1>1, <1>6 DEF stack, contrib
<1>9. \A s \in Seats : u.contrib[s] = t.contrib[s] + paid[s]
  BY <1>6 DEF contrib
<1> QED BY <1>6, <1>7, <1>8, <1>9 DEF SameChips, u

(* One seat pays and its bet on the street becomes `bet`. *)
Pay(t, seat, pay, bet) ==
  [Collect(t, Only(seat, pay)) EXCEPT !.bet = [@ EXCEPT ![seat] = bet]]

LEMMA PaySound ==
  ASSUME NEW t, Sound(t), NEW seat \in Seats,
         NEW pay \in Nat, pay <= t.stack[seat],
         NEW bet \in Nat, bet <= t.bet[seat] + pay
  PROVE  /\ Sound(Pay(t, seat, pay, bet))
         /\ SameChips(t, Pay(t, seat, pay, bet))
         /\ Pay(t, seat, pay, bet).currentBet = t.currentBet
         /\ \A s \in Seats : Pay(t, seat, pay, bet).bet[s]
                               = IF s = seat THEN bet ELSE t.bet[s]
<1> DEFINE paid == Only(seat, pay)
           c == Collect(t, paid)
           b == [c.bet EXCEPT ![seat] = bet]
           u == Pay(t, seat, pay, bet)
<1>1. t \in Tables /\ t.stack \in [Seats -> Nat]
  BY DEF Sound, Tables
<1>2. paid \in [Seats -> Nat] /\ \A s \in Seats : paid[s] <= t.stack[s]
  BY <1>1 DEF Only
<1> HIDE DEF paid
<1>3. /\ c \in Tables /\ SameChips(t, c)
      /\ c.bet = t.bet /\ c.currentBet = t.currentBet
      /\ \A s \in Seats : c.contrib[s] = t.contrib[s] + paid[s]
  BY <1>1, <1>2, CollectSound
<1>4. u = [c EXCEPT !.bet = b]
  BY DEF Pay, paid
<1> HIDE DEF c
<1>6. b \in [Seats -> Nat]
  BY <1>3 DEF Tables
<1>7. b = [t.bet EXCEPT ![seat] = bet]
  BY <1>3
<1> HIDE DEF b, u
<1>8. u \in Tables /\ u.bet = b /\ u.stack = c.stack /\ u.contrib = c.contrib /\ u.pot = c.pot
  BY <1>3, <1>4, <1>6 DEF Tables
<1>9. SameChips(t, u)
  BY <1>3, <1>8 DEF SameChips
<1>10. Backed(u)
  <2>1. \A s \in Seats : t.bet[s] \in Nat /\ t.contrib[s] \in Nat /\ t.bet[s] <= t.contrib[s]
    BY DEF Sound, Backed, Tables
  <2>2. \A s \in Seats : paid[s] = IF s = seat THEN pay ELSE 0
    BY DEF paid, Only
  <2>3. \A s \in Seats : b[s] = IF s = seat THEN bet ELSE t.bet[s]
    BY <1>7, <1>1 DEF Tables
  <2> QED BY <1>3, <1>8, <2>1, <2>2, <2>3 DEF Backed
<1>11. u.currentBet = t.currentBet
  BY <1>1, <1>3, <1>4 DEF Tables
<1>12. \A s \in Seats : b[s] = IF s = seat THEN bet ELSE t.bet[s]
  BY <1>1, <1>7 DEF Tables
<1> QED BY <1>8, <1>9, <1>10, <1>11, <1>12 DEF Sound, u

LEMMA PostBlindSound ==
  ASSUME NEW t, Sound(t), NEW seat \in Seats, NEW amount \in Nat
  PROVE  LET u == PostBlind(t, seat, amount)
         IN  /\ Sound(u) /\ SameChips(t, u) /\ u.currentBet = t.currentBet
             /\ \A s \in Seats : u.bet[s] <= t.bet[s] \/ u.bet[s] <= amount
<1> DEFINE pay == Lesser(amount, t.stack[seat])
           u == Pay(t, seat, pay, pay)
<1>1. t \in Tables /\ t.bet \in [Seats -> Nat] /\ t.stack \in [Seats -> Nat]
  BY DEF Sound, Tables
<1>2. pay \in Nat /\ pay <= t.stack[seat] /\ pay <= amount /\ pay <= t.bet[seat] + pay
  BY <1>1 DEF Lesser
<1>3. PostBlind(t, seat, amount) = IF seat \notin Occupied(t) THEN t ELSE u
  BY DEF PostBlind, Pay
<1> HIDE DEF pay
<1>4. /\ Sound(u) /\ SameChips(t, u) /\ u.currentBet = t.currentBet
      /\ \A s \in Seats : u.bet[s] = IF s = seat THEN pay ELSE t.bet[s]
  BY <1>1, <1>2, PaySound
<1> HIDE DEF u
<1>5. \A s \in Seats : u.bet[s] <= t.bet[s] \/ u.bet[s] <= amount
  BY <1>1, <1>2, <1>4
<1>6. SameChips(t, t) /\ \A s \in Seats : t.bet[s] <= t.bet[s]
  BY <1>1 DEF SameChips
<1> QED BY <1>3, <1>4, <1>5, <1>6

LEMMA PostAntesSound ==
  ASSUME NEW t, Sound(t), NEW S \in SUBSET Seats, NEW amount \in Nat
  PROVE  LET u == PostAntes(t, S, amount)
         IN  /\ Sound(u) /\ SameChips(t, u)
             /\ u.currentBet = t.currentBet /\ u.bet = t.bet
<1> DEFINE paid == [s \in Seats |-> IF s \in S THEN Lesser(amount, t.stack[s]) ELSE 0]
           status == [s \in Seats |-> IF s \in S /\ paid[s] = t.stack[s]
                                      THEN "all_in" ELSE t.status[s]]
           c == Collect(t, paid)
           u == [c EXCEPT !.status = status]
<1>1. /\ t \in Tables /\ t.stack \in [Seats -> Nat]
      /\ t.status \in [Seats -> SeatStatus]
  BY DEF Sound, Tables
<1>2. paid \in [Seats -> Nat] /\ \A s \in Seats : paid[s] <= t.stack[s]
  BY <1>1 DEF Lesser
<1>3. status \in [Seats -> SeatStatus]
  BY <1>1 DEF SeatStatus
<1>4. PostAntes(t, S, amount) = u
  BY DEF PostAntes
<1> HIDE DEF paid, status
<1>5. /\ c \in Tables /\ SameChips(t, c)
      /\ c.bet = t.bet /\ c.currentBet = t.currentBet
      /\ \A s \in Seats : c.contrib[s] = t.contrib[s] + paid[s]
  BY <1>1, <1>2, CollectSound
<1> HIDE DEF c
<1>7. /\ u \in Tables /\ u.bet = c.bet /\ u.currentBet = c.currentBet
      /\ u.stack = c.stack /\ u.contrib = c.contrib /\ u.pot = c.pot
  BY <1>3, <1>5 DEF Tables
<1> HIDE DEF u
<1>8. Backed(u)
  <2>1. \A s \in Seats : t.bet[s] \in Nat /\ t.contrib[s] \in Nat /\ t.bet[s] <= t.contrib[s]
    BY DEF Sound, Backed, Tables
  <2> QED BY <1>2, <1>5, <1>7, <2>1 DEF Backed
<1> QED BY <1>4, <1>5, <1>7, <1>8 DEF Sound, SameChips

LEMMA PostReturnsSound ==
  ASSUME NEW t, Sound(t), NEW R \in SUBSET Seats
  PROVE  LET u == PostReturns(t, R)
         IN  /\ Sound(u) /\ SameChips(t, u) /\ u.currentBet = t.currentBet
             /\ \A s \in Seats : u.bet[s] <= t.bet[s] \/ u.bet[s] <= BigBlind
<1> DEFINE a == PostAntes(t, R, SmallBlind)
           paid == [s \in Seats |-> IF s \in R THEN Lesser(BigBlind, a.stack[s]) ELSE 0]
           bet == [s \in Seats |-> IF s \in R THEN paid[s] ELSE t.bet[s]]
           c == Collect(a, paid)
           u == [c EXCEPT !.bet = bet, !.owesPost = @ \ R, !.postNow = @ \ R,
                          !.sittingOut = @ \ R]
<1>1. SmallBlind \in Nat /\ BigBlind \in Nat
  BY BlindsAssumption
<1>2. PostReturns(t, R) = u
  BY DEF PostReturns
<1>3. Sound(a) /\ SameChips(t, a) /\ a.currentBet = t.currentBet /\ a.bet = t.bet
  BY <1>1, PostAntesSound
<1> HIDE DEF a
<1>4. /\ t \in Tables /\ a \in Tables /\ a.stack \in [Seats -> Nat]
      /\ t.bet \in [Seats -> Nat] /\ a.contrib \in [Seats -> Nat]
  BY <1>3 DEF Sound, Tables
<1>5. /\ paid \in [Seats -> Nat]
      /\ \A s \in Seats : paid[s] <= a.stack[s] /\ paid[s] <= BigBlind
  BY <1>1, <1>4 DEF Lesser
<1>6. /\ bet \in [Seats -> Nat]
      /\ \A s \in Seats : bet[s] = paid[s] \/ (bet[s] = t.bet[s])
  BY <1>4, <1>5
<1> HIDE DEF paid, bet
<1>7. /\ c \in Tables /\ SameChips(a, c)
      /\ c.bet = a.bet /\ c.currentBet = a.currentBet
      /\ \A s \in Seats : c.contrib[s] = a.contrib[s] + paid[s]
  BY <1>4, <1>5, CollectSound
<1> HIDE DEF c
<1>9. /\ c.owesPost \ R \in SUBSET Seats /\ c.postNow \ R \in SUBSET Seats
      /\ c.sittingOut \ R \in SUBSET Seats
  BY <1>7 DEF Tables
<1>10. /\ u \in Tables /\ u.bet = bet /\ u.currentBet = c.currentBet
       /\ u.stack = c.stack /\ u.contrib = c.contrib /\ u.pot = c.pot
  BY <1>6, <1>7, <1>9 DEF Tables
<1> HIDE DEF u
<1>11. Backed(u)
  <2>1. \A s \in Seats : t.bet[s] \in Nat /\ a.contrib[s] \in Nat /\ t.bet[s] <= a.contrib[s]
    BY <1>3, <1>4 DEF Sound, Backed
  <2> QED BY <1>5, <1>6, <1>7, <1>10, <2>1 DEF Backed
<1>12. SameChips(t, u)
  <2>1. SameChips(c, u)
    BY <1>10 DEF SameChips
  <2> QED BY <1>3, <1>4, <1>7, <1>10, <2>1, SameChipsTrans
<1>13. \A s \in Seats : u.bet[s] <= t.bet[s] \/ u.bet[s] <= BigBlind
  BY <1>4, <1>5, <1>6, <1>10
<1>14. Sound(u)
  BY <1>7, <1>10, <1>11 DEF Sound
<1> QED BY <1>2, <1>3, <1>7, <1>10, <1>12, <1>13, <1>14

LEMMA ForcePostBBSound ==
  ASSUME NEW t, Sound(t), NEW seat \in Seats
  PROVE  LET u == ForcePostBB(t, seat)
         IN  /\ Sound(u) /\ SameChips(t, u) /\ u.currentBet = t.currentBet
             /\ \A s \in Seats : u.bet[s] <= t.bet[s] \/ u.bet[s] <= BigBlind
<1> DEFINE v == [t EXCEPT !.owesPost = @ \ {seat}, !.sittingOut = @ \ {seat}]
           u == PostBlind(v, seat, BigBlind)
<1>1. t \in Tables /\ t.bet \in [Seats -> Nat] /\ BigBlind \in Nat
  BY BlindsAssumption DEF Sound, Tables
<1>2. ForcePostBB(t, seat) = IF seat \notin Occupied(t) THEN t ELSE u
  BY DEF ForcePostBB
<1>3. t.owesPost \ {seat} \in SUBSET Seats /\ t.sittingOut \ {seat} \in SUBSET Seats
  BY <1>1 DEF Tables
<1>4. /\ v \in Tables /\ v.stack = t.stack /\ v.contrib = t.contrib /\ v.pot = t.pot
      /\ v.bet = t.bet /\ v.currentBet = t.currentBet
  BY <1>1, <1>3 DEF Tables
<1> HIDE DEF v
<1>5. Sound(v) /\ SameChips(t, v)
  BY <1>1, <1>4, NoChipsMoved
<1>6. /\ Sound(u) /\ SameChips(v, u) /\ u.currentBet = v.currentBet
      /\ \A s \in Seats : u.bet[s] <= v.bet[s] \/ u.bet[s] <= BigBlind
  BY <1>1, <1>5, PostBlindSound
<1> HIDE DEF u
<1>7. SameChips(t, u)
  BY <1>1, <1>4, <1>5, <1>6, SameChipsTrans DEF Sound
<1>8. SameChips(t, t) /\ \A s \in Seats : t.bet[s] <= t.bet[s]
  BY <1>1 DEF SameChips
<1> QED BY <1>2, <1>4, <1>6, <1>7, <1>8

----------------------------------------------------------------------------
(* Positions. *)

LEMMA ActiveInSeats ==
  ASSUME NEW t
  PROVE  /\ Active(t) \in SUBSET Seats /\ CanAct(t) \in SUBSET Seats
         /\ BlindPayers(t) \in SUBSET Seats /\ Occupied(t) \in SUBSET Seats
BY DEF Active, Ready, CanAct, BlindPayers, Occupied

LEMMA NextSeatTypes ==
  ASSUME NEW t, NEW from \in Seats
  PROVE  /\ NextActiveSeat(t, from) \in Seats \cup {None}
         /\ NextEligible(t, from) \in Seats
         /\ NextBBSeat(t, from) \in Seats
<1>1. from \in Int
  BY MaxSeatsAssumption DEF Seats
<1> QED BY <1>1, ActiveInSeats, FirstFromIn DEF NextActiveSeat, NextEligible, NextBBSeat

(* A set of two or more seats has a lowest one, and one beside any seat. *)
LEMMA TwoSeats ==
  ASSUME NEW S \in SUBSET Seats, Cardinality(S) >= 2
  PROVE  /\ \E s \in S : \A r \in S : s <= r
         /\ \A h \in Seats : \E s \in S : s # h
<1>1. Seats \in SUBSET Nat /\ IsFiniteSet(Seats)
  BY MaxSeatsAssumption, FS_Interval DEF Seats
<1>2. IsFiniteSet(S)
  BY <1>1, FS_Subset
<1>3. Cardinality({}) = 0 /\ \A h : Cardinality({h}) = 1
  BY FS_EmptySet, FS_Singleton
<1>4. \A h \in Seats : \E s \in S : s # h
  <2> SUFFICES ASSUME NEW h \in Seats, \A s \in S : s = h PROVE FALSE
    OBVIOUS
  <2>1. S = {} \/ S = {h}
    OBVIOUS
  <2> QED BY <2>1, <1>3
<1>5. \E z : z \in S
  BY <1>3
<1>6. PICK x \in S : \A y \in S : ~(y < x)
  BY <1>1, <1>5, LeastOf
<1>7. \A r \in S : x <= r
  BY <1>1, <1>6
<1> QED BY <1>4, <1>7

(* Both blind anchors are set or neither is. *)
Anchored(t) == t.sbSeat = None <=> t.bbSeat = None

Positions(pos) == pos.button \in Seats /\ pos.sb \in Seats /\ pos.bb \in Seats

LEMMA AssignedPositions ==
  ASSUME NEW t \in Tables, Anchored(t), Cardinality(Active(t)) >= 2
  PROVE  Positions(AssignButtonAndBlinds(t))
<1> DEFINE active == Active(t)
           lowest == CHOOSE s \in active : \A r \in active : s <= r
           hub == IF t.bbSeat \in active THEN t.bbSeat ELSE lowest
           other == CHOOSE s \in active : s # hub
<1>1. active \in SUBSET Seats /\ t.sbSeat \in Seats \cup {None} /\ t.bbSeat \in Seats \cup {None}
  BY ActiveInSeats DEF Tables
<1>2. /\ \E s \in active : \A r \in active : s <= r
      /\ \A h \in Seats : \E s \in active : s # h
  BY <1>1, TwoSeats
<1> HIDE DEF active
<1>3. lowest \in Seats
  BY <1>1, <1>2
<1> HIDE DEF lowest
<1>4. hub \in Seats
  BY <1>1, <1>3
<1> HIDE DEF hub
<1>5. other \in Seats
  BY <1>1, <1>2, <1>4
<1> HIDE DEF other
<1>6. CASE Cardinality(active) = 2 /\ Cardinality(Ready(t)) = 2
  <2>1. AssignButtonAndBlinds(t) = [button |-> hub, sb |-> hub, bb |-> other, dead |-> FALSE]
    BY <1>6 DEF AssignButtonAndBlinds, active, lowest, hub, other
  <2> QED BY <2>1, <1>4, <1>5 DEF Positions
<1>7. CASE ~(Cardinality(active) = 2 /\ Cardinality(Ready(t)) = 2) /\ t.bbSeat = None
  <2> DEFINE sb == NextEligible(t, lowest)
  <2>1. AssignButtonAndBlinds(t)
          = [button |-> lowest, sb |-> sb, bb |-> NextEligible(t, sb), dead |-> FALSE]
    BY <1>7 DEF AssignButtonAndBlinds, active, lowest, hub, other
  <2>2. sb \in Seats
    BY <1>3, NextSeatTypes
  <2> HIDE DEF sb
  <2>3. NextEligible(t, sb) \in Seats
    BY <2>2, NextSeatTypes
  <2> QED BY <2>1, <2>2, <2>3, <1>3 DEF Positions
<1>8. CASE ~(Cardinality(active) = 2 /\ Cardinality(Ready(t)) = 2) /\ t.bbSeat # None
  <2>1. AssignButtonAndBlinds(t)
          = [button |-> t.sbSeat, sb |-> t.bbSeat, bb |-> NextBBSeat(t, t.bbSeat),
             dead |-> t.bbSeat \notin active]
    BY <1>8 DEF AssignButtonAndBlinds, active, lowest, hub, other
  <2>2. t.sbSeat \in Seats /\ t.bbSeat \in Seats
    BY <1>1, <1>8 DEF Anchored
  <2>3. NextBBSeat(t, t.bbSeat) \in Seats
    BY <2>2, NextSeatTypes
  <2> QED BY <2>1, <2>2, <2>3 DEF Positions
<1> QED BY <1>6, <1>7, <1>8

----------------------------------------------------------------------------
(* The opening of a hand. *)

(* Nobody has bet more than the bet to match. *)
Matchable(t) == BetAtMost(t, t.currentBet)

LEMMA DealCardsSound ==
  ASSUME NEW t, Sound(t), NEW pos, Positions(pos)
  PROVE  LET u == DealCards(t, pos)
         IN  /\ Sound(u) /\ SameChips(t, u) /\ u.currentBet = t.currentBet
             /\ BetAtMost(u, 0)
<1> DEFINE dealt == DealtIn(t, pos.bb)
           status == [s \in Seats |-> IF s \notin Occupied(t) THEN "empty"
                                      ELSE IF s \in dealt THEN "seated" ELSE "folded"]
           u == [t EXCEPT !.button = pos.button, !.bet = NoBets, !.cards = dealt,
                          !.status = status]
<1>1. t \in Tables /\ pos.button \in Seats /\ pos.bb \in Seats
  BY DEF Sound, Positions
<1>2. dealt \in SUBSET Seats
  BY <1>1, ActiveInSeats DEF DealtIn
<1>3. status \in [Seats -> SeatStatus]
  BY DEF SeatStatus
<1>4. NoBets \in [Seats -> Nat] /\ \A s \in Seats : NoBets[s] = 0
  BY DEF NoBets
<1>5. DealCards(t, pos) = u
  BY DEF DealCards
<1> HIDE DEF dealt, status
<1>6. /\ u \in Tables /\ u.bet = NoBets /\ u.currentBet = t.currentBet
      /\ u.stack = t.stack /\ u.contrib = t.contrib /\ u.pot = t.pot
  BY <1>1, <1>2, <1>3, <1>4 DEF Tables
<1> HIDE DEF u
<1>7. Sound(u) /\ SameChips(t, u)
  BY <1>4, <1>6, NoChipsMoved
<1>8. BetAtMost(u, 0)
  BY <1>4, <1>6 DEF BetAtMost
<1> QED BY <1>5, <1>6, <1>7, <1>8

LEMMA OpenBombPotSound ==
  ASSUME NEW t, Sound(t), BetAtMost(t, 0), NEW pos, Positions(pos)
  PROVE  LET u == OpenBombPot(t, pos)
         IN  Sound(u) /\ SameChips(t, u) /\ Matchable(u)
<1> DEFINE amount == IF BombAnte > 0 THEN BombAnte ELSE BigBlind
           a == PostAntes(t, t.cards, amount)
           next == NextActiveSeat(a, pos.button)
           u == [a EXCEPT !.board = 3, !.street = "flop", !.currentBet = 0,
                          !.minRaise = BigBlind, !.acted = {}, !.action = next,
                          !.sbSeat = pos.sb, !.bbSeat = pos.bb]
<1>1. /\ t \in Tables /\ t.cards \in SUBSET Seats /\ BigBlind \in Nat
      /\ pos.button \in Seats /\ pos.sb \in Seats /\ pos.bb \in Seats
  BY BlindsAssumption DEF Sound, Positions, Tables
<1>2. amount \in Nat
  BY BlindsAssumption
<1>3. OpenBombPot(t, pos) = u
  BY DEF OpenBombPot
<1> HIDE DEF amount
<1>4. Sound(a) /\ SameChips(t, a) /\ a.bet = t.bet
  BY <1>1, <1>2, PostAntesSound
<1> HIDE DEF a
<1>5. a \in Tables /\ a.bet \in [Seats -> Nat]
  BY <1>4 DEF Sound, Tables
<1>6. next \in Seats \cup {None}
  BY <1>1, NextSeatTypes
<1> HIDE DEF next
<1>7. /\ 3 \in 0 .. 5 /\ 0 \in Nat /\ "flop" \in Streets /\ {} \in SUBSET Seats
       /\ pos.sb \in Seats \cup {None} /\ pos.bb \in Seats \cup {None}
  BY <1>1 DEF Streets
<1>8. /\ u \in Tables /\ u.bet = a.bet /\ u.currentBet = 0
      /\ u.stack = a.stack /\ u.contrib = a.contrib /\ u.pot = a.pot
  BY <1>1, <1>5, <1>6, <1>7 DEF Tables
<1> HIDE DEF u
<1>9. \A s \in Seats : u.bet[s] <= a.bet[s]
  BY <1>5, <1>8
<1>10. Sound(u) /\ SameChips(a, u)
  BY <1>4, <1>8, <1>9, NoChipsMoved
<1>11. SameChips(t, u)
  BY <1>1, <1>4, <1>5, <1>8, <1>10, SameChipsTrans
<1>12. Matchable(u)
  BY <1>4, <1>8 DEF Matchable, BetAtMost
<1> QED BY <1>3, <1>10, <1>11, <1>12

LEMMA PostStraddleSound ==
  ASSUME NEW t, Sound(t), BetAtMost(t, BigBlind), t.currentBet = BigBlind,
         NEW pos, Positions(pos)
  PROVE  LET u == PostStraddle(t, pos)
         IN  Sound(u) /\ SameChips(t, u) /\ Matchable(u)
<1> DEFINE utg == NextActiveSeat(t, pos.bb)
           p == PostBlind(t, utg, 2 * BigBlind)
           next == NextActiveSeat(p, utg)
           u == [p EXCEPT !.currentBet = 2 * BigBlind, !.minRaise = BigBlind,
                          !.action = next]
           straddles == utg \notin {None, pos.bb, pos.sb} /\ t.stack[utg] >= 2 * BigBlind
<1>1. /\ t \in Tables /\ BigBlind \in Nat /\ 2 * BigBlind \in Nat
      /\ BigBlind <= 2 * BigBlind /\ pos.bb \in Seats /\ t.bet \in [Seats -> Nat]
  BY BlindsAssumption DEF Sound, Positions, Tables
<1>2. utg \in Seats \cup {None}
  BY <1>1, NextSeatTypes
<1>3. PostStraddle(t, pos) = IF straddles THEN u ELSE t
  BY DEF PostStraddle
<1>4. straddles => utg \in Seats
  BY <1>2
<1> HIDE DEF straddles, utg
<1>5. ASSUME utg \in Seats
      PROVE  Sound(u) /\ SameChips(t, u) /\ Matchable(u)
  <2>1. /\ Sound(p) /\ SameChips(t, p)
        /\ \A s \in Seats : p.bet[s] <= t.bet[s] \/ p.bet[s] <= 2 * BigBlind
    BY <1>1, <1>5, PostBlindSound
  <2> HIDE DEF p
  <2>2. p \in Tables /\ p.bet \in [Seats -> Nat]
    BY <2>1 DEF Sound, Tables
  <2>3. next \in Seats \cup {None}
    BY <1>5, NextSeatTypes
  <2> HIDE DEF next
  <2>4. /\ u \in Tables /\ u.bet = p.bet /\ u.currentBet = 2 * BigBlind
        /\ u.stack = p.stack /\ u.contrib = p.contrib /\ u.pot = p.pot
    <3>1. PICK double \in Nat : double = 2 * BigBlind
      BY <1>1
    <3>2. u = [p EXCEPT !.currentBet = double, !.minRaise = BigBlind, !.action = next]
      BY <3>1
    <3> HIDE DEF u
    <3>3. p \in Tables /\ BigBlind \in Nat
      BY <1>1, <2>2
    <3> QED BY <2>3, <3>1, <3>2, <3>3, ZenonT(30) DEF Tables
  <2> HIDE DEF u
  <2>5. \A s \in Seats : u.bet[s] <= p.bet[s]
    BY <2>2, <2>4
  <2>6. Sound(u) /\ SameChips(p, u)
    BY <2>1, <2>4, <2>5, NoChipsMoved
  <2>7. SameChips(t, u)
    BY <1>1, <2>1, <2>2, <2>4, <2>6, SameChipsTrans
  <2>8. \A s \in Seats : p.bet[s] <= 2 * BigBlind
    BY <1>1, <2>1, <2>2 DEF BetAtMost
  <2>9. Matchable(u)
    BY <2>4, <2>8 DEF Matchable, BetAtMost
  <2> QED BY <2>6, <2>7, <2>9
<1>6. SameChips(t, t) /\ Matchable(t)
  BY <1>1 DEF SameChips, Matchable
<1> HIDE DEF u
<1> QED BY <1>3, <1>4, <1>5, <1>6

LEMMA OpenWithBlindsSound ==
  ASSUME NEW t, Sound(t), BetAtMost(t, 0), t.currentBet = BigBlind,
         NEW pos, Positions(pos), NEW straddle \in BOOLEAN
  PROVE  LET u == OpenWithBlinds(t, pos, straddle)
         IN  Sound(u) /\ SameChips(t, u) /\ Matchable(u)
<1> DEFINE small == IF pos.dead \/ pos.sb = pos.bb THEN t
                    ELSE PostBlind(t, pos.sb, SmallBlind)
           big == ForcePostBB(small, pos.bb)
           posting == {s \in t.cards \ {pos.bb} : s \in big.owesPost \cap big.postNow}
           returned == PostReturns(big, posting)
           next == NextActiveSeat(returned, pos.bb)
           opened == [returned EXCEPT !.action = next, !.sbSeat = pos.sb, !.bbSeat = pos.bb]
<1>1. /\ t \in Tables /\ t.bet \in [Seats -> Nat] /\ t.cards \in SUBSET Seats
      /\ SmallBlind \in Nat /\ BigBlind \in Nat /\ SmallBlind <= BigBlind
      /\ pos.sb \in Seats /\ pos.bb \in Seats
      /\ \A s \in Seats : t.bet[s] <= 0
  BY BlindsAssumption DEF Sound, Positions, Tables, BetAtMost
<1>2. OpenWithBlinds(t, pos, straddle) = IF straddle THEN PostStraddle(opened, pos) ELSE opened
  BY DEF OpenWithBlinds
<1>3. /\ Sound(small) /\ SameChips(t, small) /\ small.currentBet = BigBlind
      /\ BetAtMost(small, BigBlind)
  <2> DEFINE p == PostBlind(t, pos.sb, SmallBlind)
  <2>1. /\ Sound(p) /\ SameChips(t, p) /\ p.currentBet = t.currentBet
        /\ \A s \in Seats : p.bet[s] <= t.bet[s] \/ p.bet[s] <= SmallBlind
    BY <1>1, PostBlindSound
  <2>2. small = IF pos.dead \/ pos.sb = pos.bb THEN t ELSE p
    OBVIOUS
  <2> HIDE DEF p, small
  <2>3. BetAtMost(p, BigBlind)
    <3>1. \A s \in Seats : p.bet[s] \in Nat
      BY <2>1 DEF Sound, Tables
    <3> QED BY <1>1, <2>1, <3>1 DEF BetAtMost
  <2>4. SameChips(t, t) /\ BetAtMost(t, BigBlind)
    BY <1>1 DEF SameChips, BetAtMost
  <2> QED BY <2>1, <2>2, <2>3, <2>4
<1> HIDE DEF small
<1>4. /\ Sound(big) /\ SameChips(small, big) /\ big.currentBet = BigBlind
      /\ BetAtMost(big, BigBlind)
  <2>1. /\ Sound(big) /\ SameChips(small, big) /\ big.currentBet = small.currentBet
        /\ \A s \in Seats : big.bet[s] <= small.bet[s] \/ big.bet[s] <= BigBlind
    BY <1>1, <1>3, ForcePostBBSound
  <2> HIDE DEF big
  <2>2. \A s \in Seats : big.bet[s] \in Nat /\ small.bet[s] \in Nat
    BY <1>3, <2>1 DEF Sound, Tables
  <2> QED BY <1>1, <1>3, <2>1, <2>2 DEF BetAtMost
<1> HIDE DEF big
<1>5. posting \in SUBSET Seats
  BY <1>1
<1> HIDE DEF posting
<1>6. /\ Sound(returned) /\ SameChips(big, returned) /\ returned.currentBet = BigBlind
      /\ BetAtMost(returned, BigBlind)
  <2>1. /\ Sound(returned) /\ SameChips(big, returned) /\ returned.currentBet = big.currentBet
        /\ \A s \in Seats : returned.bet[s] <= big.bet[s] \/ returned.bet[s] <= BigBlind
    BY <1>4, <1>5, PostReturnsSound
  <2> HIDE DEF returned
  <2>2. \A s \in Seats : returned.bet[s] \in Nat /\ big.bet[s] \in Nat
    BY <1>4, <2>1 DEF Sound, Tables
  <2> QED BY <1>1, <1>4, <2>1, <2>2 DEF BetAtMost
<1> HIDE DEF returned
<1>7. small \in Tables /\ big \in Tables /\ returned \in Tables
  BY <1>3, <1>4, <1>6 DEF Sound
<1>8. next \in Seats \cup {None} /\ pos.sb \in Seats \cup {None} /\ pos.bb \in Seats \cup {None}
  BY <1>1, NextSeatTypes
<1> HIDE DEF next
<1>9. /\ opened \in Tables /\ opened.bet = returned.bet /\ opened.stack = returned.stack
      /\ opened.contrib = returned.contrib /\ opened.pot = returned.pot
      /\ opened.currentBet = returned.currentBet
  BY <1>7, <1>8 DEF Tables
<1> HIDE DEF opened
<1>10. /\ Sound(opened) /\ SameChips(returned, opened) /\ opened.currentBet = BigBlind
       /\ BetAtMost(opened, BigBlind)
  <2>1. \A s \in Seats : opened.bet[s] <= returned.bet[s]
    BY <1>7, <1>9 DEF Tables
  <2>2. Sound(opened) /\ SameChips(returned, opened)
    BY <1>6, <1>9, <2>1, NoChipsMoved
  <2> QED BY <1>6, <1>9, <2>2 DEF BetAtMost
<1>11. SameChips(t, opened)
  BY <1>1, <1>3, <1>4, <1>6, <1>7, <1>9, <1>10, SameChipsTrans
<1>12. /\ Sound(PostStraddle(opened, pos)) /\ SameChips(opened, PostStraddle(opened, pos))
       /\ Matchable(PostStraddle(opened, pos))
  BY <1>10, PostStraddleSound
<1>13. SameChips(t, PostStraddle(opened, pos))
  BY <1>1, <1>9, <1>11, <1>12, SameChipsTrans DEF Sound
<1>14. Matchable(opened)
  BY <1>10 DEF Matchable
<1> QED BY <1>2, <1>10, <1>11, <1>12, <1>13, <1>14

LEMMA FormGameSound ==
  ASSUME NEW t, Sound(t), Anchored(t),
         Cardinality(Active(t)) >= 2 \/ Cardinality(Ready(t)) >= 2
  PROVE  LET u == FormGame(t)
         IN  /\ Sound(u) /\ SameChips(t, u) /\ u.currentBet = t.currentBet
             /\ Anchored(u) /\ Cardinality(Active(u)) >= 2
<1> DEFINE u == [t EXCEPT !.owesPost = @ \ Ready(t), !.postNow = @ \ Ready(t),
                          !.sbSeat = None, !.bbSeat = None]
<1>1. t \in Tables /\ t.bet \in [Seats -> Nat]
  BY DEF Sound, Tables
<1>2. FormGame(t) = IF Cardinality(Active(t)) >= 2 THEN t ELSE u
  BY DEF FormGame
<1>3. t.owesPost \ Ready(t) \in SUBSET Seats /\ t.postNow \ Ready(t) \in SUBSET Seats
  BY <1>1 DEF Tables
<1>4. /\ u \in Tables /\ u.bet = t.bet /\ u.stack = t.stack /\ u.contrib = t.contrib
      /\ u.pot = t.pot /\ u.currentBet = t.currentBet /\ u.status = t.status
      /\ u.sittingOut = t.sittingOut /\ u.owesPost = t.owesPost \ Ready(t)
      /\ u.sbSeat = None /\ u.bbSeat = None
  BY <1>1, <1>3 DEF Tables
<1> HIDE DEF u
<1>5. Active(u) = Ready(t)
  BY <1>4 DEF Active, Ready, CanAct
<1>6. \A s \in Seats : u.bet[s] <= t.bet[s]
  BY <1>1, <1>4
<1>7. Sound(u) /\ SameChips(t, u) /\ Anchored(u)
  BY <1>4, <1>6, NoChipsMoved DEF Anchored
<1>8. SameChips(t, t)
  BY <1>1 DEF SameChips
<1>9. CASE Cardinality(Active(t)) >= 2
  BY <1>2, <1>8, <1>9
<1>10. CASE ~(Cardinality(Active(t)) >= 2)
  BY <1>2, <1>4, <1>5, <1>7, <1>10
<1> QED BY <1>9, <1>10

(* A hand that starts from a table without bets, contributions or a pot.   *)
LEMMA StartHandSound ==
  ASSUME NEW t \in Tables, t.bet = NoBets, t.contrib = NoBets, t.pot = 0, Anchored(t),
         NEW straddle \in BOOLEAN, NEW bomb \in BOOLEAN
  PROVE  LET u == StartHand(t, straddle, bomb)
         IN  Sound(u) /\ SameChips(t, u) /\ Matchable(u)
<1> DEFINE fresh == [t EXCEPT !.pot = 0, !.currentBet = BigBlind, !.minRaise = BigBlind,
                              !.board = 0, !.cards = {}, !.acted = {}, !.aggressor = None,
                              !.street = "preflop"]
           game == FormGame(fresh)
           pos == AssignButtonAndBlinds(game)
           dealt == DealCards(game, pos)
           few == Cardinality(Active(t)) < 2 /\ Cardinality(Ready(t)) < 2
           waiting == [fresh EXCEPT !.street = "waiting"]
<1>1. StartHand(t, straddle, bomb)
        = IF few THEN waiting
          ELSE IF bomb THEN OpenBombPot(dealt, pos)
          ELSE OpenWithBlinds(dealt, pos, straddle)
  BY DEF StartHand
<1>2. /\ NoBets \in [Seats -> Nat] /\ \A s \in Seats : NoBets[s] = 0
      /\ Total(NoBets) = 0
  BY TotalOfNothing DEF NoBets
<1>3. /\ 0 \in 0 .. 5 /\ 0 \in Nat /\ "preflop" \in Streets /\ "waiting" \in Streets
      /\ {} \in SUBSET Seats /\ None \in Seats \cup {None} /\ BigBlind \in Nat
  BY BlindsAssumption DEF Streets
<1>4. /\ fresh \in Tables /\ fresh.bet = NoBets /\ fresh.contrib = NoBets
      /\ fresh.pot = 0 /\ fresh.stack = t.stack /\ fresh.currentBet = BigBlind
      /\ fresh.status = t.status /\ fresh.sittingOut = t.sittingOut
      /\ fresh.owesPost = t.owesPost
      /\ fresh.sbSeat = t.sbSeat /\ fresh.bbSeat = t.bbSeat
  BY <1>3 DEF Tables
<1> HIDE DEF fresh
<1>5. Sound(fresh) /\ SameChips(t, fresh) /\ Anchored(fresh)
  BY <1>2, <1>4 DEF Sound, Backed, SameChips, Anchored
<1>6. Active(fresh) = Active(t) /\ Ready(fresh) = Ready(t)
  BY <1>4 DEF Active, Ready, CanAct
<1>7. CASE few
  <2>1. /\ waiting \in Tables /\ waiting.bet = fresh.bet /\ waiting.contrib = fresh.contrib
        /\ waiting.pot = fresh.pot /\ waiting.stack = fresh.stack
        /\ waiting.currentBet = fresh.currentBet
    BY <1>3, <1>4 DEF Tables
  <2> HIDE DEF waiting
  <2>2. Sound(waiting) /\ SameChips(t, waiting)
    BY <1>4, <1>5, <2>1 DEF Sound, Backed, SameChips
  <2>3. Matchable(waiting)
    BY <1>2, <1>3, <1>4, <2>1 DEF Matchable, BetAtMost
  <2> QED BY <1>1, <1>7, <2>2, <2>3
<1>8. CASE ~few
  <2>1. \A S \in SUBSET Seats : Cardinality(S) \in Nat
    <3>1. IsFiniteSet(Seats)
      BY FS_Interval, MaxSeatsAssumption DEF Seats
    <3> QED BY <3>1, FS_Subset, FS_CardinalityType
  <2>2. Cardinality(Active(t)) >= 2 \/ Cardinality(Ready(t)) >= 2
    BY <1>8, <2>1, ActiveInSeats DEF Active, Ready
  <2>3. /\ Sound(game) /\ SameChips(fresh, game) /\ game.currentBet = BigBlind
        /\ Anchored(game) /\ Cardinality(Active(game)) >= 2
    BY <1>4, <1>5, <1>6, <2>2, FormGameSound
  <2> HIDE DEF game, few
  <2>4. Positions(pos)
    BY <2>3, AssignedPositions DEF Sound
  <2> HIDE DEF pos
  <2>5. /\ Sound(dealt) /\ SameChips(game, dealt) /\ dealt.currentBet = BigBlind
        /\ BetAtMost(dealt, 0)
    BY <2>3, <2>4, DealCardsSound
  <2> HIDE DEF dealt
  <2>6. fresh \in Tables /\ game \in Tables /\ dealt \in Tables
    BY <1>5, <2>3, <2>5 DEF Sound
  <2>7. SameChips(t, dealt)
    BY <1>5, <2>3, <2>5, <2>6, SameChipsTrans
  <2>8. CASE bomb
    <3>1. /\ Sound(OpenBombPot(dealt, pos)) /\ SameChips(dealt, OpenBombPot(dealt, pos))
          /\ Matchable(OpenBombPot(dealt, pos))
      BY <2>4, <2>5, OpenBombPotSound
    <3>2. SameChips(t, OpenBombPot(dealt, pos))
      BY <2>6, <2>7, <3>1, SameChipsTrans DEF Sound
    <3> QED BY <1>1, <1>8, <2>8, <3>1, <3>2
  <2>9. CASE ~bomb
    <3> DEFINE u == OpenWithBlinds(dealt, pos, straddle)
    <3>1. Sound(u) /\ SameChips(dealt, u) /\ Matchable(u)
      BY <2>4, <2>5, OpenWithBlindsSound
    <3>2. SameChips(t, u)
      BY <2>6, <2>7, <3>1, SameChipsTrans DEF Sound
    <3> QED BY <1>1, <1>8, <2>9, <3>1, <3>2
  <2> QED BY <2>8, <2>9
<1> QED BY <1>7, <1>8

----------------------------------------------------------------------------
(* Betting.  Between actions a table is sound and every bet can be matched. *)

Playable(t) == Sound(t) /\ Matchable(t)

(* A step that moves no chips and leaves the bet to match alone. *)
LEMMA StatusChange ==
  ASSUME NEW t, Playable(t), NEW u \in Tables,
         u.stack = t.stack, u.contrib = t.contrib, u.pot = t.pot,
         u.bet = t.bet, u.currentBet = t.currentBet
  PROVE  Playable(u) /\ SameChips(t, u)
BY DEF Playable, Sound, Backed, Matchable, BetAtMost, SameChips, Tables

(* A table between hands has the accounts of an empty pot.                 *)
LEMMA IdlePlayable ==
  ASSUME NEW t \in Tables, Idle(t)
  PROVE  Playable(t) /\ Accounted(t)
<1>1. /\ t.bet = NoBets /\ t.contrib = NoBets /\ t.pot = 0 /\ t.currentBet = 0
      /\ \A s \in Seats : NoBets[s] = 0
  BY DEF Idle, NoBets
<1>2. Total(NoBets) = 0
  BY TotalOfNothing DEF NoBets
<1> QED BY <1>1, <1>2 DEF Playable, Sound, Accounted, Backed, Matchable, BetAtMost

LEMMA ActsSound ==
  ASSUME NEW t, Playable(t), NEW s \in Seats
  PROVE  Playable(Acts(t, s)) /\ SameChips(t, Acts(t, s))
<1>1. t \in Tables /\ t.acted \cup {s} \in SUBSET Seats
  BY DEF Playable, Sound, Tables
<1> DEFINE u == [t EXCEPT !.acted = @ \cup {s}]
<1>2. /\ u \in Tables /\ u.stack = t.stack /\ u.contrib = t.contrib /\ u.pot = t.pot
      /\ u.bet = t.bet /\ u.currentBet = t.currentBet
  BY <1>1 DEF Tables
<1>3. Acts(t, s) = u
  BY DEF Acts
<1> HIDE DEF u
<1> QED BY <1>2, <1>3, StatusChange

LEMMA StatusSound ==
  ASSUME NEW t, Playable(t), NEW status \in [Seats -> SeatStatus]
  PROVE  LET u == [t EXCEPT !.status = status]
         IN  Playable(u) /\ SameChips(t, u)
<1>1. t \in Tables
  BY DEF Playable, Sound
<1> DEFINE u == [t EXCEPT !.status = status]
<1>2. /\ u \in Tables /\ u.stack = t.stack /\ u.contrib = t.contrib /\ u.pot = t.pot
      /\ u.bet = t.bet /\ u.currentBet = t.currentBet
  BY <1>1 DEF Tables
<1> HIDE DEF u
<1>3. Playable(u) /\ SameChips(t, u)
  BY <1>2, StatusChange
<1> QED BY <1>3 DEF u

LEMMA FoldSound ==
  ASSUME NEW t, Playable(t), NEW s \in Seats
  PROVE  Playable(Fold(t, s)) /\ SameChips(t, Fold(t, s))
<1> DEFINE status == [t.status EXCEPT ![s] = "folded"]
           u == [t EXCEPT !.status = status]
<1>1. t.status \in [Seats -> SeatStatus] /\ "folded" \in SeatStatus
  BY DEF Playable, Sound, Tables, SeatStatus
<1>2. status \in [Seats -> SeatStatus]
  BY <1>1
<1>3. Fold(t, s) = Acts(u, s)
  BY DEF Fold
<1> HIDE DEF status
<1>4. Playable(u) /\ SameChips(t, u)
  BY <1>2, StatusSound
<1> HIDE DEF u
<1>5. Playable(Acts(u, s)) /\ SameChips(u, Acts(u, s))
  BY <1>4, ActsSound
<1> QED BY <1>3, <1>4, <1>5, SameChipsTrans DEF Playable, Sound

LEMMA AllInSound ==
  ASSUME NEW t, Playable(t), NEW s \in Seats
  PROVE  Playable(AllInIfFelted(t, s)) /\ SameChips(t, AllInIfFelted(t, s))
<1> DEFINE status == [t.status EXCEPT ![s] = IF t.stack[s] = 0 THEN "all_in" ELSE @]
           u == [t EXCEPT !.status = status]
<1>1. t.status \in [Seats -> SeatStatus] /\ "all_in" \in SeatStatus
  BY DEF Playable, Sound, Tables, SeatStatus
<1>2. status \in [Seats -> SeatStatus]
  BY <1>1
<1>3. AllInIfFelted(t, s) = u
  BY DEF AllInIfFelted
<1> HIDE DEF status
<1>4. Playable(u) /\ SameChips(t, u)
  BY <1>2, StatusSound
<1> QED BY <1>3, <1>4

LEMMA CallSound ==
  ASSUME NEW t, Playable(t), NEW s \in Seats
  PROVE  Playable(Call(t, s)) /\ SameChips(t, Call(t, s))
<1> DEFINE pay == Lesser(ToCall(t, s), t.stack[s])
           bet == t.bet[s] + pay
           p == Pay(t, s, pay, bet)
           a == AllInIfFelted(p, s)
<1>1. /\ t \in Tables /\ Sound(t) /\ t.stack \in [Seats -> Nat] /\ t.bet \in [Seats -> Nat]
      /\ t.currentBet \in Nat /\ \A r \in Seats : t.bet[r] <= t.currentBet
      /\ t.contrib \in [Seats -> Nat] /\ t.pot \in Nat
  BY DEF Playable, Sound, Matchable, BetAtMost, Tables
<1>2. /\ pay \in Nat /\ pay <= t.stack[s] /\ bet \in Nat /\ bet <= t.bet[s] + pay
      /\ bet <= t.currentBet
  BY <1>1 DEF Lesser, ToCall
<1>3. Call(t, s) = Acts(a, s)
  <2>1. Collect(t, Only(s, pay)).bet = t.bet
    BY <1>1 DEF Collect, Tables
  <2> QED BY <2>1 DEF Call, Pay
<1> HIDE DEF pay, bet
<1>4. /\ Sound(p) /\ SameChips(t, p) /\ p.currentBet = t.currentBet
      /\ \A r \in Seats : p.bet[r] = IF r = s THEN bet ELSE t.bet[r]
  BY <1>1, <1>2, PaySound
<1> HIDE DEF p
<1>5. Playable(p)
  BY <1>1, <1>2, <1>4 DEF Playable, Matchable, BetAtMost
<1>6. Playable(a) /\ SameChips(p, a)
  BY <1>5, AllInSound
<1> HIDE DEF a
<1>7. Playable(Acts(a, s)) /\ SameChips(a, Acts(a, s))
  BY <1>6, ActsSound
<1> QED BY <1>1, <1>3, <1>4, <1>5, <1>6, <1>7, SameChipsTrans DEF Playable, Sound

LEMMA RaiseSound ==
  ASSUME NEW t, Playable(t), NEW s \in Seats, NEW asked \in Nat, CanRaise(t, s, asked)
  PROVE  Playable(Raise(t, s, asked)) /\ SameChips(t, Raise(t, s, asked))
<1> DEFINE total == Lesser(asked, t.bet[s] + t.stack[s])
           pay == total - t.bet[s]
           full == total - t.currentBet >= t.minRaise
           p == Pay(t, s, pay, total)
           minRaise == IF full THEN total - t.currentBet ELSE p.minRaise
           b == [p EXCEPT !.minRaise = minRaise, !.currentBet = total, !.aggressor = s]
           v == IF total > t.currentBet THEN b ELSE p
           a == AllInIfFelted(v, s)
           acted == IF full THEN {s} ELSE a.acted \cup {s}
           u == [a EXCEPT !.acted = acted]
<1>1. /\ t \in Tables /\ Sound(t) /\ t.stack \in [Seats -> Nat] /\ t.bet \in [Seats -> Nat]
      /\ t.currentBet \in Nat /\ \A r \in Seats : t.bet[r] <= t.currentBet
      /\ t.minRaise \in Nat
  BY DEF Playable, Sound, Matchable, BetAtMost, Tables
<1>2. asked > t.bet[s]
  BY <1>1 DEF CanRaise, ToCall
<1>3. total \in Nat /\ pay \in Nat /\ pay <= t.stack[s] /\ total <= t.bet[s] + pay
  BY <1>1, <1>2 DEF Lesser
<1>4. Raise(t, s, asked) = u
  BY DEF Raise, Pay
<1> HIDE DEF total, pay
<1>5. /\ Sound(p) /\ SameChips(t, p) /\ p.currentBet = t.currentBet
      /\ \A r \in Seats : p.bet[r] = IF r = s THEN total ELSE t.bet[r]
  BY <1>1, <1>3, PaySound
<1> HIDE DEF p
<1>6. p \in Tables /\ p.minRaise \in Nat
  BY <1>5 DEF Sound, Tables
<1>7. Playable(v) /\ SameChips(p, v)
  <2>1. CASE total > t.currentBet
    <3>1. minRaise \in Nat /\ s \in Seats \cup {None}
      BY <1>1, <1>3, <1>6, <2>1
    <3> HIDE DEF minRaise
    <3>2. /\ b \in Tables /\ b.bet = p.bet /\ b.stack = p.stack /\ b.contrib = p.contrib
          /\ b.pot = p.pot /\ b.currentBet = total
      BY <1>3, <1>6, <3>1 DEF Tables
    <3>3. v = b
      BY <2>1
    <3> HIDE DEF b, v
    <3>4. \A r \in Seats : p.bet[r] \in Nat
      BY <1>6 DEF Tables
    <3>5. Sound(b) /\ SameChips(p, b)
      BY <1>5, <3>2, <3>4, NoChipsMoved
    <3>6. Matchable(b)
      BY <1>1, <1>3, <1>5, <2>1, <3>2 DEF Matchable, BetAtMost
    <3> QED BY <3>3, <3>5, <3>6 DEF Playable
  <2>2. CASE ~(total > t.currentBet)
    <3>1. v = p
      BY <2>2
    <3>2. SameChips(p, p)
      BY <1>6 DEF SameChips
    <3>3. Matchable(p)
      BY <1>1, <1>3, <1>5, <2>2 DEF Matchable, BetAtMost
    <3> QED BY <1>5, <3>1, <3>2, <3>3 DEF Playable
  <2> QED BY <2>1, <2>2
<1> HIDE DEF v
<1>8. Playable(a) /\ SameChips(v, a)
  BY <1>7, AllInSound
<1> HIDE DEF a
<1>9. a \in Tables /\ acted \in SUBSET Seats
  <2>1. a \in Tables
    BY <1>8 DEF Playable, Sound
  <2>2. a.acted \in SUBSET Seats
    BY <2>1 DEF Tables
  <2> QED BY <2>1, <2>2
<1> HIDE DEF acted, full
<1>10. /\ u \in Tables /\ u.stack = a.stack /\ u.contrib = a.contrib /\ u.pot = a.pot
       /\ u.bet = a.bet /\ u.currentBet = a.currentBet
  BY <1>9 DEF Tables
<1> HIDE DEF u
<1>11. Playable(u) /\ SameChips(a, u)
  BY <1>8, <1>10, StatusChange
<1>12. v \in Tables
  BY <1>7 DEF Playable, Sound
<1> QED BY <1>1, <1>4, <1>5, <1>6, <1>7, <1>8, <1>9, <1>10, <1>11, <1>12, SameChipsTrans

(* A shove names an amount that is not negative. *)
LEMMA ShoveTotalType ==
  ASSUME NEW t, Playable(t), NEW s \in Seats
  PROVE  ShoveTotal(t, s) \in Nat
<1>1. /\ t.stack[s] \in Nat /\ t.bet[s] \in Nat /\ t.currentBet \in Nat /\ t.pot \in Nat
      /\ t.bet[s] <= t.currentBet
  BY DEF Playable, Sound, Matchable, BetAtMost, Tables
<1> QED BY <1>1 DEF ShoveTotal, PotLimitMaxTotal, ToCall, Lesser

----------------------------------------------------------------------------
(* The end of a street. *)

LEMMA NextActiveType ==
  ASSUME NEW t, NEW from \in Seats \cup {None}
  PROVE  NextActiveSeat(t, from) \in Seats \cup {None}
<1>1. from \in Int
  BY MaxSeatsAssumption DEF Seats, None
<1> QED BY <1>1, ActiveInSeats, FirstFromIn DEF NextActiveSeat

LEMMA AdvanceStreetSound ==
  ASSUME NEW t, Playable(t)
  PROVE  Playable(AdvanceStreet(t)) /\ SameChips(t, AdvanceStreet(t))
<1> DEFINE swept == [t EXCEPT !.bet = NoBets, !.currentBet = 0, !.minRaise = 0, !.acted = {}]
           next == IF Cardinality(CanAct(t)) <= 1 THEN "showdown" ELSE NextStreet[t.street]
           board == BoardOn[next]
           action == IF next = "showdown" THEN swept.action ELSE NextActiveSeat(t, t.button)
           u == [swept EXCEPT !.street = next, !.board = board, !.action = action]
           over == t.street \in {"waiting", "showdown"}
<1>1. /\ t \in Tables /\ Sound(t) /\ t.street \in Streets
      /\ t.button \in Seats \cup {None}
  BY DEF Playable, Sound, Tables
<1>2. /\ NoBets \in [Seats -> Nat] /\ \A s \in Seats : NoBets[s] = 0
      /\ 0 \in Nat /\ {} \in SUBSET Seats
  BY DEF NoBets
<1>3. AdvanceStreet(t) = IF over THEN swept ELSE u
  BY DEF AdvanceStreet
<1>4. /\ swept \in Tables /\ swept.stack = t.stack /\ swept.contrib = t.contrib
      /\ swept.pot = t.pot /\ swept.bet = NoBets /\ swept.currentBet = 0
  BY <1>1, <1>2 DEF Tables
<1> HIDE DEF swept
<1>5. Sound(swept) /\ SameChips(t, swept)
  BY <1>1, <1>2, <1>4, NoChipsMoved
<1>6. Playable(swept)
  BY <1>2, <1>4, <1>5 DEF Playable, Matchable, BetAtMost
<1>7. CASE over
  BY <1>3, <1>5, <1>6, <1>7
<1>8. CASE ~over
  <2>1. next \in {"flop", "turn", "river", "showdown"}
    BY <1>1, <1>8 DEF NextStreet, Streets
  <2> HIDE DEF next
  <2>2. board \in 0 .. 5 /\ next \in Streets
    BY <2>1 DEF BoardOn, Streets
  <2> HIDE DEF board
  <2>3. swept.action \in Seats \cup {None}
    BY <1>4 DEF Tables
  <2>4. NextActiveSeat(t, t.button) \in Seats \cup {None}
    BY <1>1, NextActiveType
  <2>5. action \in Seats \cup {None}
    BY <2>3, <2>4
  <2> HIDE DEF action
  <2>6. /\ u \in Tables /\ u.stack = swept.stack /\ u.contrib = swept.contrib
        /\ u.pot = swept.pot /\ u.bet = swept.bet /\ u.currentBet = swept.currentBet
    <3>1. swept \in Tables
      BY <1>4
    <3> QED BY <2>2, <2>5, <3>1 DEF Tables
  <2> HIDE DEF u
  <2>7. Playable(u) /\ SameChips(swept, u)
    BY <1>6, <2>6, StatusChange
  <2> QED BY <1>1, <1>3, <1>4, <1>5, <1>8, <2>6, <2>7, SameChipsTrans
<1> QED BY <1>7, <1>8

LEMMA AdvanceActionSound ==
  ASSUME NEW t, Playable(t)
  PROVE  Playable(AdvanceAction(t)) /\ SameChips(t, AdvanceAction(t))
<1> DEFINE next == NextActiveSeat(t, t.action)
           u == [t EXCEPT !.action = next]
<1>1. t \in Tables /\ t.action \in Seats \cup {None}
  BY DEF Playable, Sound, Tables
<1>2. AdvanceAction(t) = IF next = None \/ AllMatched(t) THEN AdvanceStreet(t) ELSE u
  BY DEF AdvanceAction
<1>3. next \in Seats \cup {None}
  BY <1>1, NextActiveType
<1> HIDE DEF next
<1>4. /\ u \in Tables /\ u.stack = t.stack /\ u.contrib = t.contrib /\ u.pot = t.pot
      /\ u.bet = t.bet /\ u.currentBet = t.currentBet
  BY <1>1, <1>3 DEF Tables
<1> HIDE DEF u
<1>5. Playable(u) /\ SameChips(t, u)
  BY <1>4, StatusChange
<1> QED BY <1>2, <1>5, AdvanceStreetSound

----------------------------------------------------------------------------
(* What the operators leave as it was. *)

(* Collect and Pay touch the chips and nothing else.                       *)
SameButChips(t, u) ==
  /\ u.status = t.status /\ u.cards = t.cards /\ u.street = t.street
  /\ u.button = t.button /\ u.action = t.action /\ u.acted = t.acted
  /\ u.sittingOut = t.sittingOut /\ u.owesPost = t.owesPost /\ u.postNow = t.postNow
  /\ u.minRaise = t.minRaise /\ u.currentBet = t.currentBet /\ u.potLimit = t.potLimit

LEMMA CollectKeeps ==
  ASSUME NEW t \in Tables, NEW paid \in [Seats -> Nat]
  PROVE  /\ SameButChips(t, Collect(t, paid))
         /\ Collect(t, paid).bet = t.bet
         /\ Collect(t, paid).stack = [s \in Seats |-> t.stack[s] - paid[s]]
         /\ Collect(t, paid).contrib = [s \in Seats |-> t.contrib[s] + paid[s]]
         /\ Collect(t, paid).pot = t.pot + Total(paid)
         /\ DOMAIN Collect(t, paid) = DOMAIN t
<1> DEFINE stack == [s \in Seats |-> t.stack[s] - paid[s]]
           contrib == [s \in Seats |-> t.contrib[s] + paid[s]]
           pot == t.pot + Total(paid)
           u == Collect(t, paid)
<1>1. u = [t EXCEPT !.stack = stack, !.contrib = contrib, !.pot = pot]
  BY DEF Collect
<1> HIDE DEF stack, contrib, pot, u
<1>2. /\ SameButChips(t, u) /\ u.bet = t.bet /\ DOMAIN u = DOMAIN t
      /\ u.stack = stack /\ u.contrib = contrib /\ u.pot = pot
  BY <1>1 DEF Tables, SameButChips
<1> QED BY <1>2 DEF stack, contrib, pot, u

(* Seat `seat` of t pays `pay`, and its bet on the street becomes `bet`.    *)
Paid(t, u, seat, pay, bet) ==
  /\ SameButChips(t, u) /\ u.pot = t.pot + pay
  /\ \A s \in Seats : u.bet[s] = IF s = seat THEN bet ELSE t.bet[s]
  /\ \A s \in Seats : u.contrib[s] = IF s = seat THEN t.contrib[s] + pay ELSE t.contrib[s]
  /\ \A s \in Seats : u.stack[s] = IF s = seat THEN t.stack[s] - pay ELSE t.stack[s]

LEMMA PayKeeps ==
  ASSUME NEW t \in Tables, NEW seat \in Seats, NEW pay \in Nat, NEW bet \in Nat
  PROVE  Paid(t, Pay(t, seat, pay, bet), seat, pay, bet)
<1> DEFINE paid == Only(seat, pay)
           c == Collect(t, paid)
           b == [c.bet EXCEPT ![seat] = bet]
           u == Pay(t, seat, pay, bet)
<1>1. /\ t.stack \in [Seats -> Nat] /\ t.contrib \in [Seats -> Nat]
      /\ t.bet \in [Seats -> Nat] /\ "bet" \in DOMAIN t
  BY DEF Tables
<1>2. /\ paid \in [Seats -> Nat] /\ \A s \in Seats : paid[s] = IF s = seat THEN pay ELSE 0
      /\ Total(paid) = pay
  BY TotalOfOne DEF Only
<1> HIDE DEF paid
<1>3. /\ SameButChips(t, c) /\ c.bet = t.bet /\ c.pot = t.pot + pay
      /\ c.stack = [s \in Seats |-> t.stack[s] - paid[s]]
      /\ c.contrib = [s \in Seats |-> t.contrib[s] + paid[s]]
      /\ DOMAIN c = DOMAIN t
  BY <1>2, CollectKeeps
<1>4. u = [c EXCEPT !.bet = b]
  BY DEF Pay, paid
<1> HIDE DEF c
<1>5. \A s \in Seats : b[s] = IF s = seat THEN bet ELSE t.bet[s]
  BY <1>1, <1>3
<1> HIDE DEF b, u
<1>6. /\ SameButChips(c, u) /\ u.bet = b /\ u.stack = c.stack
      /\ u.contrib = c.contrib /\ u.pot = c.pot
  BY <1>1, <1>3, <1>4 DEF SameButChips
<1>7. SameButChips(t, u)
  BY <1>3, <1>6 DEF SameButChips
<1>8. \A s \in Seats : u.bet[s] = IF s = seat THEN bet ELSE t.bet[s]
  BY <1>5, <1>6
<1>9. \A s \in Seats : u.contrib[s] = IF s = seat THEN t.contrib[s] + pay ELSE t.contrib[s]
  BY <1>1, <1>2, <1>3, <1>6
<1>10. \A s \in Seats : u.stack[s] = IF s = seat THEN t.stack[s] - pay ELSE t.stack[s]
  BY <1>1, <1>2, <1>3, <1>6
<1>11. SameButChips(t, u) /\ u.pot = t.pot + pay
  BY <1>3, <1>6, <1>7
<1>12. Paid(t, u, seat, pay, bet)
  BY <1>8, <1>9, <1>10, <1>11 DEF Paid
<1> QED BY <1>12 DEF u

(* What an action of seat s in table t leaves as it was: the cards, the    *)
(* street and the others' standing; whatever s pays is bet on the street.  *)
ActionOf(t, u, s) ==
  /\ u.street = t.street /\ u.cards = t.cards /\ u.button = t.button /\ u.action = t.action
  /\ u.acted \subseteq t.acted \cup {s}
  /\ \A r \in Seats : u.bet[r] - u.contrib[r] = t.bet[r] - t.contrib[r]
  /\ \A r \in Seats : r # s => u.contrib[r] = t.contrib[r] /\ u.status[r] = t.status[r]
  /\ u.status[s] \in {t.status[s], "folded", "all_in"}

LEMMA ActsKeeps ==
  ASSUME NEW t \in Tables, NEW s \in Seats
  PROVE  ActionOf(t, Acts(t, s), s)
<1> DEFINE acted == t.acted \cup {s}
           u == [t EXCEPT !.acted = acted]
<1>1. Acts(t, s) = u
  BY DEF Acts
<1> HIDE DEF acted
<1>2. /\ u.street = t.street /\ u.cards = t.cards /\ u.button = t.button
      /\ u.action = t.action /\ u.acted = acted /\ u.bet = t.bet
      /\ u.contrib = t.contrib /\ u.status = t.status
  BY DEF Tables
<1> HIDE DEF u
<1> QED BY <1>1, <1>2 DEF ActionOf, acted

LEMMA FoldKeeps ==
  ASSUME NEW t \in Tables, NEW s \in Seats
  PROVE  ActionOf(t, Fold(t, s), s)
<1> DEFINE status == [t.status EXCEPT ![s] = "folded"]
           acted == t.acted \cup {s}
           u == [[t EXCEPT !.status = status] EXCEPT !.acted = acted]
<1>1. Fold(t, s) = u
  BY DEF Fold, Acts, Tables
<1>2. /\ status[s] = "folded"
      /\ \A r \in Seats : r # s => status[r] = t.status[r]
  BY DEF Tables
<1> HIDE DEF acted, status
<1>3. /\ u.street = t.street /\ u.cards = t.cards /\ u.button = t.button
      /\ u.action = t.action /\ u.acted = acted /\ u.bet = t.bet
      /\ u.contrib = t.contrib /\ u.status = status
  BY DEF Tables
<1> HIDE DEF u
<1> QED BY <1>1, <1>2, <1>3 DEF ActionOf, acted

(* Fields of a table whose seat s is all in if it has nothing left.        *)
LEMMA AllInKeeps ==
  ASSUME NEW t \in Tables, NEW s \in Seats
  PROVE  LET u == AllInIfFelted(t, s)
         IN  /\ u.street = t.street /\ u.cards = t.cards /\ u.button = t.button
             /\ u.action = t.action /\ u.acted = t.acted /\ u.bet = t.bet
             /\ u.contrib = t.contrib /\ u.stack = t.stack /\ u.pot = t.pot
             /\ u.minRaise = t.minRaise /\ u.currentBet = t.currentBet
             /\ u.potLimit = t.potLimit /\ DOMAIN u = DOMAIN t
             /\ \A r \in Seats : u.status[r] = IF r = s /\ t.stack[s] = 0 THEN "all_in"
                                                ELSE t.status[r]
<1> DEFINE status == [t.status EXCEPT ![s] = IF t.stack[s] = 0 THEN "all_in" ELSE @]
           u == [t EXCEPT !.status = status]
<1>1. AllInIfFelted(t, s) = u
  BY DEF AllInIfFelted
<1>2. \A r \in Seats : status[r] = IF r = s /\ t.stack[s] = 0 THEN "all_in"
                                    ELSE t.status[r]
  BY DEF Tables
<1> HIDE DEF status
<1>3. /\ u.street = t.street /\ u.cards = t.cards /\ u.button = t.button
      /\ u.action = t.action /\ u.acted = t.acted /\ u.bet = t.bet
      /\ u.contrib = t.contrib /\ u.stack = t.stack /\ u.pot = t.pot
      /\ u.minRaise = t.minRaise /\ u.currentBet = t.currentBet
      /\ u.potLimit = t.potLimit /\ DOMAIN u = DOMAIN t /\ u.status = status
  BY DEF Tables
<1> HIDE DEF u
<1> QED BY <1>1, <1>2, <1>3

LEMMA CallKeeps ==
  ASSUME NEW t, Playable(t), NEW s \in Seats
  PROVE  LET u == Call(t, s)
             pay == Lesser(ToCall(t, s), t.stack[s])
         IN  /\ ActionOf(t, u, s) /\ pay \in Nat
             /\ u.minRaise = t.minRaise /\ u.currentBet = t.currentBet
             /\ u.potLimit = t.potLimit /\ u.pot = t.pot + pay
             /\ \A r \in Seats : /\ u.stack[r] = t.stack[r] - (IF r = s THEN pay ELSE 0)
                                  /\ u.bet[r] = t.bet[r] + (IF r = s THEN pay ELSE 0)
<1> DEFINE pay == Lesser(ToCall(t, s), t.stack[s])
           bet == t.bet[s] + pay
           p == Pay(t, s, pay, bet)
           a == AllInIfFelted(p, s)
           u == Acts(a, s)
<1>1. /\ t \in Tables /\ Sound(t) /\ t.stack \in [Seats -> Nat] /\ t.bet \in [Seats -> Nat]
      /\ t.currentBet \in Nat /\ \A r \in Seats : t.bet[r] <= t.currentBet
      /\ t.contrib \in [Seats -> Nat] /\ t.pot \in Nat
  BY DEF Playable, Sound, Matchable, BetAtMost, Tables
<1>2. /\ pay \in Nat /\ pay <= t.stack[s] /\ bet \in Nat /\ bet <= t.bet[s] + pay
      /\ bet = t.bet[s] + pay
  BY <1>1 DEF Lesser, ToCall
<1>3. Call(t, s) = u
  <2>1. Collect(t, Only(s, pay)).bet = t.bet
    BY <1>1 DEF Collect, Tables
  <2> QED BY <2>1 DEF Call, Pay
<1> HIDE DEF pay, bet
<1>4. /\ SameButChips(t, p) /\ p.pot = t.pot + pay
      /\ \A r \in Seats : p.bet[r] = IF r = s THEN bet ELSE t.bet[r]
      /\ \A r \in Seats : p.contrib[r] = IF r = s THEN t.contrib[s] + pay ELSE t.contrib[r]
      /\ \A r \in Seats : p.stack[r] = IF r = s THEN t.stack[s] - pay ELSE t.stack[r]
      /\ p \in Tables
  <2>1. Sound(p)
    BY <1>1, <1>2, PaySound
  <2>2. p \in Tables
    BY <2>1 DEF Sound
  <2> HIDE DEF p
  <2>3. Paid(t, Pay(t, s, pay, bet), s, pay, bet)
    BY <1>1, <1>2, PayKeeps
  <2> QED BY <2>2, <2>3 DEF p, Paid
<1> HIDE DEF p
<1>5. /\ a.street = p.street /\ a.cards = p.cards /\ a.button = p.button
      /\ a.action = p.action /\ a.acted = p.acted /\ a.bet = p.bet
      /\ a.contrib = p.contrib /\ a.stack = p.stack /\ a.pot = p.pot
      /\ a.minRaise = p.minRaise /\ a.currentBet = p.currentBet
      /\ a.potLimit = p.potLimit /\ DOMAIN a = DOMAIN p
      /\ \A r \in Seats : a.status[r] = IF r = s /\ p.stack[s] = 0 THEN "all_in"
                                         ELSE p.status[r]
  BY <1>4, AllInKeeps
<1> HIDE DEF a
<1>6. DOMAIN p = DOMAIN t
  BY <1>1, <1>4 DEF Tables
<1>7. /\ u.street = a.street /\ u.cards = a.cards /\ u.button = a.button
      /\ u.action = a.action /\ u.acted = a.acted \cup {s} /\ u.bet = a.bet
      /\ u.contrib = a.contrib /\ u.stack = a.stack /\ u.pot = a.pot
      /\ u.minRaise = a.minRaise /\ u.currentBet = a.currentBet
      /\ u.potLimit = a.potLimit /\ u.status = a.status
  BY <1>1, <1>5, <1>6 DEF Acts, Tables
<1> HIDE DEF u
<1>8. \A r \in Seats : /\ u.stack[r] = t.stack[r] - (IF r = s THEN pay ELSE 0)
                       /\ u.bet[r] = t.bet[r] + (IF r = s THEN pay ELSE 0)
                       /\ u.contrib[r] = t.contrib[r] + (IF r = s THEN pay ELSE 0)
                       /\ u.bet[r] - u.contrib[r] = t.bet[r] - t.contrib[r]
  BY <1>1, <1>2, <1>4, <1>5, <1>7
<1>9. ActionOf(t, u, s)
  <2>1. \A r \in Seats : r # s => u.contrib[r] = t.contrib[r] /\ u.status[r] = t.status[r]
    BY <1>4, <1>5, <1>7 DEF SameButChips
  <2>2. u.status[s] \in {t.status[s], "folded", "all_in"}
    BY <1>4, <1>5, <1>7 DEF SameButChips
  <2>3. /\ u.street = t.street /\ u.cards = t.cards /\ u.button = t.button
        /\ u.action = t.action /\ u.acted = t.acted \cup {s}
    BY <1>4, <1>5, <1>7 DEF SameButChips
  <2> QED BY <1>8, <2>1, <2>2, <2>3 DEF ActionOf
<1> QED BY <1>2, <1>3, <1>4, <1>5, <1>7, <1>8, <1>9 DEF SameButChips, pay

LEMMA RaiseKeeps ==
  ASSUME NEW t, Playable(t), NEW s \in Seats, NEW asked \in Nat, CanRaise(t, s, asked)
  PROVE  LET u == Raise(t, s, asked)
             total == Lesser(asked, t.bet[s] + t.stack[s])
         IN  /\ ActionOf(t, u, s) /\ total \in Nat /\ total >= t.bet[s]
             /\ u.currentBet = Greater(total, t.currentBet)
             /\ u.minRaise = IF total > t.currentBet /\ total - t.currentBet >= t.minRaise
                             THEN total - t.currentBet ELSE t.minRaise
             /\ u.potLimit = t.potLimit /\ u.pot = t.pot + (total - t.bet[s])
             /\ \A r \in Seats :
                  /\ u.stack[r] = t.stack[r] - (IF r = s THEN total - t.bet[s] ELSE 0)
                  /\ u.bet[r] = IF r = s THEN total ELSE t.bet[r]
<1> DEFINE total == Lesser(asked, t.bet[s] + t.stack[s])
           pay == total - t.bet[s]
           full == total - t.currentBet >= t.minRaise
           p == Pay(t, s, pay, total)
           minRaise == IF full THEN total - t.currentBet ELSE p.minRaise
           b == [p EXCEPT !.minRaise = minRaise, !.currentBet = total, !.aggressor = s]
           v == IF total > t.currentBet THEN b ELSE p
           a == AllInIfFelted(v, s)
           acted == IF full THEN {s} ELSE a.acted \cup {s}
           u == [a EXCEPT !.acted = acted]
<1>1. /\ t \in Tables /\ Sound(t) /\ t.stack \in [Seats -> Nat] /\ t.bet \in [Seats -> Nat]
      /\ t.currentBet \in Nat /\ \A r \in Seats : t.bet[r] <= t.currentBet
      /\ t.minRaise \in Nat /\ t.pot \in Nat /\ t.contrib \in [Seats -> Nat]
  BY DEF Playable, Sound, Matchable, BetAtMost, Tables
<1>2. asked > t.bet[s]
  BY <1>1 DEF CanRaise, ToCall
<1>3. /\ total \in Nat /\ pay \in Nat /\ pay <= t.stack[s] /\ total <= t.bet[s] + pay
      /\ total = t.bet[s] + pay
  BY <1>1, <1>2 DEF Lesser
<1>4. Raise(t, s, asked) = u
  BY DEF Raise, Pay
<1> HIDE DEF total, pay
<1>5. /\ SameButChips(t, p) /\ p.pot = t.pot + pay
      /\ \A r \in Seats : p.bet[r] = IF r = s THEN total ELSE t.bet[r]
      /\ \A r \in Seats : p.contrib[r] = IF r = s THEN t.contrib[s] + pay ELSE t.contrib[r]
      /\ \A r \in Seats : p.stack[r] = IF r = s THEN t.stack[s] - pay ELSE t.stack[r]
      /\ p \in Tables
  <2>1. Sound(p)
    BY <1>1, <1>3, PaySound
  <2>2. p \in Tables
    BY <2>1 DEF Sound
  <2> HIDE DEF p
  <2>3. Paid(t, Pay(t, s, pay, total), s, pay, total)
    BY <1>1, <1>3, PayKeeps
  <2> QED BY <2>2, <2>3 DEF p, Paid
<1> HIDE DEF p
<1>6. /\ v.street = p.street /\ v.cards = p.cards /\ v.button = p.button
      /\ v.action = p.action /\ v.acted = p.acted /\ v.bet = p.bet
      /\ v.contrib = p.contrib /\ v.stack = p.stack /\ v.pot = p.pot
      /\ v.status = p.status /\ v.potLimit = p.potLimit
      /\ v.minRaise = (IF total > t.currentBet /\ full THEN total - t.currentBet
                       ELSE t.minRaise)
      /\ v.currentBet = Greater(total, t.currentBet)
      /\ v \in Tables
  <2>1. CASE total > t.currentBet
    <3>1. minRaise \in Nat /\ s \in Seats \cup {None}
      BY <1>1, <1>3, <1>5, <2>1 DEF SameButChips
    <3>2. minRaise = IF full THEN total - t.currentBet ELSE t.minRaise
      BY <1>5 DEF SameButChips
    <3> HIDE DEF minRaise, full
    <3>3. /\ b.street = p.street /\ b.cards = p.cards /\ b.button = p.button
          /\ b.action = p.action /\ b.acted = p.acted /\ b.bet = p.bet
          /\ b.contrib = p.contrib /\ b.stack = p.stack /\ b.pot = p.pot
          /\ b.status = p.status /\ b.potLimit = p.potLimit
          /\ b.minRaise = minRaise /\ b.currentBet = total /\ b \in Tables
      BY <1>3, <1>5, <3>1 DEF Tables
    <3>4. v = b /\ Greater(total, t.currentBet) = total
      BY <1>1, <1>3, <2>1 DEF Greater
    <3> HIDE DEF b, v
    <3> QED BY <2>1, <3>2, <3>3, <3>4
  <2>2. CASE ~(total > t.currentBet)
    <3>1. v = p /\ Greater(total, t.currentBet) = t.currentBet
      BY <1>1, <1>3, <2>2 DEF Greater
    <3> HIDE DEF v, full
    <3> QED BY <1>5, <2>2, <3>1 DEF SameButChips
  <2> QED BY <2>1, <2>2
<1> HIDE DEF v, full
<1>7. /\ a.street = v.street /\ a.cards = v.cards /\ a.button = v.button
      /\ a.action = v.action /\ a.acted = v.acted /\ a.bet = v.bet
      /\ a.contrib = v.contrib /\ a.stack = v.stack /\ a.pot = v.pot
      /\ a.minRaise = v.minRaise /\ a.currentBet = v.currentBet
      /\ a.potLimit = v.potLimit /\ DOMAIN a = DOMAIN v
      /\ \A r \in Seats : a.status[r] = IF r = s /\ v.stack[s] = 0 THEN "all_in"
                                         ELSE v.status[r]
  BY <1>6, AllInKeeps
<1> HIDE DEF a
<1>8. DOMAIN a = DOMAIN t
  BY <1>1, <1>6, <1>7 DEF Tables
<1>9. acted \subseteq t.acted \cup {s}
  BY <1>5, <1>6, <1>7 DEF SameButChips
<1> HIDE DEF acted
<1>10. /\ u.street = a.street /\ u.cards = a.cards /\ u.button = a.button
       /\ u.action = a.action /\ u.acted = acted /\ u.bet = a.bet
       /\ u.contrib = a.contrib /\ u.stack = a.stack /\ u.pot = a.pot
       /\ u.minRaise = a.minRaise /\ u.currentBet = a.currentBet
       /\ u.potLimit = a.potLimit /\ u.status = a.status
  BY <1>1, <1>8 DEF Tables
<1> HIDE DEF u
<1>11. \A r \in Seats : /\ u.stack[r] = t.stack[r] - (IF r = s THEN pay ELSE 0)
                        /\ u.bet[r] = IF r = s THEN total ELSE t.bet[r]
                        /\ u.contrib[r] = t.contrib[r] + (IF r = s THEN pay ELSE 0)
                        /\ u.bet[r] - u.contrib[r] = t.bet[r] - t.contrib[r]
  BY <1>1, <1>3, <1>5, <1>6, <1>7, <1>10
<1>12. ActionOf(t, u, s)
  <2>1. \A r \in Seats : r # s => u.contrib[r] = t.contrib[r] /\ u.status[r] = t.status[r]
    BY <1>5, <1>6, <1>7, <1>10 DEF SameButChips
  <2>2. u.status[s] \in {t.status[s], "folded", "all_in"}
    BY <1>5, <1>6, <1>7, <1>10 DEF SameButChips
  <2>3. /\ u.street = t.street /\ u.cards = t.cards /\ u.button = t.button
        /\ u.action = t.action /\ u.acted \subseteq t.acted \cup {s}
    BY <1>5, <1>6, <1>7, <1>9, <1>10 DEF SameButChips
  <2> QED BY <1>11, <2>1, <2>2, <2>3 DEF ActionOf
<1>13. /\ u.currentBet = Greater(total, t.currentBet)
       /\ u.minRaise = (IF total > t.currentBet /\ full THEN total - t.currentBet
                        ELSE t.minRaise)
       /\ u.potLimit = t.potLimit /\ u.pot = t.pot + pay
  BY <1>5, <1>6, <1>7, <1>10 DEF SameButChips
<1>14. pay = total - t.bet[s] /\ total >= t.bet[s]
  BY <1>1, <1>3
<1> QED BY <1>3, <1>4, <1>11, <1>12, <1>13, <1>14 DEF total, full

(* The turn is nobody's exactly if nobody can act.                         *)
LEMMA NextActiveIs ==
  ASSUME NEW t, NEW from \in Seats \cup {None}
  PROVE  /\ NextActiveSeat(t, from) = None <=> CanAct(t) = {}
         /\ CanAct(t) # {} => NextActiveSeat(t, from) \in CanAct(t)
<1>1. from \in Int /\ None \notin Seats
  BY MaxSeatsAssumption DEF Seats, None
<1>2. CanAct(t) \in SUBSET Seats
  BY ActiveInSeats
<1>3. CanAct(t) # {} => FirstFrom(from, CanAct(t)) \in CanAct(t)
  BY <1>1, <1>2, FirstFromIn
<1> QED BY <1>1, <1>2, <1>3 DEF NextActiveSeat

LEMMA FiniteSeats ==
  /\ IsFiniteSet(Seats)
  /\ \A S \in SUBSET Seats : IsFiniteSet(S) /\ Cardinality(S) \in Nat
  /\ Cardinality({}) = 0
<1>1. IsFiniteSet(Seats)
  BY FS_Interval, MaxSeatsAssumption DEF Seats
<1> QED BY <1>1, FS_Subset, FS_CardinalityType, FS_EmptySet

(* What AdvanceAction makes of the turn: either the next seat's, or a new  *)
(* street's, and then everyone had matched the bet or nobody could act.    *)
Advanced(t, u) ==
  /\ u.status = t.status /\ u.stack = t.stack /\ u.contrib = t.contrib
  /\ u.cards = t.cards /\ u.pot = t.pot /\ u.potLimit = t.potLimit
  /\ BettingOver(u) \/ u.action \in CanAct(u)
  /\ \/ /\ u.street = t.street /\ u.bet = t.bet /\ u.acted = t.acted
        /\ u.currentBet = t.currentBet /\ u.minRaise = t.minRaise
     \/ /\ CanAct(t) = {} \/ AllMatched(t)
        /\ u.bet = NoBets /\ u.currentBet = 0 /\ u.minRaise = 0
        /\ BettingOver(u) \/ (u.street # "preflop" /\ Cardinality(CanAct(t)) >= 2)

LEMMA AdvanceKeeps ==
  ASSUME NEW t \in Tables
  PROVE  Advanced(t, AdvanceAction(t))
<1> DEFINE next == NextActiveSeat(t, t.action)
           turn == [t EXCEPT !.action = next]
           swept == [t EXCEPT !.bet = NoBets, !.currentBet = 0, !.minRaise = 0, !.acted = {}]
           over == t.street \in {"waiting", "showdown"}
           street == IF Cardinality(CanAct(t)) <= 1 THEN "showdown" ELSE NextStreet[t.street]
           board == BoardOn[street]
           action == IF street = "showdown" THEN swept.action ELSE NextActiveSeat(t, t.button)
           dealt == [swept EXCEPT !.street = street, !.board = board, !.action = action]
<1>1. /\ t.action \in Seats \cup {None} /\ t.button \in Seats \cup {None}
      /\ t.street \in Streets /\ CanAct(t) \in SUBSET Seats
  BY ActiveInSeats DEF Tables
<1>2. AdvanceAction(t) = IF next = None \/ AllMatched(t)
                         THEN (IF over THEN swept ELSE dealt) ELSE turn
  BY DEF AdvanceAction, AdvanceStreet
<1>3. CASE ~(next = None \/ AllMatched(t))
  <2>1. next \in CanAct(t)
    BY <1>1, <1>3, NextActiveIs
  <2> HIDE DEF next
  <2>2. /\ turn.status = t.status /\ turn.stack = t.stack /\ turn.contrib = t.contrib
        /\ turn.cards = t.cards /\ turn.pot = t.pot /\ turn.potLimit = t.potLimit
        /\ turn.street = t.street /\ turn.bet = t.bet /\ turn.acted = t.acted
        /\ turn.currentBet = t.currentBet /\ turn.minRaise = t.minRaise
        /\ turn.action = next
    BY DEF Tables
  <2>3. AdvanceAction(t) = turn
    BY <1>2, <1>3
  <2> HIDE DEF turn
  <2>4. turn.action \in CanAct(turn)
    BY <2>1, <2>2 DEF CanAct
  <2> QED BY <2>2, <2>3, <2>4 DEF Advanced
<1>4. CASE next = None \/ AllMatched(t)
  <2>1. CanAct(t) = {} \/ AllMatched(t)
    BY <1>1, <1>4, NextActiveIs
  <2> HIDE DEF next
  <2>2. /\ swept.status = t.status /\ swept.stack = t.stack /\ swept.contrib = t.contrib
        /\ swept.cards = t.cards /\ swept.pot = t.pot /\ swept.potLimit = t.potLimit
        /\ swept.street = t.street /\ swept.bet = NoBets /\ swept.action = t.action
        /\ swept.currentBet = 0 /\ swept.minRaise = 0 /\ DOMAIN swept = DOMAIN t
    BY DEF Tables
  <2> HIDE DEF swept
  <2>3. CASE over
    <3>1. BettingOver(swept) /\ AdvanceAction(t) = swept
      BY <1>2, <1>4, <2>2, <2>3 DEF BettingOver
    <3> QED BY <2>1, <2>2, <3>1 DEF Advanced
  <2>4. CASE ~over
    <3>1. /\ street \in {"flop", "turn", "river", "showdown"}
          /\ street = "showdown" \/ Cardinality(CanAct(t)) >= 2
      BY <1>1, <2>4, FiniteSeats DEF NextStreet, Streets
    <3>2. street = "showdown" \/ (CanAct(t) # {} /\ action \in CanAct(t))
      BY <1>1, <3>1, NextActiveIs, FiniteSeats
    <3> HIDE DEF street, board, action
    <3>3. /\ dealt.status = t.status /\ dealt.stack = t.stack /\ dealt.contrib = t.contrib
          /\ dealt.cards = t.cards /\ dealt.pot = t.pot /\ dealt.potLimit = t.potLimit
          /\ dealt.street = street /\ dealt.bet = NoBets /\ dealt.action = action
          /\ dealt.currentBet = 0 /\ dealt.minRaise = 0
      BY <2>2 DEF Tables
    <3>4. AdvanceAction(t) = dealt
      BY <1>2, <1>4, <2>4
    <3> HIDE DEF dealt
    <3>5. BettingOver(dealt) \/ (dealt.street # "preflop" /\ Cardinality(CanAct(t)) >= 2)
      BY <3>1, <3>3 DEF BettingOver
    <3>6. BettingOver(dealt) \/ dealt.action \in CanAct(dealt)
      BY <3>2, <3>3 DEF BettingOver, CanAct
    <3> QED BY <2>1, <3>3, <3>4, <3>5, <3>6 DEF Advanced
  <2> QED BY <2>3, <2>4
<1> QED BY <1>3, <1>4

(* What an action does to the price of staying in: nothing, or a raise     *)
(* that is full or shorter than the last one.                              *)
Wagered(t, u) ==
  /\ u.potLimit = t.potLimit /\ u.pot >= t.pot /\ CanAct(u) \subseteq CanAct(t)
  /\ \/ u.currentBet = t.currentBet /\ u.minRaise = t.minRaise
     \/ /\ u.currentBet > t.currentBet
        /\ \/ u.minRaise = t.minRaise /\ u.minRaise > 0
           \/ u.minRaise = u.currentBet - t.currentBet

LEMMA ActsWager ==
  ASSUME NEW t \in Tables, NEW s \in Seats
  PROVE  Wagered(t, Acts(t, s)) /\ Wagered(t, Fold(t, s))
<1> DEFINE acted == t.acted \cup {s}
           status == [t.status EXCEPT ![s] = "folded"]
           u == [t EXCEPT !.acted = acted]
           v == [[t EXCEPT !.status = status] EXCEPT !.acted = acted]
<1>1. Acts(t, s) = u /\ Fold(t, s) = v
  BY DEF Acts, Fold, Tables
<1>2. \A r \in Seats : status[r] = IF r = s THEN "folded" ELSE t.status[r]
  BY DEF Tables
<1> HIDE DEF acted, status
<1>3. /\ u.potLimit = t.potLimit /\ u.pot = t.pot /\ u.currentBet = t.currentBet
      /\ u.minRaise = t.minRaise /\ u.stack = t.stack /\ u.status = t.status
  BY DEF Tables
<1>4. /\ v.potLimit = t.potLimit /\ v.pot = t.pot /\ v.currentBet = t.currentBet
      /\ v.minRaise = t.minRaise /\ v.stack = t.stack /\ v.status = status
  BY DEF Tables
<1> HIDE DEF u, v
<1>5. t.pot >= t.pot
  BY DEF Tables
<1>6. CanAct(u) = CanAct(t) /\ CanAct(v) \subseteq CanAct(t)
  BY <1>2, <1>3, <1>4 DEF CanAct
<1> QED BY <1>1, <1>3, <1>4, <1>5, <1>6 DEF Wagered

LEMMA CallWager ==
  ASSUME NEW t, Playable(t), NEW s \in Seats
  PROVE  Wagered(t, Call(t, s))
<1> DEFINE pay == Lesser(ToCall(t, s), t.stack[s])
           u == Call(t, s)
<1>1. /\ ActionOf(t, u, s) /\ pay \in Nat
      /\ u.minRaise = t.minRaise /\ u.currentBet = t.currentBet
      /\ u.potLimit = t.potLimit /\ u.pot = t.pot + pay
      /\ \A r \in Seats : u.stack[r] = t.stack[r] - (IF r = s THEN pay ELSE 0)
  BY CallKeeps
<1>2. t.pot \in Nat /\ t.stack \in [Seats -> Nat]
  BY DEF Playable, Sound, Tables
<1> HIDE DEF u, pay
<1>3. u.pot >= t.pot
  BY <1>1, <1>2
<1>4. \A r \in Seats : u.stack[r] > 0 => t.stack[r] > 0
  BY <1>1, <1>2
<1>5. \A r \in Seats : u.status[r] = "seated" => t.status[r] = "seated"
  BY <1>1 DEF ActionOf
<1>6. CanAct(u) \subseteq CanAct(t)
  BY <1>4, <1>5 DEF CanAct
<1> QED BY <1>1, <1>3, <1>6 DEF Wagered, u

LEMMA RaiseWager ==
  ASSUME NEW t, Playable(t), NEW s \in Seats, NEW asked \in Nat, CanRaise(t, s, asked)
  PROVE  Wagered(t, Raise(t, s, asked))
<1> DEFINE total == Lesser(asked, t.bet[s] + t.stack[s])
           u == Raise(t, s, asked)
<1>1. /\ ActionOf(t, u, s) /\ total \in Nat /\ total >= t.bet[s]
      /\ u.currentBet = Greater(total, t.currentBet)
      /\ u.minRaise = (IF total > t.currentBet /\ total - t.currentBet >= t.minRaise
                       THEN total - t.currentBet ELSE t.minRaise)
      /\ u.potLimit = t.potLimit /\ u.pot = t.pot + (total - t.bet[s])
      /\ \A r \in Seats : u.stack[r] = t.stack[r] - (IF r = s THEN total - t.bet[s] ELSE 0)
  BY RaiseKeeps
<1>2. /\ t.pot \in Nat /\ t.stack \in [Seats -> Nat] /\ t.bet \in [Seats -> Nat]
      /\ t.currentBet \in Nat /\ t.minRaise \in Nat
  BY DEF Playable, Sound, Tables
<1> HIDE DEF u, total
<1>3. u.pot >= t.pot
  BY <1>1, <1>2
<1>4. \A r \in Seats : u.stack[r] > 0 => t.stack[r] > 0
  BY <1>1, <1>2
<1>5. \A r \in Seats : u.status[r] = "seated" => t.status[r] = "seated"
  BY <1>1 DEF ActionOf
<1>6. CanAct(u) \subseteq CanAct(t)
  BY <1>4, <1>5 DEF CanAct
<1>7. CASE total > t.currentBet
  <2>1. u.currentBet = total /\ u.currentBet > t.currentBet
    BY <1>1, <1>2, <1>7 DEF Greater
  <2>2. \/ u.minRaise = t.minRaise /\ u.minRaise > 0
        \/ u.minRaise = u.currentBet - t.currentBet
    BY <1>1, <1>2, <1>7, <2>1
  <2> QED BY <1>1, <1>3, <1>6, <2>1, <2>2 DEF Wagered, u
<1>8. CASE ~(total > t.currentBet)
  <2>1. u.currentBet = t.currentBet /\ u.minRaise = t.minRaise
    BY <1>1, <1>2, <1>8 DEF Greater
  <2> QED BY <1>1, <1>3, <1>6, <2>1 DEF Wagered, u
<1> QED BY <1>7, <1>8

(* The pot holds what any two seats have put into it. *)
LEMMA PotOfTwo ==
  ASSUME NEW t, Sound(t), Accounted(t), NEW a \in Seats
  PROVE  /\ t.pot >= t.contrib[a]
         /\ \A b \in Seats \ {a} : t.pot >= t.contrib[a] + t.contrib[b]
<1> DEFINE f == t.contrib
           g == [f EXCEPT ![a] = 0]
<1>1. f \in [Seats -> Nat] /\ t.pot = Total(f)
  BY DEF Sound, Accounted, Tables
<1> HIDE DEF f
<1>2. g \in [Seats -> Nat] /\ Total(g) + f[a] = Total(f)
  BY <1>1, TotalEmptied
<1>3. Total(g) \in Nat
  BY <1>2, TotalType
<1>4. f[a] \in Nat
  BY <1>1
<1>5. ASSUME NEW b \in Seats \ {a} PROVE Total(g) >= f[b]
  <2> DEFINE h == [g EXCEPT ![b] = 0]
  <2>1. g[b] = f[b] /\ f[b] \in Nat
    BY <1>1, <1>5
  <2> HIDE DEF g
  <2>2. h \in [Seats -> Nat] /\ Total(h) + g[b] = Total(g)
    BY <1>2, TotalEmptied
  <2>3. Total(h) \in Nat
    BY <2>2, TotalType
  <2> QED BY <1>3, <2>1, <2>2, <2>3
<1> HIDE DEF g
<1>6. t.pot >= f[a]
  BY <1>1, <1>2, <1>3, <1>4
<1>7. \A b \in Seats \ {a} : t.pot >= f[a] + f[b]
  BY <1>1, <1>2, <1>3, <1>4, <1>5
<1> QED BY <1>6, <1>7 DEF f

----------------------------------------------------------------------------
(* Who is in the hand when it has been dealt. *)

(* From t to u only the seats of S have paid, and nobody has left the      *)
(* table or the hand or, outside S, joined it.                             *)
Within(t, u, S) ==
  /\ Occupied(t) \subseteq Occupied(u)
  /\ u.cards = t.cards /\ u.street = t.street /\ u.minRaise = t.minRaise
  /\ u.potLimit = t.potLimit
  /\ \A s \in Seats \ S : u.contrib[s] = t.contrib[s]
  /\ NonFoldedSeats(t) \subseteq NonFoldedSeats(u)
  /\ NonFoldedSeats(u) \subseteq NonFoldedSeats(t) \cup S

LEMMA WithinTrans ==
  ASSUME NEW t, NEW u, NEW v, NEW S, Within(t, u, S), Within(u, v, S)
  PROVE  Within(t, v, S)
BY DEF Within

LEMMA WithinSame ==
  ASSUME NEW t, NEW u, NEW S, u.cards = t.cards, u.street = t.street,
         u.contrib = t.contrib, u.status = t.status, u.minRaise = t.minRaise,
         u.potLimit = t.potLimit
  PROVE  Within(t, u, S)
BY DEF Within, NonFoldedSeats, Occupied

LEMMA PostBlindWithin ==
  ASSUME NEW t \in Tables, NEW S \in SUBSET Seats, NEW seat \in S, NEW amount \in Nat
  PROVE  Within(t, PostBlind(t, seat, amount), S)
<1> DEFINE pay == Lesser(amount, t.stack[seat])
           u == Pay(t, seat, pay, pay)
<1>1. pay \in Nat /\ seat \in Seats
  BY DEF Lesser, Tables
<1>2. PostBlind(t, seat, amount) = IF seat \notin Occupied(t) THEN t ELSE u
  BY DEF PostBlind, Pay
<1> HIDE DEF pay
<1>3. Paid(t, u, seat, pay, pay)
  BY <1>1, PayKeeps
<1> HIDE DEF u
<1>4. Within(t, u, S)
  BY <1>3 DEF Paid, SameButChips, Within, NonFoldedSeats, Occupied
<1>5. Within(t, t, S)
  BY WithinSame
<1> QED BY <1>2, <1>4, <1>5

LEMMA PostAntesWithin ==
  ASSUME NEW t \in Tables, NEW S \in SUBSET Seats, NEW R \in SUBSET S, NEW amount \in Nat
  PROVE  LET u == PostAntes(t, R, amount)
         IN  /\ Within(t, u, S) /\ u.currentBet = t.currentBet
             /\ u.bet = t.bet /\ u.owesPost = t.owesPost /\ u.postNow = t.postNow
             /\ \A s \in R \cap CanAct(u) : u.contrib[s] = t.contrib[s] + amount
<1> DEFINE paid == [s \in Seats |-> IF s \in R THEN Lesser(amount, t.stack[s]) ELSE 0]
           status == [s \in Seats |-> IF s \in R /\ paid[s] = t.stack[s]
                                      THEN "all_in" ELSE t.status[s]]
           c == Collect(t, paid)
           u == [c EXCEPT !.status = status]
<1>1. t.stack \in [Seats -> Nat] /\ t.status \in [Seats -> SeatStatus] /\ R \in SUBSET Seats
      /\ t.contrib \in [Seats -> Nat]
  BY DEF Tables
<1>2. /\ paid \in [Seats -> Nat]
      /\ \A s \in Seats : paid[s] = IF s \in R THEN Lesser(amount, t.stack[s]) ELSE 0
      /\ \A s \in Seats : status[s] = IF s \in R /\ paid[s] = t.stack[s]
                                      THEN "all_in" ELSE t.status[s]
  BY <1>1 DEF Lesser
<1>3. PostAntes(t, R, amount) = u
  BY DEF PostAntes
<1> HIDE DEF paid, status
<1>4. /\ SameButChips(t, c) /\ c.bet = t.bet
      /\ c.stack = [s \in Seats |-> t.stack[s] - paid[s]]
      /\ c.contrib = [s \in Seats |-> t.contrib[s] + paid[s]]
      /\ DOMAIN c = DOMAIN t
  BY <1>2, CollectKeeps
<1> HIDE DEF c
<1>5. /\ u.cards = t.cards /\ u.street = t.street /\ u.minRaise = t.minRaise
      /\ u.potLimit = t.potLimit
      /\ u.currentBet = t.currentBet /\ u.bet = t.bet /\ u.owesPost = t.owesPost
      /\ u.postNow = t.postNow /\ u.status = status /\ u.stack = c.stack
      /\ u.contrib = c.contrib
  BY <1>4 DEF SameButChips, Tables
<1> HIDE DEF u
<1>6. \A s \in Seats \ R : u.contrib[s] = t.contrib[s] /\ u.status[s] = t.status[s]
  BY <1>1, <1>2, <1>4, <1>5
<1>7. \A s \in R : u.status[s] \in {t.status[s], "all_in"}
  BY <1>1, <1>2, <1>5
<1>8. NonFoldedSeats(t) \subseteq NonFoldedSeats(u)
  BY <1>6, <1>7 DEF NonFoldedSeats
<1>9. NonFoldedSeats(u) \subseteq NonFoldedSeats(t) \cup S
  BY <1>6 DEF NonFoldedSeats
<1>10. Within(t, u, S)
  <2>1. Occupied(t) \subseteq Occupied(u)
    BY <1>6, <1>7 DEF Occupied
  <2> QED BY <1>5, <1>6, <1>8, <1>9, <2>1 DEF Within
<1>11. ASSUME NEW s \in R, s \in CanAct(u)
       PROVE  u.contrib[s] = t.contrib[s] + amount
  <2>1. u.status[s] = "seated" /\ s \in Seats
    BY <1>11 DEF CanAct
  <2>2. paid[s] # t.stack[s] /\ paid[s] = Lesser(amount, t.stack[s])
    BY <1>2, <1>5, <2>1
  <2>3. paid[s] = amount
    BY <2>2 DEF Lesser
  <2> QED BY <1>4, <1>5, <2>1, <2>3
<1> QED BY <1>3, <1>5, <1>10, <1>11

LEMMA PostReturnsWithin ==
  ASSUME NEW t \in Tables, NEW S \in SUBSET Seats, NEW R \in SUBSET S,
         PostAntes(t, R, SmallBlind) \in Tables
  PROVE  Within(t, PostReturns(t, R), S)
<1> DEFINE a == PostAntes(t, R, SmallBlind)
           paid == [s \in Seats |-> IF s \in R THEN Lesser(BigBlind, a.stack[s]) ELSE 0]
           bet == [s \in Seats |-> IF s \in R THEN paid[s] ELSE t.bet[s]]
           c == Collect(a, paid)
           u == [c EXCEPT !.bet = bet, !.owesPost = @ \ R, !.postNow = @ \ R,
                          !.sittingOut = @ \ R]
<1>1. SmallBlind \in Nat /\ BigBlind \in Nat
  BY BlindsAssumption
<1>2. PostReturns(t, R) = u
  BY DEF PostReturns
<1>3. Within(t, a, S) /\ a \in Tables
  BY <1>1, PostAntesWithin
<1> HIDE DEF a
<1>4. a.stack \in [Seats -> Nat] /\ a.contrib \in [Seats -> Nat]
  BY <1>3 DEF Tables
<1>5. /\ paid \in [Seats -> Nat] /\ \A s \in Seats \ R : paid[s] = 0
  BY <1>1, <1>4 DEF Lesser
<1> HIDE DEF paid, bet
<1>6. /\ SameButChips(a, c) /\ c.contrib = [s \in Seats |-> a.contrib[s] + paid[s]]
      /\ DOMAIN c = DOMAIN a
  BY <1>3, <1>5, CollectKeeps
<1> HIDE DEF c
<1>7. /\ u.cards = a.cards /\ u.street = a.street /\ u.minRaise = a.minRaise
      /\ u.potLimit = a.potLimit
      /\ u.status = a.status /\ u.contrib = c.contrib
  BY <1>3, <1>6 DEF SameButChips, Tables
<1> HIDE DEF u
<1>8. \A s \in Seats \ S : u.contrib[s] = a.contrib[s]
  BY <1>4, <1>5, <1>6, <1>7
<1>9. Within(a, u, S)
  BY <1>7, <1>8 DEF Within, NonFoldedSeats, Occupied
<1> QED BY <1>2, <1>3, <1>9, WithinTrans

LEMMA ForcePostBBWithin ==
  ASSUME NEW t \in Tables, NEW S \in SUBSET Seats, NEW seat \in S
  PROVE  Within(t, ForcePostBB(t, seat), S)
<1> DEFINE v == [t EXCEPT !.owesPost = @ \ {seat}, !.sittingOut = @ \ {seat}]
           u == PostBlind(v, seat, BigBlind)
<1>1. BigBlind \in Nat
  BY BlindsAssumption
<1>2. ForcePostBB(t, seat) = IF seat \notin Occupied(t) THEN t ELSE u
  BY DEF ForcePostBB
<1>3. t.owesPost \ {seat} \in SUBSET Seats /\ t.sittingOut \ {seat} \in SUBSET Seats
  BY DEF Tables
<1>4. /\ v \in Tables /\ v.contrib = t.contrib /\ v.status = t.status
      /\ v.cards = t.cards /\ v.street = t.street /\ v.minRaise = t.minRaise
      /\ v.potLimit = t.potLimit
  BY <1>3 DEF Tables
<1> HIDE DEF v
<1>5. Within(t, v, S) /\ Within(t, t, S)
  BY <1>4, WithinSame
<1>6. Within(v, u, S)
  BY <1>1, <1>4, PostBlindWithin
<1> QED BY <1>2, <1>5, <1>6, WithinTrans

(* The small blind, unless it is dead, is posted by a seat that plays.     *)
LEMMA SmallBlindPlays ==
  ASSUME NEW t \in Tables, Anchored(t), Cardinality(Active(t)) >= 2
  PROVE  LET pos == AssignButtonAndBlinds(t)
         IN  pos.dead \in BOOLEAN /\ (pos.dead \/ pos.sb \in Active(t))
<1> DEFINE active == Active(t)
           lowest == CHOOSE s \in active : \A r \in active : s <= r
           hub == IF t.bbSeat \in active THEN t.bbSeat ELSE lowest
           other == CHOOSE s \in active : s # hub
<1>1. active \in SUBSET Seats
  BY ActiveInSeats
<1>2. \E s \in active : \A r \in active : s <= r
  BY <1>1, TwoSeats
<1> HIDE DEF active
<1>3. lowest \in active
  BY <1>2
<1> HIDE DEF lowest
<1>4. hub \in active
  BY <1>3
<1> HIDE DEF hub, other
<1>5. CASE Cardinality(active) = 2 /\ Cardinality(Ready(t)) = 2
  <2>1. AssignButtonAndBlinds(t) = [button |-> hub, sb |-> hub, bb |-> other, dead |-> FALSE]
    BY <1>5 DEF AssignButtonAndBlinds, active, lowest, hub, other
  <2> QED BY <2>1, <1>4 DEF active
<1>6. CASE ~(Cardinality(active) = 2 /\ Cardinality(Ready(t)) = 2) /\ t.bbSeat = None
  <2> DEFINE sb == NextEligible(t, lowest)
  <2>1. AssignButtonAndBlinds(t)
          = [button |-> lowest, sb |-> sb, bb |-> NextEligible(t, sb), dead |-> FALSE]
    BY <1>6 DEF AssignButtonAndBlinds, active, lowest, hub, other
  <2>2. lowest \in Int
    BY <1>1, <1>3, MaxSeatsAssumption DEF Seats
  <2>3. FirstFrom(lowest, active) \in active
    BY <1>1, <1>3, <2>2, FirstFromIn
  <2>4. sb = FirstFrom(lowest, active)
    BY <1>3 DEF NextEligible, active
  <2> HIDE DEF sb
  <2> QED BY <2>1, <2>3, <2>4 DEF active
<1>7. CASE ~(Cardinality(active) = 2 /\ Cardinality(Ready(t)) = 2) /\ t.bbSeat # None
  <2> DEFINE dead == t.bbSeat \notin active
             pos == AssignButtonAndBlinds(t)
  <2>1. pos = [button |-> t.sbSeat, sb |-> t.bbSeat, bb |-> NextBBSeat(t, t.bbSeat),
               dead |-> dead]
    BY <1>7 DEF AssignButtonAndBlinds, active, lowest, hub, other
  <2> HIDE DEF dead, pos
  <2>2. pos.sb = t.bbSeat
    BY <2>1
  <2>3. pos.dead = dead
    BY <2>1
  <2>4. CASE t.bbSeat \in active
    <3>1. pos.dead = FALSE
      BY <2>3, <2>4 DEF dead
    <3> QED BY <3>1, <2>2, <2>4 DEF pos, active
  <2>5. CASE t.bbSeat \notin active
    <3>1. pos.dead = TRUE
      BY <2>3, <2>5 DEF dead
    <3> QED BY <3>1 DEF pos
  <2> QED BY <2>4, <2>5
<1> QED BY <1>5, <1>6, <1>7

(* Only seats with cards are in the hand, and only they have paid.         *)
OnlyDealt(t) ==
  /\ NonFoldedSeats(t) \subseteq t.cards
  /\ \A s \in Seats \ t.cards : t.contrib[s] = 0

LEMMA WithinCards ==
  ASSUME NEW t, NEW u, OnlyDealt(t), Within(t, u, t.cards)
  PROVE  OnlyDealt(u)
BY DEF OnlyDealt, Within

(* The turn is on a seat that can act, or on nobody.                       *)
TurnOn(t) == t.action = None \/ t.action \in CanAct(t)

LEMMA DealCardsLive ==
  ASSUME NEW t \in Tables, t.contrib = NoBets, NEW pos, Positions(pos)
  PROVE  LET u == DealCards(t, pos)
         IN  /\ OnlyDealt(u) /\ Active(t) \subseteq NonFoldedSeats(u)
             /\ Active(t) \subseteq u.cards /\ pos.bb \in u.cards /\ u.cards \in SUBSET Seats
             /\ u.street = t.street /\ u.minRaise = t.minRaise /\ u.contrib = NoBets
             /\ u.potLimit = t.potLimit
             /\ u.bet = NoBets /\ Occupied(t) \subseteq Occupied(u)
<1> DEFINE dealt == DealtIn(t, pos.bb)
           status == [s \in Seats |-> IF s \notin Occupied(t) THEN "empty"
                                      ELSE IF s \in dealt THEN "seated" ELSE "folded"]
           u == [t EXCEPT !.button = pos.button, !.bet = NoBets, !.cards = dealt,
                          !.status = status]
<1>1. pos.button \in Seats /\ pos.bb \in Seats
  BY DEF Positions
<1>2. dealt \in SUBSET Seats /\ Active(t) \subseteq dealt /\ pos.bb \in dealt
  BY <1>1, ActiveInSeats DEF DealtIn
<1>3. DealCards(t, pos) = u
  BY DEF DealCards
<1>4. \A s \in Seats : status[s] = IF s \notin Occupied(t) THEN "empty"
                                    ELSE IF s \in dealt THEN "seated" ELSE "folded"
  OBVIOUS
<1>5. \A s \in Seats : NoBets[s] = 0
  BY DEF NoBets
<1>6. Active(t) \subseteq Occupied(t)
  BY DEF Active, Ready, CanAct, Occupied
<1> HIDE DEF dealt, status
<1>7. /\ u.cards = dealt /\ u.status = status /\ u.contrib = t.contrib
      /\ u.street = t.street /\ u.minRaise = t.minRaise /\ u.bet = NoBets
      /\ u.potLimit = t.potLimit
  BY DEF Tables
<1> HIDE DEF u
<1>8. \A s \in Seats : /\ s \in NonFoldedSeats(u) => s \in dealt
                       /\ s \in Occupied(t) /\ s \in dealt => s \in NonFoldedSeats(u)
  BY <1>4, <1>7 DEF NonFoldedSeats
<1>9. NonFoldedSeats(u) \subseteq Seats /\ Active(t) \subseteq Seats
  BY ActiveInSeats DEF NonFoldedSeats
<1>10. NonFoldedSeats(u) \subseteq u.cards /\ Active(t) \subseteq NonFoldedSeats(u)
  BY <1>2, <1>6, <1>7, <1>8, <1>9
<1>11. OnlyDealt(u)
  BY <1>5, <1>7, <1>10 DEF OnlyDealt
<1>12. Occupied(t) \subseteq Occupied(u)
  BY <1>4, <1>7 DEF Occupied
<1> QED BY <1>2, <1>3, <1>7, <1>10, <1>11, <1>12

(* The anchors of the next hand's blinds. *)
BlindsAt(t, pos) == t.sbSeat = pos.sb /\ t.bbSeat = pos.bb

LEMMA PostStraddleLive ==
  ASSUME NEW t \in Tables, OnlyDealt(t), t.cards \in SUBSET Seats, TurnOn(t),
         t.currentBet = BigBlind, t.minRaise = BigBlind, NEW pos, Positions(pos)
  PROVE  LET u == PostStraddle(t, pos)
         IN  /\ Within(t, u, t.cards) /\ TurnOn(u) /\ u.currentBet >= BigBlind
             /\ BlindsAt(t, pos) => BlindsAt(u, pos)
<1> DEFINE utg == NextActiveSeat(t, pos.bb)
           p == PostBlind(t, utg, 2 * BigBlind)
           next == NextActiveSeat(p, utg)
           u == [p EXCEPT !.currentBet = 2 * BigBlind, !.minRaise = BigBlind,
                          !.action = next]
           straddles == utg \notin {None, pos.bb, pos.sb} /\ t.stack[utg] >= 2 * BigBlind
<1>1. pos.bb \in Seats /\ BigBlind \in Nat
  BY BlindsAssumption DEF Positions
<1>2. PostStraddle(t, pos) = IF straddles THEN u ELSE t
  BY DEF PostStraddle
<1>3. CASE ~straddles
  <2>1. Within(t, t, t.cards) /\ t.currentBet >= BigBlind
    BY <1>1, WithinSame
  <2> QED BY <1>2, <1>3, <2>1
<1>4. CASE straddles
  <2>1. utg # None
    BY <1>4
  <2>2. utg \in CanAct(t)
    BY <1>1, <2>1, NextActiveIs
  <2> HIDE DEF utg
  <2>3. utg \in t.cards /\ utg \in Seats
    BY <2>2 DEF CanAct, OnlyDealt, NonFoldedSeats
  <2>4. 2 * BigBlind \in Nat
    BY <1>1
  <2>5. Within(t, p, t.cards)
    BY <2>3, <2>4, PostBlindWithin
  <2>6. p.minRaise = BigBlind
    BY <2>5 DEF Within
  <2>7. DOMAIN p = DOMAIN t /\ p.sbSeat = t.sbSeat /\ p.bbSeat = t.bbSeat
    <3> DEFINE pay == Lesser(2 * BigBlind, t.stack[utg])
               c == Collect(t, Only(utg, pay))
    <3>1. p = IF utg \notin Occupied(t) THEN t ELSE [c EXCEPT !.bet[utg] = pay]
      BY DEF PostBlind
    <3>2. DOMAIN c = DOMAIN t /\ c.sbSeat = t.sbSeat /\ c.bbSeat = t.bbSeat
      BY DEF Collect, Tables
    <3> HIDE DEF c
    <3> QED BY <3>1, <3>2 DEF Tables
  <2> HIDE DEF p
  <2>8. next = None \/ next \in CanAct(p)
    BY <2>3, NextActiveIs
  <2> HIDE DEF next
  <2>9. PICK double \in Nat : double = 2 * BigBlind
    BY <2>4
  <2>10. u = [p EXCEPT !.currentBet = double, !.minRaise = BigBlind, !.action = next]
    BY <2>9
  <2> HIDE DEF u
  <2>11. /\ u.cards = p.cards /\ u.street = p.street /\ u.contrib = p.contrib
         /\ u.status = p.status /\ u.stack = p.stack /\ u.minRaise = p.minRaise
         /\ u.potLimit = p.potLimit
         /\ u.action = next /\ u.currentBet = double
         /\ u.sbSeat = t.sbSeat /\ u.bbSeat = t.bbSeat
    BY <2>6, <2>7, <2>10 DEF Tables
  <2>12. TurnOn(u)
    BY <2>8, <2>11 DEF TurnOn, CanAct
  <2>13. Within(p, u, t.cards)
    BY <2>11, WithinSame
  <2>14. Within(t, u, t.cards)
    BY <2>5, <2>13, WithinTrans
  <2>15. u.currentBet >= BigBlind
    BY <1>1, <2>9, <2>11
  <2>16. BlindsAt(t, pos) => BlindsAt(u, pos)
    BY <2>11 DEF BlindsAt
  <2> QED BY <1>2, <1>4, <2>12, <2>14, <2>15, <2>16
<1> QED BY <1>3, <1>4

LEMMA OpenWithBlindsLive ==
  ASSUME NEW t, Sound(t), OnlyDealt(t), t.currentBet = BigBlind, t.minRaise = BigBlind,
         NEW pos, Positions(pos), pos.bb \in t.cards,
         pos.dead \in BOOLEAN, pos.dead \/ pos.sb \in t.cards,
         NEW straddle \in BOOLEAN
  PROVE  LET u == OpenWithBlinds(t, pos, straddle)
         IN  /\ Within(t, u, t.cards) /\ TurnOn(u) /\ u.currentBet >= BigBlind
             /\ BlindsAt(u, pos)
<1> DEFINE small == IF pos.dead \/ pos.sb = pos.bb THEN t
                    ELSE PostBlind(t, pos.sb, SmallBlind)
           big == ForcePostBB(small, pos.bb)
           posting == {s \in t.cards \ {pos.bb} : s \in big.owesPost \cap big.postNow}
           returned == PostReturns(big, posting)
           next == NextActiveSeat(returned, pos.bb)
           opened == [returned EXCEPT !.action = next, !.sbSeat = pos.sb, !.bbSeat = pos.bb]
           S == t.cards
<1>1. /\ t \in Tables /\ S \in SUBSET Seats /\ SmallBlind \in Nat /\ BigBlind \in Nat
      /\ pos.sb \in Seats /\ pos.bb \in Seats
  BY BlindsAssumption DEF Sound, Positions, Tables
<1>2. OpenWithBlinds(t, pos, straddle) = IF straddle THEN PostStraddle(opened, pos) ELSE opened
  BY DEF OpenWithBlinds
<1>3. Sound(small) /\ small.currentBet = BigBlind /\ Within(t, small, S)
  <2> DEFINE p == PostBlind(t, pos.sb, SmallBlind)
  <2>1. Sound(p) /\ p.currentBet = t.currentBet
    BY <1>1, PostBlindSound
  <2>2. CASE pos.dead \/ pos.sb = pos.bb
    <3>1. small = t
      BY <2>2
    <3>2. Within(t, t, S)
      BY WithinSame
    <3> HIDE DEF small, S
    <3> QED BY <3>1, <3>2
  <2>3. CASE ~(pos.dead \/ pos.sb = pos.bb)
    <3>1. small = p /\ pos.sb \in S
      BY <2>3
    <3>2. Within(t, p, S)
      BY <1>1, <3>1, PostBlindWithin
    <3> HIDE DEF small, p, S
    <3> QED BY <2>1, <3>1, <3>2
  <2> QED BY <2>2, <2>3
<1> HIDE DEF small
<1>4. small \in Tables /\ pos.bb \in S
  BY <1>3 DEF Sound
<1>5. Sound(big) /\ big.currentBet = BigBlind /\ Within(small, big, S)
  <2>1. Sound(big) /\ big.currentBet = small.currentBet
    BY <1>1, <1>3, ForcePostBBSound
  <2>2. Within(small, big, S)
    BY <1>1, <1>4, ForcePostBBWithin
  <2> QED BY <1>3, <2>1, <2>2
<1> HIDE DEF big
<1>6. posting \in SUBSET S /\ posting \in SUBSET Seats /\ big \in Tables
  BY <1>1, <1>5 DEF Sound
<1> HIDE DEF posting
<1>7. Sound(returned) /\ returned.currentBet = BigBlind /\ Within(big, returned, S)
  <2>1. Sound(returned) /\ returned.currentBet = big.currentBet
    BY <1>5, <1>6, PostReturnsSound
  <2>2. Sound(PostAntes(big, posting, SmallBlind))
    BY <1>1, <1>5, <1>6, PostAntesSound
  <2>3. PostAntes(big, posting, SmallBlind) \in Tables
    BY <2>2 DEF Sound
  <2>4. Within(big, returned, S)
    BY <1>1, <1>6, <2>3, PostReturnsWithin
  <2> QED BY <1>5, <2>1, <2>4
<1> HIDE DEF returned
<1>8. returned \in Tables /\ pos.sb \in Seats \cup {None} /\ pos.bb \in Seats \cup {None}
  BY <1>1, <1>7 DEF Sound
<1>9. next \in Seats \cup {None} /\ (next = None \/ next \in CanAct(returned))
  BY <1>1, NextActiveIs, NextActiveType
<1> HIDE DEF next
<1>10. /\ opened \in Tables /\ opened.cards = returned.cards /\ opened.street = returned.street
       /\ opened.contrib = returned.contrib /\ opened.status = returned.status
       /\ opened.stack = returned.stack /\ opened.minRaise = returned.minRaise
       /\ opened.potLimit = returned.potLimit
       /\ opened.action = next /\ opened.currentBet = returned.currentBet
       /\ BlindsAt(opened, pos)
  BY <1>8, <1>9 DEF Tables, BlindsAt
<1> HIDE DEF opened
<1>11. TurnOn(opened) /\ opened.currentBet = BigBlind /\ opened.currentBet >= BigBlind
  BY <1>1, <1>7, <1>9, <1>10 DEF TurnOn, CanAct
<1>12. Within(t, opened, S)
  <2>1. Within(returned, opened, S)
    BY <1>10, WithinSame
  <2> QED BY <1>3, <1>5, <1>7, <2>1, WithinTrans
<1>13. /\ OnlyDealt(opened) /\ opened.cards = t.cards /\ opened.cards \in SUBSET Seats
       /\ opened.minRaise = BigBlind
  <2>1. OnlyDealt(opened)
    BY <1>12, WithinCards
  <2> QED BY <1>1, <1>12, <2>1 DEF Within
<1>14. CASE straddle
  <2> DEFINE u == PostStraddle(opened, pos)
  <2>1. /\ Within(opened, u, S) /\ TurnOn(u) /\ u.currentBet >= BigBlind
        /\ BlindsAt(u, pos)
    BY <1>10, <1>11, <1>13, PostStraddleLive
  <2> HIDE DEF S
  <2>2. Within(t, u, S)
    BY <1>12, <2>1, WithinTrans
  <2> QED BY <1>2, <1>14, <2>1, <2>2 DEF S
<1>15. CASE ~straddle
  BY <1>2, <1>10, <1>11, <1>12, <1>15
<1> QED BY <1>14, <1>15

LEMMA OpenBombPotLive ==
  ASSUME NEW t, Sound(t), OnlyDealt(t), t.contrib = NoBets, t.bet = NoBets,
         NEW pos, Positions(pos)
  PROVE  LET u == OpenBombPot(t, pos)
         IN  /\ OnlyDealt(u) /\ NonFoldedSeats(t) \subseteq NonFoldedSeats(u) /\ TurnOn(u)
             /\ u.street = "flop" /\ u.currentBet = 0 /\ u.minRaise = BigBlind
             /\ u.potLimit = t.potLimit
             /\ u.bet = NoBets
             /\ \A s \in CanAct(u) :
                  u.contrib[s] = IF BombAnte > 0 THEN BombAnte ELSE BigBlind
             /\ Occupied(t) \subseteq Occupied(u) /\ BlindsAt(u, pos)
<1> DEFINE amount == IF BombAnte > 0 THEN BombAnte ELSE BigBlind
           a == PostAntes(t, t.cards, amount)
           next == NextActiveSeat(a, pos.button)
           u == [a EXCEPT !.board = 3, !.street = "flop", !.currentBet = 0,
                          !.minRaise = BigBlind, !.acted = {}, !.action = next,
                          !.sbSeat = pos.sb, !.bbSeat = pos.bb]
<1>1. /\ t \in Tables /\ t.cards \in SUBSET Seats /\ BigBlind \in Nat
      /\ pos.button \in Seats
  BY BlindsAssumption DEF Sound, Positions, Tables
<1>2. amount \in Nat
  BY BlindsAssumption
<1>3. OpenBombPot(t, pos) = u
  BY DEF OpenBombPot
<1> HIDE DEF amount
<1>4. /\ Within(t, a, t.cards) /\ a.bet = t.bet
      /\ \A s \in t.cards \cap CanAct(a) : a.contrib[s] = t.contrib[s] + amount
  <2>1. t.cards \in SUBSET t.cards
    OBVIOUS
  <2> QED BY <1>1, <1>2, <2>1, PostAntesWithin
<1>5. Sound(a)
  BY <1>1, <1>2, PostAntesSound
<1>6. OnlyDealt(a)
  BY <1>4, WithinCards
<1> HIDE DEF a
<1>7. a \in Tables /\ (next = None \/ next \in CanAct(a))
  BY <1>1, <1>5, NextActiveIs DEF Sound
<1> HIDE DEF next
<1>8. /\ u.cards = a.cards /\ u.street = "flop" /\ u.contrib = a.contrib
      /\ u.status = a.status /\ u.stack = a.stack /\ u.minRaise = BigBlind
      /\ u.potLimit = a.potLimit
      /\ u.action = next /\ u.currentBet = 0 /\ u.bet = a.bet
      /\ u.sbSeat = pos.sb /\ u.bbSeat = pos.bb
  BY <1>7 DEF Tables
<1> HIDE DEF u
<1>9. OnlyDealt(u) /\ TurnOn(u) /\ NonFoldedSeats(t) \subseteq NonFoldedSeats(u)
  BY <1>4, <1>6, <1>7, <1>8 DEF OnlyDealt, TurnOn, CanAct, NonFoldedSeats, Within
<1>10. ASSUME NEW s \in CanAct(u) PROVE u.contrib[s] = amount
  <2>1. s \in CanAct(a) /\ s \in a.cards
    BY <1>6, <1>8, <1>10 DEF CanAct, OnlyDealt, NonFoldedSeats
  <2>2. s \in t.cards /\ s \in Seats
    BY <2>1, <1>1, <1>4 DEF Within
  <2>3. t.contrib[s] = 0
    BY <2>2 DEF NoBets
  <2> QED BY <1>2, <1>4, <1>8, <2>1, <2>2, <2>3
<1>11. u.potLimit = t.potLimit
  BY <1>4, <1>8 DEF Within
<1>12. Occupied(t) \subseteq Occupied(u) /\ BlindsAt(u, pos)
  BY <1>4, <1>8 DEF Within, Occupied, BlindsAt
<1> QED BY <1>3, <1>4, <1>8, <1>9, <1>10, <1>11, <1>12 DEF amount

(* What a hand looks like when it has just been opened, before the flop or *)
(* on it.                                                                  *)
BombSize == IF BombAnte > 0 THEN BombAnte ELSE BigBlind

Opened(t) ==
  /\ OnlyDealt(t) /\ TurnOn(t) /\ Cardinality(NonFoldedSeats(t)) >= 2
  /\ t.minRaise = BigBlind
  /\ \/ t.street = "preflop" /\ t.currentBet >= BigBlind
     \/ /\ t.street = "flop" /\ t.currentBet = 0 /\ t.bet = NoBets
        /\ \A s \in CanAct(t) : t.contrib[s] = BombSize

LEMMA StartHandLive ==
  ASSUME NEW t \in Tables, t.bet = NoBets, t.contrib = NoBets, Anchored(t),
         Cardinality(Ready(t)) >= 2, NEW straddle \in BOOLEAN, NEW bomb \in BOOLEAN
  PROVE  /\ Opened(StartHand(t, straddle, bomb))
         /\ StartHand(t, straddle, bomb).potLimit = t.potLimit
         /\ StartHand(t, straddle, bomb).street = IF bomb THEN "flop" ELSE "preflop"
         /\ Occupied(t) \subseteq Occupied(StartHand(t, straddle, bomb))
         /\ Anchored(StartHand(t, straddle, bomb))
<1> DEFINE fresh == [t EXCEPT !.pot = 0, !.currentBet = BigBlind, !.minRaise = BigBlind,
                              !.board = 0, !.cards = {}, !.acted = {}, !.aggressor = None,
                              !.street = "preflop"]
           game == FormGame(fresh)
           pos == AssignButtonAndBlinds(game)
           dealt == DealCards(game, pos)
           few == Cardinality(Active(t)) < 2 /\ Cardinality(Ready(t)) < 2
           waiting == [fresh EXCEPT !.street = "waiting"]
<1>0. Cardinality(Ready(t)) \in Nat
  BY FiniteSeats, ActiveInSeats DEF Ready
<1>1. StartHand(t, straddle, bomb)
        = IF bomb THEN OpenBombPot(dealt, pos) ELSE OpenWithBlinds(dealt, pos, straddle)
  <2>1. ~few
    BY <1>0
  <2>2. StartHand(t, straddle, bomb)
          = IF few THEN waiting
            ELSE IF bomb THEN OpenBombPot(dealt, pos)
            ELSE OpenWithBlinds(dealt, pos, straddle)
    BY DEF StartHand
  <2> QED BY <2>1, <2>2
<1>2. /\ NoBets \in [Seats -> Nat] /\ \A s \in Seats : NoBets[s] = 0
      /\ Total(NoBets) = 0
  BY TotalOfNothing DEF NoBets
<1>3. /\ 0 \in 0 .. 5 /\ 0 \in Nat /\ "preflop" \in Streets
      /\ {} \in SUBSET Seats /\ None \in Seats \cup {None} /\ BigBlind \in Nat
  BY BlindsAssumption DEF Streets
<1>4. /\ fresh \in Tables /\ fresh.bet = NoBets /\ fresh.contrib = NoBets
      /\ fresh.pot = 0 /\ fresh.stack = t.stack /\ fresh.currentBet = BigBlind
      /\ fresh.status = t.status /\ fresh.sittingOut = t.sittingOut
      /\ fresh.owesPost = t.owesPost /\ fresh.street = "preflop"
      /\ fresh.minRaise = BigBlind
      /\ fresh.potLimit = t.potLimit
      /\ fresh.sbSeat = t.sbSeat /\ fresh.bbSeat = t.bbSeat
  BY <1>3 DEF Tables
<1> HIDE DEF fresh, few, waiting
<1>5. Sound(fresh) /\ Anchored(fresh)
  BY <1>2, <1>4 DEF Sound, Backed, Anchored
<1>6. Ready(fresh) = Ready(t)
  BY <1>4 DEF Ready, CanAct
<1>7. /\ Sound(game) /\ game.currentBet = BigBlind
      /\ Anchored(game) /\ Cardinality(Active(game)) >= 2
  BY <1>4, <1>5, <1>6, FormGameSound
<1>8. /\ game.contrib = NoBets /\ game.street = "preflop" /\ game.minRaise = BigBlind
      /\ game.potLimit = fresh.potLimit /\ game.status = fresh.status
  BY <1>4 DEF FormGame, Tables
<1> HIDE DEF game
<1>9. game \in Tables
  BY <1>7 DEF Sound
<1>10. Positions(pos) /\ pos.dead \in BOOLEAN /\ (pos.dead \/ pos.sb \in Active(game))
  BY <1>7, <1>9, AssignedPositions, SmallBlindPlays
<1> HIDE DEF pos
<1>11. /\ OnlyDealt(dealt) /\ Active(game) \subseteq NonFoldedSeats(dealt)
       /\ Active(game) \subseteq dealt.cards /\ pos.bb \in dealt.cards
       /\ dealt.cards \in SUBSET Seats /\ dealt.street = "preflop"
       /\ dealt.minRaise = BigBlind /\ dealt.contrib = NoBets /\ dealt.bet = NoBets
       /\ dealt.potLimit = game.potLimit /\ Occupied(game) \subseteq Occupied(dealt)
  BY <1>8, <1>9, <1>10, DealCardsLive
<1>12. Sound(dealt) /\ dealt.currentBet = BigBlind
  BY <1>7, <1>10, DealCardsSound
<1> HIDE DEF dealt
<1>13. Occupied(t) \subseteq Occupied(dealt)
  BY <1>4, <1>8, <1>11 DEF Occupied
<1>14. ASSUME NEW u, BlindsAt(u, pos) PROVE Anchored(u)
  <2>1. None \notin Seats
    BY MaxSeatsAssumption DEF Seats, None
  <2> QED BY <1>10, <1>14, <2>1 DEF BlindsAt, Anchored, Positions
<1>15. ASSUME NEW u, NonFoldedSeats(dealt) \subseteq NonFoldedSeats(u)
       PROVE  Cardinality(NonFoldedSeats(u)) >= 2
  <2>1. NonFoldedSeats(u) \in SUBSET Seats
    BY DEF NonFoldedSeats
  <2>2. IsFiniteSet(NonFoldedSeats(u)) /\ Active(game) \subseteq NonFoldedSeats(u)
    BY <1>11, <1>15, <2>1, FiniteSeats
  <2>3. Cardinality(Active(game)) <= Cardinality(NonFoldedSeats(u))
    BY <2>2, FS_Subset
  <2>4. Cardinality(Active(game)) \in Nat /\ Cardinality(NonFoldedSeats(u)) \in Nat
    BY <2>1, FiniteSeats, ActiveInSeats
  <2> QED BY <1>7, <2>3, <2>4
<1>16. CASE bomb
  <2> DEFINE u == OpenBombPot(dealt, pos)
  <2>1. /\ OnlyDealt(u) /\ NonFoldedSeats(dealt) \subseteq NonFoldedSeats(u) /\ TurnOn(u)
        /\ u.street = "flop" /\ u.currentBet = 0 /\ u.minRaise = BigBlind
        /\ u.potLimit = dealt.potLimit
        /\ u.bet = NoBets /\ \A s \in CanAct(u) : u.contrib[s] = BombSize
        /\ Occupied(dealt) \subseteq Occupied(u) /\ BlindsAt(u, pos)
    BY <1>10, <1>11, <1>12, OpenBombPotLive DEF BombSize
  <2> HIDE DEF u
  <2>2. Opened(u)
    BY <1>15, <2>1 DEF Opened
  <2>3. u.potLimit = t.potLimit
    BY <1>4, <1>8, <1>11, <2>1
  <2>4. Occupied(t) \subseteq Occupied(u) /\ Anchored(u)
    BY <1>13, <1>14, <2>1
  <2> QED BY <1>1, <1>16, <2>1, <2>2, <2>3, <2>4 DEF u
<1>17. CASE ~bomb
  <2> DEFINE u == OpenWithBlinds(dealt, pos, straddle)
  <2>1. /\ Within(dealt, u, dealt.cards) /\ TurnOn(u) /\ u.currentBet >= BigBlind
        /\ BlindsAt(u, pos)
    BY <1>10, <1>11, <1>12, OpenWithBlindsLive
  <2> HIDE DEF u
  <2>2. OnlyDealt(u)
    BY <1>11, <2>1, WithinCards
  <2>3. Cardinality(NonFoldedSeats(u)) >= 2
    BY <1>15, <2>1 DEF Within
  <2>4. u.street = "preflop" /\ u.minRaise = BigBlind /\ u.potLimit = dealt.potLimit
    BY <1>11, <2>1 DEF Within
  <2>5. Opened(u)
    BY <2>1, <2>2, <2>3, <2>4 DEF Opened
  <2>6. u.potLimit = t.potLimit
    BY <1>4, <1>8, <1>11, <2>4
  <2>7. Occupied(t) \subseteq Occupied(u) /\ Anchored(u)
    BY <1>13, <1>14, <2>1 DEF Within
  <2> QED BY <1>1, <1>17, <2>4, <2>5, <2>6, <2>7 DEF u
<1> QED BY <1>16, <1>17

(* With fewer than two players ready nothing happens to the seats, and     *)
(* nobody holds cards.                                                     *)
LEMMA StartHandFew ==
  ASSUME NEW t \in Tables, Cardinality(Ready(t)) < 2, NEW straddle, NEW bomb
  PROVE  LET u == StartHand(t, straddle, bomb)
         IN  /\ u.status = t.status /\ u.cards = {}
             /\ u.sbSeat = t.sbSeat /\ u.bbSeat = t.bbSeat
<1> DEFINE fresh == [t EXCEPT !.pot = 0, !.currentBet = BigBlind, !.minRaise = BigBlind,
                              !.board = 0, !.cards = {}, !.acted = {}, !.aggressor = None,
                              !.street = "preflop"]
           waiting == [fresh EXCEPT !.street = "waiting"]
<1>1. Cardinality(Active(t)) < 2
  <2>1. Active(t) \subseteq Ready(t) /\ Ready(t) \in SUBSET Seats
    BY ActiveInSeats DEF Active, Ready
  <2>2. Cardinality(Active(t)) <= Cardinality(Ready(t))
    BY <2>1, FiniteSeats, FS_Subset
  <2>3. Cardinality(Active(t)) \in Nat /\ Cardinality(Ready(t)) \in Nat
    BY <2>1, FiniteSeats, ActiveInSeats
  <2> QED BY <2>2, <2>3
<1>2. StartHand(t, straddle, bomb) = waiting
  BY <1>1 DEF StartHand
<1>3. /\ waiting.status = t.status /\ waiting.cards = {}
      /\ waiting.sbSeat = t.sbSeat /\ waiting.bbSeat = t.bbSeat
  BY DEF Tables
<1> QED BY <1>2, <1>3

(* The anchors of the blinds stay where they are. *)
SameAnchors(t, u) == u.sbSeat = t.sbSeat /\ u.bbSeat = t.bbSeat

LEMMA ActionAnchors ==
  ASSUME NEW t \in Tables, NEW s, NEW asked
  PROVE  /\ SameAnchors(t, Acts(t, s)) /\ SameAnchors(t, Fold(t, s))
         /\ SameAnchors(t, Call(t, s)) /\ SameAnchors(t, Raise(t, s, asked))
         /\ SameAnchors(t, AdvanceAction(t))
<1>1. SameAnchors(t, Acts(t, s)) /\ SameAnchors(t, Fold(t, s))
  BY DEF SameAnchors, Acts, Fold, Tables
<1>2. SameAnchors(t, Call(t, s))
  BY DEF SameAnchors, Call, Collect, AllInIfFelted, Acts, Tables
<1>3. SameAnchors(t, Raise(t, s, asked))
  BY DEF SameAnchors, Raise, Collect, AllInIfFelted, Tables
<1>4. SameAnchors(t, AdvanceAction(t))
  BY DEF SameAnchors, AdvanceAction, AdvanceStreet, Tables
<1> QED BY <1>1, <1>2, <1>3, <1>4

LEMMA OnlyDealtContend ==
  ASSUME NEW t, OnlyDealt(t)
  PROVE  Contenders(t) = NonFoldedSeats(t)
BY DEF OnlyDealt, Contenders

----------------------------------------------------------------------------
(* The turns of a hand. *)

(* What every accepted action of seat s makes of table t before the turn   *)
(* moves on.                                                               *)
ActedOn(t, u, s) ==
  /\ ActionOf(t, u, s) /\ Wagered(t, u) /\ Playable(u)
  /\ SameChips(t, u) /\ SameAnchors(t, u)

LEMMA ActsOn ==
  ASSUME NEW t, Playable(t), NEW s \in Seats
  PROVE  ActedOn(t, Acts(t, s), s) /\ ActedOn(t, Fold(t, s), s)
<1>1. t \in Tables
  BY DEF Playable, Sound
<1>2. ActionOf(t, Acts(t, s), s) /\ ActionOf(t, Fold(t, s), s)
  BY <1>1, ActsKeeps, FoldKeeps
<1>3. Wagered(t, Acts(t, s)) /\ Wagered(t, Fold(t, s))
  BY <1>1, ActsWager
<1>4. /\ Playable(Acts(t, s)) /\ SameChips(t, Acts(t, s))
      /\ Playable(Fold(t, s)) /\ SameChips(t, Fold(t, s))
  BY ActsSound, FoldSound
<1>5. SameAnchors(t, Acts(t, s)) /\ SameAnchors(t, Fold(t, s))
  BY <1>1, ActionAnchors
<1> QED BY <1>2, <1>3, <1>4, <1>5 DEF ActedOn

LEMMA CallOn ==
  ASSUME NEW t, Playable(t), NEW s \in Seats
  PROVE  ActedOn(t, Call(t, s), s)
<1>1. ActionOf(t, Call(t, s), s)
  BY CallKeeps
<1>2. SameAnchors(t, Call(t, s))
  BY ActionAnchors DEF Playable, Sound
<1> QED BY <1>1, <1>2, CallWager, CallSound DEF ActedOn

LEMMA RaiseOn ==
  ASSUME NEW t, Playable(t), NEW s \in Seats, NEW asked \in Nat, CanRaise(t, s, asked)
  PROVE  ActedOn(t, Raise(t, s, asked), s)
<1>1. ActionOf(t, Raise(t, s, asked), s)
  BY RaiseKeeps
<1>2. SameAnchors(t, Raise(t, s, asked))
  BY ActionAnchors DEF Playable, Sound
<1> QED BY <1>1, <1>2, RaiseWager, RaiseSound DEF ActedOn

(* Sitting a player out is no part of the action. *)
LEMMA SatOutOn ==
  ASSUME NEW t \in Tables, NEW u, NEW s, ActedOn(t, u, s), NEW sittingOut \in SUBSET Seats
  PROVE  ActedOn(t, [u EXCEPT !.sittingOut = sittingOut], s)
<1> DEFINE v == [u EXCEPT !.sittingOut = sittingOut]
<1>1. Playable(u) /\ u \in Tables
  BY DEF ActedOn, Playable, Sound
<1>2. /\ v \in Tables /\ v.stack = u.stack /\ v.contrib = u.contrib /\ v.pot = u.pot
      /\ v.bet = u.bet /\ v.currentBet = u.currentBet
  BY <1>1 DEF Tables
<1>3. /\ v.street = u.street /\ v.cards = u.cards /\ v.button = u.button
      /\ v.action = u.action /\ v.acted = u.acted /\ v.status = u.status
      /\ v.potLimit = u.potLimit /\ v.minRaise = u.minRaise
      /\ v.sbSeat = u.sbSeat /\ v.bbSeat = u.bbSeat
  BY <1>1 DEF Tables
<1> HIDE DEF v
<1>4. Playable(v) /\ SameChips(t, v) /\ SameAnchors(t, v)
  <2>1. Playable(v) /\ SameChips(u, v)
    BY <1>1, <1>2, StatusChange
  <2> QED BY <1>1, <1>2, <1>3, <2>1, SameChipsTrans DEF ActedOn, SameAnchors
<1>5. ActionOf(t, v, s)
  BY <1>2, <1>3 DEF ActedOn, ActionOf
<1>6. Wagered(t, v)
  BY <1>2, <1>3 DEF ActedOn, Wagered, CanAct
<1> QED BY <1>4, <1>5, <1>6 DEF ActedOn, v

(* A turn, whoever takes it, is an action of the seat it is on.            *)
LEMMA TurnTaken ==
  ASSUME Playable(table), Act
  PROVE  /\ Turn /\ table.action \in Seats
         /\ \E acted : ActedOn(table, acted, table.action) /\ After(acted)
<1> DEFINE seat == table.action
<1>1. Playable(table) /\ table \in Tables
  BY DEF Playable, Sound
<1>2. Turn
  BY DEF Act, PlayerFold, PlayerCheck, PlayerCall, PlayerRaise, PlayerShove, TimeOut
<1>3. seat \in Seats
  BY <1>2, ActiveInSeats DEF Turn
<1>4. SUFFICES \E acted : ActedOn(table, acted, seat) /\ After(acted)
  BY <1>2, <1>3
<1>5. CASE PlayerFold
  BY <1>1, <1>3, <1>5, ActsOn DEF PlayerFold
<1>6. CASE PlayerCheck
  BY <1>1, <1>3, <1>6, ActsOn DEF PlayerCheck, Check
<1>7. CASE PlayerCall
  BY <1>1, <1>3, <1>7, CallOn DEF PlayerCall
<1>8. ASSUME NEW asked \in Nat, RaiseTo(asked)
      PROVE  \E acted : ActedOn(table, acted, seat) /\ After(acted)
  BY <1>1, <1>3, <1>8, RaiseOn DEF RaiseTo
<1>9. CASE PlayerRaise
  <2>1. PICK asked \in 0 .. MaxAmount : RaiseTo(asked)
    BY <1>9 DEF PlayerRaise
  <2>2. asked \in Nat
    BY TogglesAssumption
  <2> QED BY <1>8, <2>1, <2>2
<1>10. CASE PlayerShove
  <2>1. RaiseTo(ShoveTotal(table, seat)) /\ ShoveTotal(table, seat) \in Nat
    BY <1>1, <1>3, <1>10, ShoveTotalType DEF PlayerShove
  <2> HIDE DEF seat
  <2> QED BY <1>8, <2>1
<1>11. CASE TimeOut
  <2> DEFINE acted == IF CanCheck(table, seat) THEN Check(table, seat) ELSE Fold(table, seat)
  <2>1. PICK away \in {FALSE, AutoAway} :
          After([acted EXCEPT !.sittingOut = IF away THEN @ \cup {seat} ELSE @])
    BY <1>11 DEF TimeOut
  <2> DEFINE sittingOut == IF away THEN acted.sittingOut \cup {seat} ELSE acted.sittingOut
             u == [acted EXCEPT !.sittingOut = sittingOut]
  <2>2. ActedOn(table, acted, seat)
    BY <1>1, <1>3, ActsOn DEF Check
  <2> HIDE DEF acted, seat
  <2>3. acted.sittingOut \in SUBSET Seats
    BY <2>2 DEF ActedOn, Playable, Sound, Tables
  <2>4. sittingOut \in SUBSET Seats
    BY <1>3, <2>3
  <2>5. After(u)
    BY <2>1
  <2> HIDE DEF sittingOut
  <2>6. ActedOn(table, u, seat)
    BY <1>1, <2>2, <2>4, SatOutOn
  <2> QED BY <2>5, <2>6
<1> QED BY <1>5, <1>6, <1>7, <1>9, <1>10, <1>11 DEF Act

(* Where a turn ends: with the action itself, if it leaves one contender,  *)
(* or with the turn, and perhaps the street, moved on.                     *)
LEMMA TurnEnds ==
  ASSUME NEW acted \in Tables, After(acted)
  PROVE  \/ /\ Uncontested(acted) /\ table' = acted /\ phase' = "resolving_sidepots"
         \/ /\ ~Uncontested(acted) /\ Advanced(acted, table')
            /\ \/ BettingOver(table') /\ phase' = "resolving_sidepots"
               \/ ~BettingOver(table') /\ phase' = "betting"
<1>1. Advanced(acted, AdvanceAction(acted))
  BY AdvanceKeeps
<1> QED BY <1>1 DEF After, BeginShowdown

(* What a turn leaves behind, whichever way the betting goes on.           *)
LEMMA AfterSound ==
  ASSUME table \in Tables, NEW acted, NEW s, ActedOn(table, acted, s), After(acted)
  PROVE  /\ Playable(table') /\ SameChips(table, table') /\ SameAnchors(table, table')
         /\ phase' \in {"betting", "resolving_sidepots"}
<1>1. /\ Playable(acted) /\ SameChips(table, acted) /\ SameAnchors(table, acted)
      /\ acted \in Tables
  BY DEF ActedOn, Playable, Sound
<1>2. /\ Playable(AdvanceAction(acted)) /\ SameChips(acted, AdvanceAction(acted))
      /\ SameAnchors(acted, AdvanceAction(acted)) /\ AdvanceAction(acted) \in Tables
  BY <1>1, AdvanceActionSound, ActionAnchors DEF Playable, Sound
<1>3. SameChips(table, AdvanceAction(acted)) /\ SameAnchors(table, AdvanceAction(acted))
  BY <1>1, <1>2, SameChipsTrans DEF SameAnchors
<1>4. table' \in {acted, AdvanceAction(acted)} /\ phase' \in {"betting", "resolving_sidepots"}
  BY DEF After, BeginShowdown
<1> QED BY <1>1, <1>2, <1>3, <1>4
=============================================================================
