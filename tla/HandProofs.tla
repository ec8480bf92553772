----------------------------- MODULE HandProofs -----------------------------
(***************************************************************************)
(* Theorems about Hand for every number of seats, blinds, stacks, table    *)
(* options, rakes, buy-ins and numbers of hands: what the showdown may     *)
(* rely on when it comes to pay the pots, who is paid how much, where the  *)
(* chips go, and what is left behind.                                      *)
(***************************************************************************)
EXTENDS Hand, PokerTableProofs

----------------------------------------------------------------------------
(* The pots. *)

LEMMA DivNat ==
  ASSUME NEW a \in Nat, NEW n \in Nat \ {0}
  PROVE  a \div n \in Nat
OBVIOUS

(* A number is so many times another, and the remainder. *)
LEMMA Division ==
  ASSUME NEW a \in Nat, NEW n \in Nat \ {0}
  PROVE  /\ a = n * (a \div n) + (a % n)
         /\ a \div n \in Nat /\ a % n \in Nat /\ a % n < n
OBVIOUS

(* The distinct stakes are finitely many. *)
LEMMA LevelsFinite ==
  ASSUME NEW t \in Tables
  PROVE  IsFiniteSet(Levels(t)) /\ Levels(t) \in SUBSET (Nat \ {0})
<1> DEFINE stakes == {t.contrib[s] : s \in Seats}
<1>1. t.contrib \in [Seats -> Nat]
  BY DEF Tables
<1>2. t.contrib \in Surjection(Seats, stakes)
  BY <1>1 DEF Surjection
<1>3. IsFiniteSet(stakes)
  BY <1>2, FiniteSeats, FS_Surjection
<1>4. Levels(t) \in SUBSET stakes
  BY DEF Levels
<1>5. Levels(t) \in SUBSET (Nat \ {0})
  BY <1>1 DEF Levels
<1> HIDE DEF stakes
<1> QED BY <1>3, <1>4, <1>5, FS_Subset

(* The next stake under one: there is none between. *)
LEMMA BelowNext ==
  ASSUME NEW t \in Tables, NEW level \in Levels(t)
  PROVE  /\ Below(t, level) \in {0} \cup Levels(t) /\ Below(t, level) < level
         /\ \A l \in {0} \cup Levels(t) : l < level => l <= Below(t, level)
<1> DEFINE lower == {l \in {0} \cup Levels(t) : l < level}
           gaps  == {level - l : l \in lower}
<1>1. Levels(t) \in SUBSET (Nat \ {0})
  BY LevelsFinite
<1>2. level \in Nat /\ 0 \in lower /\ lower \in SUBSET Nat
  BY <1>1
<1>3. gaps \in SUBSET Nat /\ level - 0 \in gaps
  BY <1>2
<1>4. PICK gap \in gaps : \A other \in gaps : ~(other < gap)
  BY <1>3, LeastOf
<1>5. PICK low \in lower : gap = level - low
  BY <1>4
<1>6. \A l \in lower : l <= low
  <2> TAKE l \in lower
  <2>1. level - l \in gaps
    OBVIOUS
  <2>2. ~(level - l < level - low)
    BY <1>4, <1>5, <2>1
  <2> QED BY <1>2, <1>5, <2>2
<1>7. \E high \in lower : \A l \in lower : l <= high
  BY <1>6
<1>8. Below(t, level) = CHOOSE high \in lower : \A l \in lower : l <= high
  BY DEF Below
<1>9. Below(t, level) \in lower /\ \A l \in lower : l <= Below(t, level)
  BY <1>7, <1>8
<1> QED BY <1>9

LEMMA BelowType ==
  ASSUME NEW t \in Tables, NEW level \in Levels(t)
  PROVE  Below(t, level) \in Nat /\ Below(t, level) < level
BY LevelsFinite, BelowNext

(* Nobody without a seat has anything in it. *)
EmptyBare(t) ==
  \A s \in Seats : t.status[s] = "empty" => t.stack[s] = 0 /\ t.contrib[s] = 0

(* A pot can be won, and by seats still in the hand. *)
Winnable(pot, t) == pot.eligible # {} /\ pot.eligible \subseteq NonFoldedSeats(t)

(* Pots are told apart by their levels. *)
ApartByLevel(pots) == \A p, q \in pots : p.level = q.level => p = q

LEMMA ProductNat ==
  ASSUME NEW a \in Nat, NEW b \in Nat PROVE a * b \in Nat
OBVIOUS

LEMMA LayerSound ==
  ASSUME NEW t \in Tables, EmptyBare(t), NEW level \in Levels(t)
  PROVE  /\ Layer(t, level) \in Pots
         /\ Layer(t, level).eligible \subseteq NonFoldedSeats(t)
<1> DEFINE payers == {s \in Seats : t.contrib[s] >= level}
           gap == level - Below(t, level)
           amount == gap * Cardinality(payers)
           eligible == {s \in payers : t.status[s] # "folded"}
<1>1. level \in Nat \ {0} /\ Below(t, level) \in Nat /\ Below(t, level) < level
  BY LevelsFinite, BelowType
<1>2. payers \in SUBSET Seats
  OBVIOUS
<1>3. gap \in Nat /\ Cardinality(payers) \in Nat
  BY <1>1, <1>2, FiniteSeats
<1>4. amount \in Nat
  BY <1>3, ProductNat
<1>5. ASSUME NEW s \in eligible PROVE s \in NonFoldedSeats(t)
  <2>1. s \in Seats /\ t.contrib[s] \in Nat /\ t.contrib[s] >= level
        /\ t.status[s] \in SeatStatus /\ t.status[s] # "folded"
    BY <1>5 DEF Tables
  <2>2. t.status[s] # "empty"
    BY <1>1, <2>1 DEF EmptyBare
  <2> QED BY <2>1, <2>2 DEF SeatStatus, NonFoldedSeats
<1>6. eligible \in SUBSET Seats
  OBVIOUS
<1>7. Layer(t, level) = [level |-> level, amount |-> amount, eligible |-> eligible]
  BY DEF Layer
<1> HIDE DEF amount, eligible
<1> QED BY <1>1, <1>4, <1>5, <1>6, <1>7 DEF Pots

LEMMA WholePotSound ==
  ASSUME NEW t \in Tables, NEW eligible \in SUBSET Seats, eligible # {},
         eligible \subseteq NonFoldedSeats(t)
  PROVE  LET pots == WholePot(t, eligible)
         IN  /\ IsFiniteSet(pots) /\ pots \subseteq Pots /\ ApartByLevel(pots)
             /\ \A pot \in pots : Winnable(pot, t)
<1> DEFINE pot == [level |-> 0, amount |-> t.pot, eligible |-> eligible]
<1>1. WholePot(t, eligible) = {pot}
  BY DEF WholePot
<1>2. pot \in Pots /\ pot.eligible = eligible
  BY DEF Pots, Tables
<1> HIDE DEF pot
<1>3. IsFiniteSet({pot})
  BY FS_Singleton
<1>4. ApartByLevel({pot})
  BY DEF ApartByLevel
<1> QED BY <1>1, <1>2, <1>3, <1>4 DEF Winnable

(* The plan of a showdown: finitely many pots that can all be won.         *)
LEMMA PlannedSound ==
  ASSUME NEW t \in Tables, EmptyBare(t), Contenders(t) # {}
  PROVE  /\ IsFiniteSet(PlannedPots(t)) /\ PlannedPots(t) \subseteq Pots
         /\ ApartByLevel(PlannedPots(t))
         /\ \A pot \in PlannedPots(t) : Winnable(pot, t)
<1>1. /\ Contenders(t) \in SUBSET Seats /\ NonFoldedSeats(t) \in SUBSET Seats
      /\ Contenders(t) \subseteq NonFoldedSeats(t) /\ NonFoldedSeats(t) # {}
  BY DEF Contenders, NonFoldedSeats
<1>2. CASE Uncontested(t)
  BY <1>1, <1>2, WholePotSound DEF PlannedPots
<1>3. CASE ~Uncontested(t) /\ Levels(t) # {}
  <2> DEFINE layers == {Layer(t, level) : level \in Levels(t)}
             cut == [level \in Levels(t) |-> Layer(t, level)]
  <2>1. cut \in Surjection(Levels(t), layers)
    BY DEF Surjection
  <2>2. IsFiniteSet(layers)
    BY <2>1, LevelsFinite, FS_Surjection
  <2>3. \A pot \in layers : pot \in Pots /\ pot.eligible \subseteq NonFoldedSeats(t)
    BY LayerSound
  <2>4. PlannedPots(t) = {pot \in layers : pot.eligible # {}}
    BY <1>3 DEF PlannedPots, BuildSidePots
  <2>5. \A pot \in layers : pot = Layer(t, pot.level)
    <3>1. \A level : Layer(t, level).level = level
      BY DEF Layer
    <3> QED BY <3>1
  <2> HIDE DEF layers
  <2>6. ApartByLevel(PlannedPots(t))
    BY <2>4, <2>5 DEF ApartByLevel
  <2>7. IsFiniteSet(PlannedPots(t))
    BY <2>2, <2>4, FS_Subset
  <2> QED BY <2>3, <2>4, <2>6, <2>7 DEF Winnable
<1>4. CASE ~Uncontested(t) /\ Levels(t) = {}
  <2>1. PlannedPots(t) \in {WholePot(t, NonFoldedSeats(t)), {}}
    BY <1>4 DEF PlannedPots, BuildSidePots
  <2>2. IsFiniteSet({}) /\ ApartByLevel({})
    BY FS_EmptySet DEF ApartByLevel
  <2> QED BY <1>1, <2>1, <2>2, WholePotSound
<1> QED BY <1>2, <1>3, <1>4

----------------------------------------------------------------------------
(* What the pots hold. *)

(* What is in the pots of levels L, and in what is resolved of them. *)
OfLevels(L, rows) == [row \in rows |-> IF row.level \in L THEN row.amount ELSE 0]

(* What the stakes match of one of them. *)
Matched(t, stake) == Total([r \in Seats |-> Lesser(t.contrib[r], stake)])

(* The chips in the layers up to a stake. *)
LayersUpTo(t, stake) ==
  [level \in Levels(t) |-> IF level <= stake THEN Layer(t, level).amount ELSE 0]

LEMMA StakeType ==
  ASSUME NEW t \in Tables, NEW r \in Seats
  PROVE  t.contrib[r] \in Nat /\ t.contrib[r] \in {0} \cup Levels(t)
BY DEF Tables, Levels

(* One layer more matches that much more of every stake that reaches it.   *)
LEMMA MatchedNext ==
  ASSUME NEW t \in Tables, NEW level \in Levels(t)
  PROVE  Matched(t, level) = Matched(t, Below(t, level)) + Layer(t, level).amount
<1> DEFINE low == Below(t, level)
           gap == level - low
           payers == {s \in Seats : t.contrib[s] >= level}
           under == [r \in Seats |-> Lesser(t.contrib[r], low)]
           more == [r \in Seats |-> IF r \in payers THEN gap ELSE 0]
           upto == [r \in Seats |-> Lesser(t.contrib[r], level)]
<1>1. /\ level \in Nat /\ low \in Nat /\ low < level
      /\ \A l \in {0} \cup Levels(t) : l < level => l <= low
  BY LevelsFinite, BelowType, BelowNext
<1>2. Layer(t, level).amount = gap * Cardinality(payers)
  BY DEF Layer
<1>3. payers \in SUBSET Seats
  OBVIOUS
<1> HIDE DEF low
<1>4. ASSUME NEW r \in Seats
      PROVE  under[r] \in Nat /\ more[r] \in Nat /\ upto[r] = under[r] + more[r]
  <2>1. PICK c \in Nat : c = t.contrib[r] /\ c \in {0} \cup Levels(t)
    BY StakeType
  <2>2. c >= level \/ c <= low
    BY <1>1, <2>1
  <2>3. /\ under[r] = Lesser(c, low) /\ upto[r] = Lesser(c, level)
        /\ more[r] = IF c >= level THEN gap ELSE 0
    BY <2>1
  <2> HIDE DEF under, upto, more, payers
  <2> QED BY <1>1, <2>2, <2>3 DEF Lesser
<1>5. /\ \A r \in Seats : more[r] \in Nat
      /\ \A r \in Seats \ payers : more[r] = 0
      /\ \A r \in payers : more[r] = gap
  BY <1>1
<1>6. gap \in Nat
  BY <1>1
<1> HIDE DEF under, more, upto, payers, gap
<1>7. /\ IsFiniteSet(Seats) /\ IsFiniteSet(payers) /\ Cardinality(payers) \in Nat
  BY <1>3, FiniteSeats
<1>8. SumFunctionOnSet(upto, Seats)
        = SumFunctionOnSet(under, Seats) + SumFunctionOnSet(more, Seats)
  BY <1>4, <1>7, SumOfSums
<1>9. SumFunctionOnSet(more, Seats) = gap * Cardinality(payers)
  <2>1. SumFunctionOnSet(more, Seats) = SumFunctionOnSet(more, payers)
    BY <1>3, <1>5, <1>7, SumZeroOutside
  <2>2. SumFunctionOnSet(more, payers) = Cardinality(payers) * gap
    BY <1>5, <1>6, <1>7, SumOfConstant
  <2>3. Cardinality(payers) * gap = gap * Cardinality(payers)
    BY <1>6, <1>7
  <2> QED BY <2>1, <2>2, <2>3
<1> QED BY <1>2, <1>8, <1>9 DEF Matched, Total, upto, under, low

(* The layers up to a stake hold what it is matched by. *)
LEMMA LayersAddUp ==
  ASSUME NEW t \in Tables, EmptyBare(t)
  PROVE  \A stake \in {0} \cup Levels(t) :
           SumFunctionOnSet(LayersUpTo(t, stake), Levels(t)) = Matched(t, stake)
<1> DEFINE stakes == {0} \cup Levels(t)
           Wrong(m) == SumFunctionOnSet(LayersUpTo(t, m), Levels(t)) # Matched(t, m)
           Bad == {m \in stakes : Wrong(m)}
<1>1. IsFiniteSet(Levels(t)) /\ Levels(t) \in SUBSET (Nat \ {0})
  BY LevelsFinite
<1>2. ASSUME NEW m \in stakes
      PROVE  \A level \in Levels(t) : LayersUpTo(t, m)[level] \in Nat
  <2> TAKE level \in Levels(t)
  <2>1. Layer(t, level).amount \in Nat
    BY LayerSound DEF Pots
  <2> QED BY <2>1 DEF LayersUpTo
<1>3. ASSUME Bad # {} PROVE FALSE
  <2>1. Bad \in SUBSET Nat
    BY <1>1
  <2>2. PICK m \in Bad : \A y \in Bad : ~(y < m)
    <3> HIDE DEF Bad
    <3> QED BY <1>3, <2>1, LeastOf
  <2>3. CASE m = 0
    <3>1. \A level \in Levels(t) : LayersUpTo(t, m)[level] = 0
      BY <1>1, <2>3 DEF LayersUpTo
    <3>2. SumFunctionOnSet(LayersUpTo(t, m), Levels(t)) = 0
      BY <1>1, <3>1, SumOfZeros
    <3> DEFINE none == [r \in Seats |-> Lesser(t.contrib[r], m)]
    <3>3. \A r \in Seats : none[r] = 0
      BY <2>3, StakeType DEF Lesser
    <3>4. Matched(t, m) = SumFunctionOnSet(none, Seats)
      BY DEF Matched, Total
    <3> HIDE DEF none
    <3>5. Matched(t, m) = 0
      BY <3>3, <3>4, FiniteSeats, SumOfZeros
    <3> QED BY <2>2, <3>2, <3>5
  <2>4. CASE m # 0
    <3>1. m \in Levels(t) /\ m \in Nat
      BY <1>1, <2>4
    <3>2. PICK low : low = Below(t, m)
      OBVIOUS
    <3>3. /\ low \in stakes /\ low \in Nat /\ low < m
          /\ \A l \in Levels(t) : l < m => l <= low
      BY <3>1, <3>2, BelowType, BelowNext
    <3>4. low \notin Bad
      BY <2>2, <3>3
    <3>5. ~Wrong(low)
      BY <3>3, <3>4
    <3> DEFINE all == LayersUpTo(t, m)
               less == LayersUpTo(t, low)
               top == [level \in Levels(t) |-> IF level = m THEN Layer(t, m).amount ELSE 0]
    <3>6. Layer(t, m).amount \in Nat
      BY <3>1, LayerSound DEF Pots
    <3>7. /\ \A level \in Levels(t) : top[level] \in Nat
          /\ \A level \in Levels(t) \ {m} : top[level] = 0
          /\ top[m] = Layer(t, m).amount
      BY <3>1, <3>6
    <3>8. ASSUME NEW level \in Levels(t)
          PROVE  less[level] \in Nat /\ top[level] \in Nat /\ all[level] = less[level] + top[level]
      <4>1. PICK a \in Nat : a = Layer(t, level).amount
        BY LayerSound DEF Pots
      <4>2. /\ all[level] = (IF level <= m THEN a ELSE 0)
            /\ less[level] = (IF level <= low THEN a ELSE 0)
            /\ top[level] = (IF level = m THEN a ELSE 0)
        BY <4>1 DEF LayersUpTo
      <4>3. level \in Nat /\ (level < m => level <= low)
        BY <1>1, <3>3
      <4> HIDE DEF all, less, top
      <4> QED BY <3>1, <3>3, <4>2, <4>3
    <3>9. ~Wrong(low) /\ Wrong(m)
      BY <2>2, <3>5
    <3> HIDE DEF top, all, less, Bad
    <3>10. SumFunctionOnSet(top, Levels(t)) = Layer(t, m).amount
      <4>1. SumFunctionOnSet(top, Levels(t)) = SumFunctionOnSet(top, {m})
        <5>1. {m} \in SUBSET Levels(t)
          BY <3>1
        <5> QED BY <1>1, <3>7, <5>1, SumZeroOutside
      <4> QED BY <3>6, <3>7, <4>1, SumOfOne
    <3>11. SumFunctionOnSet(all, Levels(t))
             = SumFunctionOnSet(less, Levels(t)) + SumFunctionOnSet(top, Levels(t))
      BY <1>1, <3>8, SumOfSums
    <3>12. Matched(t, m) = Matched(t, low) + Layer(t, m).amount
      BY <3>1, <3>2, MatchedNext
    <3> QED BY <3>9, <3>10, <3>11, <3>12 DEF all, less
  <2> QED BY <2>3, <2>4
<1> QED BY <1>3

(* What BuildSidePots makes of a pot that somebody has paid into. *)
Pieces(t) == {pot \in {Layer(t, level) : level \in Levels(t)} : pot.eligible # {}}

(* The pots up to a stake hold what it is matched by, if each of them can  *)
(* be won.                                                                 *)
LEMMA PotsAddUp ==
  ASSUME NEW t \in Tables, EmptyBare(t), NEW stake \in Levels(t),
         \A level \in Levels(t) : level <= stake => Layer(t, level).eligible # {},
         NEW pots, pots = Pieces(t)
  PROVE  SumFunctionOnSet(OfLevels(0 .. stake, pots), pots) = Matched(t, stake)
<1> DEFINE f == OfLevels(0 .. stake, pots)
           g == LayersUpTo(t, stake)
           own == [pot \in pots |-> pot.level]
           cut == [level \in Levels(t) |-> Layer(t, level)]
           layers == {Layer(t, level) : level \in Levels(t)}
<1>1. IsFiniteSet(Levels(t)) /\ Levels(t) \in SUBSET (Nat \ {0})
  BY LevelsFinite
<1>2. \A level \in Levels(t) : /\ cut[level] = Layer(t, level) /\ cut[level].level = level
                               /\ cut[level].amount \in Nat
  <2> TAKE level \in Levels(t)
  <2>1. Layer(t, level).level = level
    BY DEF Layer
  <2>2. Layer(t, level).amount \in Nat
    BY LayerSound DEF Pots
  <2> QED BY <2>1, <2>2
<1>3. IsFiniteSet(pots)
  <2>1. cut \in Surjection(Levels(t), layers)
    BY DEF Surjection
  <2>2. IsFiniteSet(layers)
    BY <1>1, <2>1, FS_Surjection
  <2>3. pots \in SUBSET layers
    BY DEF Pieces
  <2> HIDE DEF layers
  <2> QED BY <2>2, <2>3, FS_Subset
<1>4. \A pot \in pots : \E level \in Levels(t) : pot = cut[level]
  BY DEF Pieces
<1>5. \A level \in Levels(t) : cut[level] \in pots <=> cut[level].eligible # {}
  BY DEF Pieces
<1>6. \A level \in Levels(t) : level <= stake => cut[level] \in pots
  BY <1>5
<1>7. \A level \in Levels(t) : g[level] = IF level <= stake THEN cut[level].amount ELSE 0
  BY <1>2 DEF LayersUpTo
<1>8. \A pot \in pots : f[pot] = IF pot.level \in 0 .. stake THEN pot.amount ELSE 0
  BY DEF OfLevels
<1> HIDE DEF f, g, cut
<1>9. own \in [pots -> Levels(t)] /\ \A pot \in pots : pot = cut[own[pot]]
  BY <1>2, <1>4
<1>10. \A pot \in pots : own[pot] = pot.level
  OBVIOUS
<1> HIDE DEF own
<1>11. stake \in Nat
  BY <1>1
<1>12. \A pot \in pots : f[pot] \in Nat
  BY <1>2, <1>4, <1>8
<1>13. ASSUME NEW level \in Levels(t)
       PROVE  g[level] = SumFunctionOnSet(f, OwnedBy(own, pots, level))
  <2>1. CASE cut[level] \in pots
    <3>1. OwnedBy(own, pots, level) = {cut[level]}
      BY <1>2, <1>9, <1>10, <2>1 DEF OwnedBy
    <3>2. level \in Nat /\ f[cut[level]] = g[level]
      BY <1>1, <1>2, <1>7, <1>8, <1>11, <2>1
    <3>3. f[cut[level]] \in Nat
      BY <1>12, <2>1
    <3> QED BY <3>1, <3>2, <3>3, SumOfOne
  <2>2. CASE cut[level] \notin pots
    <3>1. OwnedBy(own, pots, level) = {}
      BY <1>9, <2>2 DEF OwnedBy
    <3>2. g[level] = 0
      BY <1>6, <1>7, <2>2
    <3> QED BY <3>1, <3>2, SumOfNone
  <2> QED BY <2>1, <2>2
<1>14. SumFunctionOnSet(f, pots) = SumFunctionOnSet(g, Levels(t))
  <2>1. PICK T : T = Levels(t)
    OBVIOUS
  <2>2. IsFiniteSet(T) /\ own \in [pots -> T]
    BY <1>1, <1>9, <2>1
  <2>3. \A level \in T : g[level] = SumFunctionOnSet(f, OwnedBy(own, pots, level))
    BY <1>13, <2>1
  <2>4. SumFunctionOnSet(f, pots) = SumFunctionOnSet(g, T)
    BY <1>3, <1>12, <2>2, <2>3, SumByOwner
  <2> QED BY <2>1, <2>4
<1>15. SumFunctionOnSet(g, Levels(t)) = Matched(t, stake)
  BY LayersAddUp DEF g
<1> QED BY <1>14, <1>15 DEF f

----------------------------------------------------------------------------
(* The payouts. *)

(* What the showdown awards: finitely many amounts, each to some seats.    *)
Awards(R) ==
  /\ IsFiniteSet(R)
  /\ \A res \in R : res.amount \in Nat /\ res.winners \in SUBSET Seats

LEMMA OnBoardSound ==
  ASSUME NEW pot \in Pots, NEW b \in Nat, NEW boards \in Nat \ {0}, NEW rank
  PROVE  LET res == OnBoard(pot, b, boards, rank)
         IN  res.amount \in Nat /\ res.winners \in SUBSET Seats
<1> DEFINE odd == IF b <= pot.amount % boards THEN 1 ELSE 0
           amount == (pot.amount \div boards) + odd
           winners == WinnersAmong(pot.eligible, rank)
<1>1. pot.amount \in Nat /\ pot.eligible \in SUBSET Seats
  BY DEF Pots
<1>2. pot.amount \div boards \in Nat /\ odd \in Nat
  BY <1>1, DivNat
<1>3. amount \in Nat
  BY <1>2
<1>4. winners \in SUBSET Seats
  BY <1>1 DEF WinnersAmong
<1> HIDE DEF amount, winners
<1> QED BY <1>3, <1>4 DEF OnBoard, amount, winners

LEMMA ResolutionsSound ==
  ASSUME NEW pots \in SUBSET Pots, IsFiniteSet(pots), NEW boards \in Nat \ {0}, NEW ranks
  PROVE  Awards(Resolutions(pots, boards, ranks))
<1> DEFINE runs == pots \X (1 .. boards)
           run == [r \in runs |-> OnBoard(r[1], r[2], boards, ranks[r[2]])]
           all == Resolutions(pots, boards, ranks)
<1>1. IsFiniteSet(1 .. boards)
  BY FS_Interval
<1>2. IsFiniteSet(runs)
  BY <1>1, FS_Product
<1>3. ASSUME NEW res \in all
      PROVE  \E r \in runs : run[r] = res
  <2>1. PICK pot \in pots, b \in 1 .. boards : res = OnBoard(pot, b, boards, ranks[b])
    BY DEF Resolutions
  <2>2. <<pot, b>> \in runs
    OBVIOUS
  <2> QED BY <2>1, <2>2
<1>4. \A r \in runs : run[r] \in all
  BY DEF Resolutions
<1>5. run \in Surjection(runs, all)
  BY <1>3, <1>4 DEF Surjection
<1> HIDE DEF runs, run
<1>6. IsFiniteSet(all)
  BY <1>2, <1>5, FS_Surjection
<1>7. ASSUME NEW res \in all
      PROVE  res.amount \in Nat /\ res.winners \in SUBSET Seats
  <2>1. PICK pot \in pots, b \in 1 .. boards : res = OnBoard(pot, b, boards, ranks[b])
    BY DEF Resolutions
  <2>2. pot \in Pots /\ b \in Nat
    OBVIOUS
  <2> HIDE DEF all
  <2> QED BY <2>1, <2>2, OnBoardSound
<1> QED BY <1>6, <1>7 DEF Awards

(* The part of a pot that a board plays for. *)
Part(pot, b, boards) == (pot.amount \div boards) + (IF b <= pot.amount % boards THEN 1 ELSE 0)

LEMMA OnBoardIs ==
  ASSUME NEW pot, NEW b, NEW boards, NEW rank
  PROVE  LET res == OnBoard(pot, b, boards, rank)
         IN  /\ res.level = pot.level /\ res.board = b /\ res.amount = Part(pot, b, boards)
             /\ res.winners = WinnersAmong(pot.eligible, rank)
BY DEF OnBoard, Part

(* The boards play for the whole pot: the odd chips are as many as the     *)
(* boards that are given one.                                              *)
LEMMA BoardsAddUp ==
  ASSUME NEW pot \in Pots, NEW boards \in Nat \ {0},
         NEW f, \A b \in 1 .. boards : f[b] = Part(pot, b, boards)
  PROVE  /\ \A b \in 1 .. boards : f[b] \in Nat
         /\ SumFunctionOnSet(f, 1 .. boards) = pot.amount
<1> DEFINE B == 1 .. boards
           equal == pot.amount \div boards
           over == pot.amount % boards
           even == [b \in B |-> equal]
           odd == [b \in B |-> IF b <= over THEN 1 ELSE 0]
           lucky == 1 .. over
<1>1. pot.amount \in Nat
  BY DEF Pots
<1>2. pot.amount = boards * equal + over /\ equal \in Nat /\ over \in Nat /\ over < boards
  BY <1>1, Division
<1>3. \A b \in B : f[b] = equal + (IF b <= over THEN 1 ELSE 0)
  BY DEF Part
<1> HIDE DEF equal, over
<1>4. /\ IsFiniteSet(B) /\ Cardinality(B) = boards
      /\ lucky \in SUBSET B /\ IsFiniteSet(lucky) /\ Cardinality(lucky) = over
  <2>1. IsFiniteSet(B) /\ Cardinality(B) = boards
    BY FS_Interval
  <2>2. IsFiniteSet(lucky) /\ Cardinality(lucky) = over
    BY <1>2, FS_Interval
  <2>3. lucky \in SUBSET B
    BY <1>2
  <2> QED BY <2>1, <2>2, <2>3
<1>5. /\ \A b \in B : even[b] = equal
      /\ \A b \in B : odd[b] \in Nat
      /\ \A b \in B \ lucky : odd[b] = 0
      /\ \A b \in lucky : odd[b] = 1
  BY <1>2, <1>4
<1>6. \A b \in B : even[b] \in Nat /\ odd[b] \in Nat /\ f[b] = even[b] + odd[b]
  BY <1>2, <1>3
<1> HIDE DEF B, even, odd, lucky
<1>7. SumFunctionOnSet(even, B) = boards * equal
  BY <1>2, <1>4, <1>5, SumOfConstant
<1>8. SumFunctionOnSet(odd, B) = over
  <2>1. SumFunctionOnSet(odd, B) = SumFunctionOnSet(odd, lucky)
    BY <1>4, <1>5, SumZeroOutside
  <2>2. SumFunctionOnSet(odd, lucky) = over * 1
    BY <1>4, <1>5, SumOfConstant
  <2> QED BY <1>2, <2>1, <2>2
<1>9. SumFunctionOnSet(f, B) = boards * equal + over
  BY <1>4, <1>6, <1>7, <1>8, SumOfSums
<1>10. \A b \in B : f[b] \in Nat
  BY <1>6
<1> QED BY <1>2, <1>9, <1>10 DEF B

(* What one pot is resolved into comes to the pot. *)
LEMMA PotResolved ==
  ASSUME NEW pot \in Pots, NEW boards \in Nat \ {0}, NEW ranks,
         NEW f, NEW H, H = {OnBoard(pot, b, boards, ranks[b]) : b \in 1 .. boards},
         NEW L, \A res \in H : f[res] = IF res.level \in L THEN res.amount ELSE 0
  PROVE  SumFunctionOnSet(f, H) = IF pot.level \in L THEN pot.amount ELSE 0
<1> DEFINE B == 1 .. boards
           run == [b \in B |-> OnBoard(pot, b, boards, ranks[b])]
           part == [b \in B |-> Part(pot, b, boards)]
           g == [b \in B |-> IF pot.level \in L THEN part[b] ELSE 0]
           own == [res \in H |-> res.board]
<1>1. \A b \in B : /\ run[b] \in H /\ run[b].level = pot.level /\ run[b].board = b
                   /\ run[b].amount = part[b]
  BY OnBoardIs
<1>2. \A res \in H : \E b \in B : res = run[b]
  OBVIOUS
<1>3. IsFiniteSet(B)
  BY FS_Interval
<1>4. /\ \A b \in B : part[b] \in Nat
      /\ SumFunctionOnSet(part, B) = pot.amount
  BY BoardsAddUp
<1> HIDE DEF run
<1>5. run \in Surjection(B, H)
  BY <1>1, <1>2 DEF Surjection, run
<1>6. IsFiniteSet(H)
  BY <1>3, <1>5, FS_Surjection
<1> HIDE DEF part
<1>7. \A b \in B : f[run[b]] = g[b] /\ g[b] \in Nat
  BY <1>1, <1>4
<1>8. \A res \in H : f[res] \in Nat
  BY <1>2, <1>7
<1>9. own \in [H -> B] /\ \A b \in B : OwnedBy(own, H, b) = {run[b]}
  <2>1. ASSUME NEW res \in H PROVE own[res] \in B /\ res = run[own[res]]
    <3>1. PICK b \in B : res = run[b]
      BY <1>2
    <3>2. own[res] = b
      BY <1>1, <3>1
    <3> QED BY <3>1, <3>2
  <2>2. \A b \in B : run[b] \in H /\ own[run[b]] = b
    BY <1>1
  <2> HIDE DEF B
  <2>3. own \in [H -> B]
    BY <2>1
  <2> HIDE DEF own
  <2> QED BY <2>1, <2>2, <2>3 DEF OwnedBy
<1>10. \A b \in B : g[b] = SumFunctionOnSet(f, OwnedBy(own, H, b))
  <2> TAKE b \in B
  <2>1. f[run[b]] \in Nat /\ f[run[b]] = g[b]
    BY <1>7
  <2>2. SumFunctionOnSet(f, {run[b]}) = g[b]
    BY <2>1, SumOfOne
  <2> QED BY <1>9, <2>2
<1> HIDE DEF own, B, g
<1>11. SumFunctionOnSet(f, H) = SumFunctionOnSet(g, B)
  BY <1>3, <1>6, <1>8, <1>9, <1>10, SumByOwner
<1>12. SumFunctionOnSet(g, B) = IF pot.level \in L THEN pot.amount ELSE 0
  <2>1. CASE pot.level \in L
    <3>1. \A b \in B : part[b] \in Nat /\ g[b] = part[b]
      BY <1>4, <2>1 DEF g
    <3>2. SumFunctionOnSet(g, B) = SumFunctionOnSet(part, B)
      BY <1>3, <3>1, SumSame
    <3> QED BY <1>4, <2>1, <3>2
  <2>2. CASE pot.level \notin L
    <3>1. \A b \in B : g[b] = 0
      BY <2>2 DEF g
    <3> QED BY <1>3, <2>2, <3>1, SumOfZeros
  <2> QED BY <2>1, <2>2
<1> QED BY <1>11, <1>12

(* The resolutions of the pots come to the pots, level by level. *)
LEMMA ResolutionsAddUp ==
  ASSUME NEW pots \in SUBSET Pots, IsFiniteSet(pots), ApartByLevel(pots),
         NEW boards \in Nat \ {0}, NEW ranks, NEW L
  PROVE  LET R == Resolutions(pots, boards, ranks)
         IN  SumFunctionOnSet(OfLevels(L, R), R) = SumFunctionOnSet(OfLevels(L, pots), pots)
<1> DEFINE R == Resolutions(pots, boards, ranks)
           f == OfLevels(L, R)
           g == OfLevels(L, pots)
           of(pot) == {OnBoard(pot, b, boards, ranks[b]) : b \in 1 .. boards}
           own == [res \in R |-> CHOOSE pot \in pots : pot.level = res.level]
<1>1. Awards(R)
  BY ResolutionsSound
<1>2. \A res \in R : f[res] = (IF res.level \in L THEN res.amount ELSE 0) /\ f[res] \in Nat
  BY <1>1 DEF OfLevels, Awards
<1>3. \A res \in R : \E pot \in pots : res \in of(pot)
  BY DEF Resolutions
<1>4. \A pot \in pots : of(pot) \subseteq R
  BY DEF Resolutions
<1>5. \A pot \in pots : \A res \in of(pot) : res.level = pot.level
  BY OnBoardIs
<1>6. \A pot \in pots : \A res \in of(pot) : own[res] = pot
  <2> TAKE pot \in pots
  <2> TAKE res \in of(pot)
  <2>1. res \in R /\ res.level = pot.level
    BY <1>4, <1>5
  <2>2. \A p \in pots : p.level = res.level => p = pot
    BY <2>1 DEF ApartByLevel
  <2> HIDE DEF of, R
  <2> QED BY <2>1, <2>2
<1> HIDE DEF f, own, R
<1>7. own \in [R -> pots]
  <2>1. \A res \in R : own[res] \in pots
    BY <1>3, <1>6
  <2> QED BY <2>1 DEF own
<1>8. ASSUME NEW pot \in pots
      PROVE  g[pot] = SumFunctionOnSet(f, OwnedBy(own, R, pot))
  <2>1. OwnedBy(own, R, pot) = of(pot)
    <3> HIDE DEF of
    <3> QED BY <1>3, <1>4, <1>6 DEF OwnedBy
  <2>2. \A res \in of(pot) : f[res] = IF res.level \in L THEN res.amount ELSE 0
    BY <1>2, <1>4
  <2>3. SumFunctionOnSet(f, of(pot)) = IF pot.level \in L THEN pot.amount ELSE 0
    <3>1. pot \in Pots
      OBVIOUS
    <3>2. PICK H : H = of(pot)
      OBVIOUS
    <3>3. \A res \in H : f[res] = IF res.level \in L THEN res.amount ELSE 0
      BY <2>2, <3>2
    <3>4. H = {OnBoard(pot, b, boards, ranks[b]) : b \in 1 .. boards}
      BY <3>2
    <3> HIDE DEF of
    <3>5. SumFunctionOnSet(f, H) = IF pot.level \in L THEN pot.amount ELSE 0
      BY <3>1, <3>3, <3>4, PotResolved
    <3> QED BY <3>2, <3>5
  <2> QED BY <2>1, <2>3 DEF OfLevels
<1> HIDE DEF g, of
<1>9. IsFiniteSet(R) /\ \A res \in R : f[res] \in Nat
  BY <1>1, <1>2 DEF Awards
<1>10. SumFunctionOnSet(f, R) = SumFunctionOnSet(g, pots)
  BY <1>7, <1>8, <1>9, SumByOwner
<1> QED BY <1>10 DEF f, g, R

(* Among the winners of a pot there is somebody to share it. *)
LEMMA SharedByOne ==
  ASSUME NEW winners \in SUBSET Seats, NEW s \in winners
  PROVE  Cardinality(winners) \in Nat \ {0}
BY FiniteSeats, FS_EmptySet

LEMMA ShareType ==
  ASSUME NEW R, Awards(R), NEW res \in R, NEW button, NEW s
  PROVE  Share(res, button, s) \in Nat
<1>1. res.amount \in Nat /\ res.winners \in SUBSET Seats
  BY DEF Awards
<1>2. CASE s \notin res.winners
  BY <1>2 DEF Share
<1>3. CASE s \in res.winners
  <2> DEFINE n == Cardinality(res.winners)
             ahead == {r \in res.winners : Steps(button, r) < Steps(button, s)}
             odd == IF Cardinality(ahead) < res.amount % n THEN 1 ELSE 0
  <2>1. n \in Nat \ {0}
    BY <1>1, <1>3, SharedByOne
  <2>2. res.amount \div n \in Nat /\ odd \in Nat
    BY <1>1, <2>1, DivNat
  <2>3. Share(res, button, s) = (res.amount \div n) + odd
    BY <1>3 DEF Share
  <2> HIDE DEF n, odd
  <2> QED BY <2>2, <2>3
<1> QED BY <1>2, <1>3

(* Of the members of W in a row by d, the first k are k.                   *)
LEMMA FirstOnes ==
  ASSUME NEW W, IsFiniteSet(W), NEW d \in [W -> Nat],
         \A r, s \in W : d[r] = d[s] => r = s,
         NEW k \in Nat, k <= Cardinality(W)
  PROVE  Cardinality({s \in W : Cardinality({r \in W : d[r] < d[s]}) < k}) = k
<1> DEFINE n == Cardinality(W)
           ahead(s) == {r \in W : d[r] < d[s]}
           place == [s \in W |-> Cardinality(ahead(s))]
           first == {s \in W : place[s] < k}
           number == [s \in first |-> place[s]]
<1>1. n \in Nat
  BY FS_CardinalityType
<1>2. ASSUME NEW s \in W
      PROVE  IsFiniteSet(ahead(s)) /\ place[s] \in Nat /\ place[s] < n
  <2>1. ahead(s) \in SUBSET (W \ {s})
    OBVIOUS
  <2>2. /\ IsFiniteSet(W \ {s}) /\ Cardinality(W \ {s}) = n - 1
    BY FS_RemoveElement
  <2> HIDE DEF ahead, n
  <2>3. IsFiniteSet(ahead(s)) /\ Cardinality(ahead(s)) <= n - 1
    BY <2>1, <2>2, FS_Subset
  <2>4. Cardinality(ahead(s)) \in Nat
    BY <2>3, FS_CardinalityType
  <2> QED BY <1>1, <2>3, <2>4
<1>3. ASSUME NEW s \in W, NEW r \in W, d[s] < d[r]
      PROVE  place[s] < place[r]
  <2>1. s \in ahead(r) /\ s \notin ahead(s) /\ ahead(s) \cup {s} \in SUBSET ahead(r)
    BY <1>3
  <2> HIDE DEF ahead
  <2>2. Cardinality(ahead(s) \cup {s}) = Cardinality(ahead(s)) + 1
    BY <1>2, <2>1, FS_AddElement
  <2>3. Cardinality(ahead(s) \cup {s}) <= Cardinality(ahead(r))
    BY <1>2, <2>1, FS_Subset
  <2>4. /\ place[s] \in Nat /\ place[s] = Cardinality(ahead(s))
        /\ place[r] \in Nat /\ place[r] = Cardinality(ahead(r))
    BY <1>2
  <2> QED BY <2>2, <2>3, <2>4
<1>4. \A s, r \in W : place[s] = place[r] => s = r
  <2> TAKE s, r \in W
  <2>1. place[s] \in Nat /\ place[r] \in Nat /\ d[s] \in Nat /\ d[r] \in Nat
    BY <1>2
  <2>2. (d[s] < d[r] => place[s] < place[r]) /\ (d[r] < d[s] => place[r] < place[s])
    BY <1>3
  <2> HIDE DEF place
  <2> QED BY <2>1, <2>2
<1>5. place \in Injection(W, 0 .. (n - 1))
  <2>1. ASSUME NEW s \in W PROVE Cardinality(ahead(s)) \in 0 .. (n - 1)
    <3>1. place[s] = Cardinality(ahead(s)) /\ place[s] \in Nat /\ place[s] < n
      BY <1>2
    <3> HIDE DEF place, ahead, n
    <3> QED BY <1>1, <3>1
  <2>2. place \in [W -> 0 .. (n - 1)]
    BY <2>1
  <2> HIDE DEF place
  <2> QED BY <1>4, <2>2 DEF Injection, IsInjective
<1>6. IsFiniteSet(0 .. (n - 1)) /\ Cardinality(0 .. (n - 1)) = n
  <2> HIDE DEF n
  <2>1. 0 \in Int /\ n - 1 \in Int /\ (0 > n - 1 => n = 0)
    BY <1>1
  <2> QED BY <1>1, <2>1, FS_Interval
<1> HIDE DEF place
<1>7. place \in Surjection(W, 0 .. (n - 1))
  BY <1>5, <1>6, FS_Injection DEF n
<1>8. number \in Surjection(first, 0 .. (k - 1))
  <2>1. ASSUME NEW s \in first PROVE place[s] \in 0 .. (k - 1)
    <3>1. place[s] \in Nat /\ place[s] < k
      BY <1>2
    <3> QED BY <3>1
  <2>2. ASSUME NEW i \in 0 .. (k - 1) PROVE \E s \in first : number[s] = i
    <3>1. i \in 0 .. (n - 1) /\ i < k
      BY <1>1
    <3>2. PICK s \in W : place[s] = i
      BY <1>7, <3>1 DEF Surjection
    <3> QED BY <3>1, <3>2
  <2>3. number \in [first -> 0 .. (k - 1)]
    BY <2>1
  <2> HIDE DEF number, first
  <2> QED BY <2>2, <2>3 DEF Surjection
<1>9. number \in Injection(first, 0 .. (k - 1))
  <2>1. \A s, r \in first : number[s] = number[r] => s = r
    BY <1>4
  <2> HIDE DEF number, first
  <2> QED BY <1>8, <2>1 DEF Injection, IsInjective, Surjection
<1>10. IsFiniteSet(first)
  BY FS_Subset
<1>11. Cardinality(0 .. (k - 1)) = k
  BY FS_Interval
<1> HIDE DEF number
<1>12. Cardinality(first) = k
  <2> HIDE DEF first
  <2> QED BY <1>8, <1>9, <1>10, <1>11, FS_Surjection
<1>13. first = {s \in W : Cardinality({r \in W : d[r] < d[s]}) < k}
  BY DEF place
<1> QED BY <1>12, <1>13

(* No two seats are equally far from the button. *)
LEMMA StepsDiffer ==
  ASSUME NEW button \in Seats, NEW r \in Seats, NEW s \in Seats,
         Steps(button, r) = Steps(button, s)
  PROVE  r = s
<1>1. /\ button \in 0 .. (MaxSeats - 1) /\ r \in 0 .. (MaxSeats - 1) /\ s \in 0 .. (MaxSeats - 1)
      /\ MaxSeats \in Nat \ {0}
  BY MaxSeatsAssumption DEF Seats
<1> DEFINE far(x) == IF x > button THEN x - button - 1 ELSE x - button - 1 + MaxSeats
<1>2. ASSUME NEW x \in 0 .. (MaxSeats - 1) PROVE Steps(button, x) = far(x)
  BY <1>1 DEF Steps
<1>3. far(r) = far(s)
  BY <1>1, <1>2
<1> QED BY <1>1, <1>3

LEMMA StepsType ==
  ASSUME NEW button \in Seats, NEW s \in Seats PROVE Steps(button, s) \in Nat
BY MaxSeatsAssumption DEF Steps, Seats

(* The shares of a pot among its winners add up to it: the odd chips are   *)
(* as many as the winners who are given one.                               *)
LEMMA SharesAddUp ==
  ASSUME NEW R, Awards(R), NEW res \in R, res.winners # {}, NEW button \in Seats
  PROVE  SumFunctionOnSet([s \in Seats |-> Share(res, button, s)], res.winners) = res.amount
<1> DEFINE W == res.winners
           n == Cardinality(W)
           equal == res.amount \div n
           over == res.amount % n
           d == [s \in W |-> Steps(button, s)]
           ahead(s) == {r \in W : Steps(button, r) < Steps(button, s)}
           lucky == {s \in W : Cardinality(ahead(s)) < over}
           share == [s \in Seats |-> Share(res, button, s)]
           even == [s \in W |-> equal]
           odd == [s \in W |-> IF s \in lucky THEN 1 ELSE 0]
<1>1. /\ W \in SUBSET Seats /\ IsFiniteSet(W) /\ n \in Nat \ {0} /\ res.amount \in Nat
  BY FiniteSeats, FS_EmptySet DEF Awards
<1>2. /\ res.amount = n * equal + over /\ equal \in Nat /\ over \in Nat /\ over < n
  BY <1>1, Division
<1> HIDE DEF n, equal, over
<1>3. d \in [W -> Nat] /\ \A r, s \in W : d[r] = d[s] => r = s
  BY <1>1, StepsType, StepsDiffer
<1>4. Cardinality(lucky) = over
  <2>1. Cardinality({s \in W : Cardinality({r \in W : d[r] < d[s]}) < over}) = over
    <3> HIDE DEF d
    <3> QED BY SMTT(30), <1>1, <1>2, <1>3, FirstOnes DEF n
  <2>2. \A s \in W : ahead(s) = {r \in W : d[r] < d[s]}
    OBVIOUS
  <2>3. lucky = {s \in W : Cardinality({r \in W : d[r] < d[s]}) < over}
    BY <2>2
  <2> QED BY <2>1, <2>3
<1>5. lucky \in SUBSET W
  OBVIOUS
<1>6. \A s \in W : even[s] \in Nat /\ odd[s] \in Nat /\ share[s] = even[s] + odd[s]
  <2>1. \A s \in W : Share(res, button, s) = equal + (IF s \in lucky THEN 1 ELSE 0)
    BY DEF Share, n, equal, over
  <2> HIDE DEF lucky
  <2> QED BY <1>1, <1>2, <2>1
<1>7. \A s \in W : even[s] = equal
  OBVIOUS
<1>8. /\ \A s \in W : odd[s] \in Nat
      /\ \A s \in W \ lucky : odd[s] = 0
      /\ \A s \in lucky : odd[s] = 1
  OBVIOUS
<1> HIDE DEF even, odd, share, lucky
<1>9. SumFunctionOnSet(even, W) = n * equal
  BY <1>1, <1>2, <1>7, SumOfConstant DEF n
<1>10. SumFunctionOnSet(odd, W) = over
  <2>1. SumFunctionOnSet(odd, W) = SumFunctionOnSet(odd, lucky)
    BY <1>1, <1>5, <1>8, SumZeroOutside
  <2>2. IsFiniteSet(lucky)
    BY <1>1, <1>5, FS_Subset
  <2>3. SumFunctionOnSet(odd, lucky) = over * 1
    BY <1>4, <1>8, <2>2, SumOfConstant
  <2> QED BY <1>2, <2>1, <2>3
<1>11. SumFunctionOnSet(share, W) = n * equal + over
  BY <1>1, <1>6, <1>9, <1>10, SumOfSums
<1> QED BY <1>2, <1>11 DEF share

LEMMA PayoutsType ==
  ASSUME NEW R, Awards(R), NEW button
  PROVE  Payouts(R, button) \in [Seats -> Nat]
<1> SUFFICES ASSUME NEW s \in Seats
             PROVE  SumFunction([res \in R |-> Share(res, button, s)]) \in Nat
  BY DEF Payouts
<1> DEFINE share == [res \in R |-> Share(res, button, s)]
<1>1. \A res \in R : share[res] \in Nat
  BY ShareType
<1>2. IsFiniteSet(R) /\ DOMAIN share = R
  BY DEF Awards
<1> HIDE DEF share
<1>3. SumFunctionOnSet(share, R) \in Nat
  BY <1>1, <1>2, SumType
<1> QED BY <1>2, <1>3 DEF SumFunction, share

(* Somebody's hand is the best. *)
LEMMA SomebodyWins ==
  ASSUME NEW eligible \in SUBSET Seats, eligible # {}, NEW rank \in [Seats -> 1 .. MaxRank]
  PROVE  WinnersAmong(eligible, rank) # {}
<1> DEFINE short == {MaxRank - rank[s] : s \in eligible}
<1>1. MaxRank \in Nat /\ \A s \in eligible : rank[s] \in 1 .. MaxRank
  BY HandAssumption
<1>2. short \in SUBSET Nat
  BY <1>1
<1>3. PICK s \in eligible : TRUE
  OBVIOUS
<1>4. MaxRank - rank[s] \in short
  BY <1>3
<1>5. PICK least \in short : \A other \in short : ~(other < least)
  <2> HIDE DEF short
  <2> QED BY <1>2, <1>4, LeastOf
<1>6. PICK best \in eligible : least = MaxRank - rank[best]
  BY <1>5
<1>7. \A r \in eligible : rank[r] <= rank[best]
  <2> TAKE r \in eligible
  <2>1. MaxRank - rank[r] \in short
    OBVIOUS
  <2>2. ~(MaxRank - rank[r] < MaxRank - rank[best])
    BY <1>5, <1>6, <2>1
  <2> QED BY <1>1, <2>2
<1> QED BY <1>7 DEF WinnersAmong

(* Every pot that is resolved is won by somebody. *)
AllWon(R) == \A res \in R : res.winners # {}

LEMMA ShareAtMost ==
  ASSUME NEW R, Awards(R), AllWon(R), NEW res \in R, NEW button \in Seats, NEW s \in Seats
  PROVE  Share(res, button, s) <= (IF s \in res.winners THEN res.amount ELSE 0)
<1>1. res.winners \in SUBSET Seats /\ IsFiniteSet(res.winners) /\ res.winners # {}
  BY FiniteSeats DEF Awards, AllWon
<1>2. CASE s \in res.winners
  <2> DEFINE share == [r \in Seats |-> Share(res, button, r)]
  <2>1. \A r \in res.winners : share[r] \in Nat
    BY <1>1, ShareType
  <2>2. share[s] = Share(res, button, s)
    OBVIOUS
  <2>3. SumFunctionOnSet(share, res.winners) = res.amount
    BY <1>1, SharesAddUp
  <2> HIDE DEF share
  <2>4. share[s] <= SumFunctionOnSet(share, res.winners)
    BY <1>1, <1>2, <2>1, SumCovers
  <2> QED BY <1>2, <2>2, <2>3, <2>4
<1>3. CASE s \notin res.winners
  BY <1>3 DEF Share
<1> QED BY <1>2, <1>3

(* What the seats of a set are paid, if they win all that is resolved at   *)
(* the levels of L and nothing else.                                       *)
LEMMA PaidTogether ==
  ASSUME NEW R, Awards(R), AllWon(R), NEW button \in Seats, NEW best \in SUBSET Seats, NEW L,
         \A res \in R : IF res.level \in L THEN res.winners \subseteq best
                                           ELSE res.winners \cap best = {}
  PROVE  Total([s \in Seats |-> IF s \in best THEN Payouts(R, button)[s] ELSE 0])
           = SumFunctionOnSet(OfLevels(L, R), R)
<1> DEFINE F == [s \in Seats |-> [res \in R |->
                   IF s \in best THEN Share(res, button, s) ELSE 0]]
           paid == [s \in Seats |-> IF s \in best THEN Payouts(R, button)[s] ELSE 0]
           f == OfLevels(L, R)
<1>1. \A res \in R : res.amount \in Nat /\ res.winners \in SUBSET Seats
  BY DEF Awards
<1>2. IsFiniteSet(R) /\ IsFiniteSet(Seats)
  BY FiniteSeats DEF Awards
<1>3. \A s \in Seats : \A res \in R : F[s][res] \in Nat
  BY ShareType
<1>4. ASSUME NEW s \in Seats PROVE SumFunctionOnSet(F[s], R) = paid[s] /\ paid[s] \in Nat
  <2> DEFINE share == [res \in R |-> Share(res, button, s)]
  <2>1. Payouts(R, button)[s] = SumFunctionOnSet(share, R) /\ Payouts(R, button)[s] \in Nat
    BY PayoutsType DEF Payouts, SumFunction
  <2>2. CASE s \in best
    <3>1. \A res \in R : share[res] \in Nat /\ F[s][res] = share[res]
      BY <2>2, ShareType
    <3>2. paid[s] = SumFunctionOnSet(share, R)
      BY <2>1, <2>2
    <3> HIDE DEF F, share, paid
    <3>3. SumFunctionOnSet(F[s], R) = SumFunctionOnSet(share, R)
      BY <1>2, <3>1, SumSame
    <3> QED BY <2>1, <3>2, <3>3
  <2>3. CASE s \notin best
    <3>1. (\A res \in R : F[s][res] = 0) /\ paid[s] = 0
      BY <2>3
    <3> HIDE DEF F, paid
    <3> QED BY <1>2, <3>1, SumOfZeros
  <2> QED BY <2>2, <2>3
<1>5. ASSUME NEW res \in R
      PROVE  SumFunctionOnSet([s \in Seats |-> F[s][res]], Seats) = f[res] /\ f[res] \in Nat
  <2> DEFINE column == [s \in Seats |-> F[s][res]]
             share == [s \in Seats |-> Share(res, button, s)]
             W == res.winners
  <2>1. f[res] = IF res.level \in L THEN res.amount ELSE 0
    BY DEF OfLevels
  <2>2. f[res] \in Nat
    BY <1>1, <2>1
  <2>3. /\ \A s \in Seats : column[s] \in Nat /\ share[s] \in Nat
        /\ \A s \in Seats : column[s] = IF s \in best THEN share[s] ELSE 0
        /\ \A s \in Seats \ W : share[s] = 0
    BY <1>3, ShareType DEF Share
  <2>4. W \in SUBSET Seats /\ IsFiniteSet(W) /\ W # {}
    BY <1>1, FiniteSeats DEF AllWon
  <2>5. SumFunctionOnSet(share, W) = res.amount
    BY <2>4, SharesAddUp
  <2> HIDE DEF F, column, share, f
  <2>6. CASE res.level \in L
    <3>1. W \subseteq best
      BY <2>6
    <3>2. \A s \in W : share[s] \in Nat /\ column[s] = share[s]
      BY <2>3, <2>4, <3>1
    <3>3. SumFunctionOnSet(column, W) = SumFunctionOnSet(share, W)
      BY <2>4, <3>2, SumSame
    <3>4. \A s \in Seats \ W : column[s] = 0
      BY <2>3
    <3>5. \A s \in Seats : column[s] \in Nat
      BY <2>3
    <3>6. SumFunctionOnSet(column, Seats) = SumFunctionOnSet(column, W)
      BY <1>2, <2>4, <3>4, <3>5, SumZeroOutside
    <3> QED BY <2>1, <2>2, <2>5, <2>6, <3>3, <3>6 DEF column
  <2>7. CASE res.level \notin L
    <3>1. W \cap best = {}
      BY <2>7
    <3>2. \A s \in Seats : column[s] = 0
      BY <2>3, <3>1
    <3>3. SumFunctionOnSet(column, Seats) = 0
      BY <1>2, <3>2, SumOfZeros
    <3> QED BY <2>1, <2>2, <2>7, <3>3 DEF column
  <2> QED BY <2>6, <2>7
<1> HIDE DEF F, paid, f
<1>6. SumFunctionOnSet(RowSums(F, Seats, R), Seats) = SumFunctionOnSet(ColumnSums(F, Seats, R), R)
  BY <1>2, <1>3, SwapSums
<1>7. \A s \in Seats : paid[s] \in Nat /\ RowSums(F, Seats, R)[s] = paid[s]
  BY <1>4 DEF RowSums
<1>8. \A res \in R : f[res] \in Nat /\ ColumnSums(F, Seats, R)[res] = f[res]
  BY <1>5 DEF ColumnSums
<1>9. SumFunctionOnSet(RowSums(F, Seats, R), Seats) = SumFunctionOnSet(paid, Seats)
  BY <1>2, <1>7, SumSame
<1>10. SumFunctionOnSet(ColumnSums(F, Seats, R), R) = SumFunctionOnSet(f, R)
  BY <1>2, <1>8, SumSame
<1> QED BY <1>6, <1>9, <1>10 DEF Total, paid, f

(* A seat is paid no more than is resolved at the levels it can win. *)
LEMMA PaidAtMost ==
  ASSUME NEW R, Awards(R), AllWon(R), NEW button \in Seats, NEW s \in Seats, NEW L,
         \A res \in R : s \in res.winners => res.level \in L
  PROVE  Payouts(R, button)[s] <= SumFunctionOnSet(OfLevels(L, R), R)
<1> DEFINE share == [res \in R |-> Share(res, button, s)]
           f == OfLevels(L, R)
<1>1. IsFiniteSet(R) /\ \A res \in R : res.amount \in Nat
  BY DEF Awards
<1>2. ASSUME NEW res \in R PROVE share[res] \in Nat /\ f[res] \in Nat /\ share[res] <= f[res]
  <2>1. share[res] \in Nat /\ share[res] <= (IF s \in res.winners THEN res.amount ELSE 0)
    BY ShareType, ShareAtMost
  <2>2. f[res] = IF res.level \in L THEN res.amount ELSE 0
    BY DEF OfLevels
  <2> HIDE DEF share, f
  <2> QED BY <1>1, <2>1, <2>2
<1>3. Payouts(R, button)[s] = SumFunctionOnSet(share, R)
  BY DEF Payouts, SumFunction
<1> HIDE DEF share, f
<1>4. SumFunctionOnSet(share, R) <= SumFunctionOnSet(f, R)
  BY <1>1, <1>2, SumMonotone
<1> QED BY <1>3, <1>4 DEF f

LEMMA GrossWonType ==
  ASSUME NEW R, Awards(R)
  PROVE  GrossWon(R) \in [Seats -> Nat]
<1> SUFFICES ASSUME NEW s \in Seats
             PROVE  GrossWon(R)[s] \in Nat
  BY DEF GrossWon
<1> DEFINE equal(res) == res.amount \div Cardinality(res.winners)
           gross == [res \in R |-> IF s \in res.winners THEN equal(res) ELSE 0]
<1>1. ASSUME NEW res \in R PROVE gross[res] \in Nat
  <2>1. res.amount \in Nat /\ res.winners \in SUBSET Seats
    BY DEF Awards
  <2>2. s \in res.winners => Cardinality(res.winners) \in Nat \ {0}
    BY <2>1, SharedByOne
  <2> QED BY <2>1, <2>2, DivNat
<1>2. IsFiniteSet(R) /\ DOMAIN gross = R
  BY DEF Awards
<1>3. GrossWon(R)[s] = SumFunction(gross)
  BY DEF GrossWon
<1> HIDE DEF gross
<1>4. SumFunctionOnSet(gross, R) \in Nat
  BY <1>1, <1>2, SumType
<1> QED BY <1>2, <1>3, <1>4 DEF SumFunction

(* A table whose empty seats hold no chips. *)
Settled(t) ==
  /\ t \in Tables /\ Anchored(t)
  /\ \A s \in Seats : t.status[s] = "empty" => t.stack[s] = 0

LEMMA PotPaid ==
  ASSUME NEW t, Settled(t), NEW pot \in Nat, NEW stack \in [Seats -> Nat],
         \A s \in Seats : t.status[s] = "empty" => stack[s] = 0
  PROVE  Settled([t EXCEPT !.pot = pot, !.stack = stack])
BY DEF Settled, Tables, Anchored

LEMMA AwardedSound ==
  ASSUME NEW t, Settled(t), NEW payouts \in [Seats -> Nat]
  PROVE  Settled(Awarded(t, payouts)) /\ Orphaned(t, payouts) \in Nat
<1> DEFINE stack == [s \in Seats |-> IF s \in Occupied(t) THEN t.stack[s] + payouts[s] ELSE 0]
           orphaned == [s \in Seats |-> IF s \in Occupied(t) THEN 0 ELSE payouts[s]]
<1>1. t \in Tables /\ t.stack \in [Seats -> Nat]
  BY DEF Settled, Tables
<1>2. stack \in [Seats -> Nat] /\ orphaned \in [Seats -> Nat]
  BY <1>1
<1>3. \A s \in Seats : t.status[s] = "empty" => stack[s] = 0
  BY DEF Occupied
<1>4. Awarded(t, payouts) = [t EXCEPT !.pot = 0, !.stack = stack]
  BY DEF Awarded
<1>5. Orphaned(t, payouts) = Total(orphaned)
  BY DEF Orphaned
<1> HIDE DEF stack, orphaned
<1>6. Settled([t EXCEPT !.pot = 0, !.stack = stack])
  BY <1>2, <1>3, PotPaid
<1> QED BY <1>2, <1>4, <1>5, <1>6, TotalType

(* The rake takes from nobody more than they have. *)
LEMMA DeductRakeSound ==
  ASSUME NEW t, Settled(t), NEW R, Awards(R), NEW rake \in Nat
  PROVE  Settled(DeductRake(t, R, rake))
<1> DEFINE won     == GrossWon(R)
           all     == Total(won)
           winners == AllWinners(R) \cap Occupied(t)
           cut     == [s \in Seats |-> IF s \in winners
                                       THEN Lesser((rake * won[s]) \div all, t.stack[s]) ELSE 0]
           left    == [s \in Seats |-> t.stack[s] - cut[s]]
           solvent == {s \in winners : left[s] > 0}
           largest == CHOOSE s \in solvent :
                        \A r \in solvent : \/ won[r] < won[s]
                                           \/ won[r] = won[s] /\ s <= r
           rest    == [s \in Seats |-> IF s \in solvent /\ s = largest
                                       THEN Lesser(rake - Total(cut), left[s]) ELSE 0]
           stack   == [s \in Seats |-> left[s] - rest[s]]
<1>1. t.stack \in [Seats -> Nat]
  BY DEF Settled, Tables
<1>2. won \in [Seats -> Nat] /\ all \in Nat
  BY GrossWonType, TotalType
<1>3. \/ DeductRake(t, R, rake) = t
      \/ all # 0 /\ DeductRake(t, R, rake) = [t EXCEPT !.stack = stack]
  BY DEF DeductRake
<1> HIDE DEF won, all, winners, solvent, largest
<1>4. ASSUME all # 0
      PROVE  /\ stack \in [Seats -> Nat]
             /\ \A s \in Seats : t.status[s] = "empty" => stack[s] = 0
  <2>1. ASSUME NEW s \in Seats PROVE cut[s] \in Nat /\ cut[s] <= t.stack[s]
    <3>1. (rake * won[s]) \div all \in Nat
      BY <1>2, <1>4, ProductNat, DivNat
    <3> QED BY <1>1, <3>1 DEF Lesser
  <2>2. cut \in [Seats -> Nat]
    BY <2>1
  <2>3. PICK due \in Int : due = rake - Total(cut)
    <3> HIDE DEF cut
    <3>1. Total(cut) \in Nat
      BY <2>2, TotalType
    <3> QED BY <3>1
  <2>4. left \in [Seats -> Nat]
    BY <1>1, <2>1
  <2>5. ASSUME NEW s \in Seats PROVE stack[s] \in Nat
    <3> HIDE DEF cut, left
    <3>1. rest[s] \in Int /\ rest[s] <= left[s]
      BY <2>3, <2>4 DEF Lesser
    <3> QED BY <2>4, <3>1
  <2>6. ASSUME NEW s \in Seats, t.status[s] = "empty" PROVE stack[s] = 0
    <3>1. s \notin winners /\ s \notin solvent /\ t.stack[s] = 0
      BY <2>6 DEF winners, solvent, Occupied, Settled
    <3> QED BY <3>1
  <2> QED BY <2>5, <2>6
<1> HIDE DEF stack
<1>5. ASSUME all # 0 PROVE Settled([t EXCEPT !.stack = stack])
  <2>1. t.pot \in Nat /\ [t EXCEPT !.stack = stack] = [t EXCEPT !.pot = t.pot, !.stack = stack]
    BY DEF Settled, Tables
  <2> QED BY <1>4, <1>5, <2>1, PotPaid
<1> QED BY <1>3, <1>5

LEMMA Cancel ==
  ASSUME NEW a \in Nat, NEW b \in Nat, NEW n \in Nat, n # 0, n * a <= b * n
  PROVE  a <= b
OBVIOUS

(* What is cut in proportion, rounded down, is no more than is shared.     *)
LEMMA CutsAtMost ==
  ASSUME NEW won \in [Seats -> Nat], NEW all, all = Total(won), all # 0, NEW rake \in Nat,
         NEW cut \in [Seats -> Nat], \A s \in Seats : cut[s] <= (rake * won[s]) \div all
  PROVE  Total(cut) \in Nat /\ Total(cut) <= rake
<1> DEFINE product == [s \in Seats |-> rake * won[s]]
           scaled == [s \in Seats |-> all * cut[s]]
<1>1. all \in Nat /\ IsFiniteSet(Seats)
  BY TotalType, SeatsFinite
<1>2. ASSUME NEW s \in Seats
      PROVE  product[s] \in Nat /\ scaled[s] \in Nat /\ scaled[s] <= product[s]
  <2>1. PICK p \in Nat : p = rake * won[s]
    BY ProductNat
  <2>2. PICK c \in Nat : c = cut[s]
    OBVIOUS
  <2>3. p = all * (p \div all) + (p % all) /\ p \div all \in Nat /\ p % all \in Nat
    BY <1>1, <2>1, Division
  <2>4. c <= p \div all
    BY <2>1, <2>2
  <2>5. all * c <= all * (p \div all) /\ all * c \in Nat /\ all * (p \div all) \in Nat
    <3>1. PICK q \in Nat : q = p \div all
      BY <2>3
    <3>2. q - c \in Nat /\ q = c + (q - c)
      BY <2>2, <2>4, <3>1
    <3>4. PICK d \in Nat : q = c + d
      BY <3>2
    <3>3. all * q = all * c + all * d /\ all * c \in Nat /\ all * d \in Nat
      BY <1>1, <2>2, <3>4
    <3> QED BY <3>1, <3>3
  <2>6. all * c <= p /\ all * c \in Nat
    BY <2>1, <2>3, <2>5
  <2> QED BY <2>1, <2>2, <2>6
<1>3. /\ \A s \in Seats : won[s] \in Nat /\ product[s] = rake * won[s]
      /\ \A s \in Seats : cut[s] \in Nat /\ scaled[s] = all * cut[s]
  OBVIOUS
<1> HIDE DEF product, scaled
<1>4. SumFunctionOnSet(product, Seats) = rake * SumFunctionOnSet(won, Seats)
  BY <1>1, <1>3, SumScaled
<1>5. SumFunctionOnSet(scaled, Seats) = all * SumFunctionOnSet(cut, Seats)
  BY <1>1, <1>3, SumScaled
<1>6. SumFunctionOnSet(scaled, Seats) <= SumFunctionOnSet(product, Seats)
  BY <1>1, <1>2, SumMonotone
<1>7. PICK c \in Nat : c = Total(cut)
  BY TotalType
<1>8. all * c <= rake * all
  BY <1>4, <1>5, <1>6, <1>7 DEF Total
<1>9. c <= rake
  BY <1>1, <1>8, Cancel
<1> QED BY <1>7, <1>9

(* The rake gives nobody chips, and takes no more than it is. *)
LEMMA DeductRakeTakes ==
  ASSUME NEW t, Settled(t), NEW R, Awards(R), NEW rake \in Nat
  PROVE  LET u == DeductRake(t, R, rake)
         IN  /\ rake = 0 => u = t
             /\ \A s \in Seats : u.stack[s] <= t.stack[s]
             /\ Total(t.stack) <= Total(u.stack) + rake
<1> DEFINE won     == GrossWon(R)
           all     == Total(won)
           winners == AllWinners(R) \cap Occupied(t)
           cut     == [s \in Seats |-> IF s \in winners
                                       THEN Lesser((rake * won[s]) \div all, t.stack[s]) ELSE 0]
           left    == [s \in Seats |-> t.stack[s] - cut[s]]
           solvent == {s \in winners : left[s] > 0}
           largest == CHOOSE s \in solvent :
                        \A r \in solvent : \/ won[r] < won[s]
                                           \/ won[r] = won[s] /\ s <= r
           rest    == [s \in Seats |-> IF s \in solvent /\ s = largest
                                       THEN Lesser(rake - Total(cut), left[s]) ELSE 0]
           stack   == [s \in Seats |-> left[s] - rest[s]]
<1>1. t \in Tables /\ t.stack \in [Seats -> Nat]
  BY DEF Settled, Tables
<1>2. won \in [Seats -> Nat] /\ all \in Nat
  BY GrossWonType, TotalType
<1>3. /\ rake = 0 => DeductRake(t, R, rake) = t
      /\ \/ DeductRake(t, R, rake) = t
         \/ all # 0 /\ DeductRake(t, R, rake) = [t EXCEPT !.stack = stack]
  BY DEF DeductRake
<1>4. all = Total(won)
  OBVIOUS
<1> HIDE DEF won, all, winners, largest, stack
<1>5. ASSUME all # 0
      PROVE  /\ \A s \in Seats : stack[s] \in Nat /\ stack[s] <= t.stack[s]
             /\ Total(t.stack) <= Total(stack) + rake
  <2>1. ASSUME NEW s \in Seats
        PROVE  /\ (rake * won[s]) \div all \in Nat
               /\ cut[s] \in Nat /\ cut[s] <= t.stack[s] /\ cut[s] <= (rake * won[s]) \div all
    <3>1. PICK f \in Nat : f = (rake * won[s]) \div all
      BY <1>2, <1>5, ProductNat, DivNat
    <3>2. t.stack[s] \in Nat
      BY <1>1
    <3> QED BY <3>1, <3>2 DEF Lesser
  <2>2. cut \in [Seats -> Nat]
    BY <2>1
  <2>3. \A s \in Seats : left[s] \in Nat /\ cut[s] \in Nat /\ t.stack[s] = left[s] + cut[s]
    BY <1>1, <2>1
  <2>4. solvent \in SUBSET Seats
    BY DEF winners, Occupied
  <2> HIDE DEF cut
  <2>5. Total(cut) \in Nat /\ Total(cut) <= rake
    BY <1>2, <1>4, <1>5, <2>1, <2>2, CutsAtMost
  <2>6. PICK due \in Nat : due = rake - Total(cut)
    BY <2>5
  <2> HIDE DEF left, solvent
  <2>7. \A s \in Seats : /\ rest[s] \in Nat /\ rest[s] <= left[s] /\ rest[s] <= due
                         /\ ~(s \in solvent /\ s = largest) => rest[s] = 0
    BY <2>3, <2>6 DEF Lesser
  <2> HIDE DEF rest
  <2>8. \A s \in Seats : /\ stack[s] \in Nat /\ rest[s] \in Nat
                         /\ left[s] = stack[s] + rest[s]
    BY <2>3, <2>7 DEF stack
  <2>9. PICK taken \in Nat : taken = SumFunctionOnSet(rest, Seats) /\ taken <= due
    <3>1. CASE largest \in solvent
      <4>1. largest \in Seats /\ {largest} \in SUBSET Seats
        BY <2>4, <3>1
      <4>2. \A s \in Seats \ {largest} : rest[s] = 0
        BY <2>7
      <4>3. SumFunctionOnSet(rest, Seats) = SumFunctionOnSet(rest, {largest})
        BY <2>7, <4>1, <4>2, SeatsFinite, SumZeroOutside
      <4>4. SumFunctionOnSet(rest, {largest}) = rest[largest]
        BY <2>7, <4>1, SumOfOne
      <4> QED BY <2>7, <4>1, <4>3, <4>4
    <3>2. CASE largest \notin solvent
      <4>1. SumFunctionOnSet(rest, Seats) = 0
        BY <2>7, <3>2, SeatsFinite, SumOfZeros
      <4> QED BY <4>1
    <3> QED BY <3>1, <3>2
  <2>10. /\ SumFunctionOnSet(t.stack, Seats)
              = SumFunctionOnSet(left, Seats) + SumFunctionOnSet(cut, Seats)
         /\ SumFunctionOnSet(left, Seats)
              = SumFunctionOnSet(stack, Seats) + SumFunctionOnSet(rest, Seats)
         /\ SumFunctionOnSet(stack, Seats) \in Nat
    BY <2>3, <2>8, SeatsFinite, SumOfSums, SumType
  <2>11. Total(t.stack) <= Total(stack) + rake
    BY <2>5, <2>6, <2>9, <2>10 DEF Total
  <2>12. \A s \in Seats : stack[s] <= t.stack[s]
    <3> TAKE s \in Seats
    <3>1. /\ stack[s] \in Nat /\ rest[s] \in Nat /\ left[s] \in Nat /\ cut[s] \in Nat
          /\ left[s] = stack[s] + rest[s] /\ t.stack[s] = left[s] + cut[s]
      BY <2>3, <2>8
    <3> QED BY <3>1
  <2> QED BY <2>8, <2>11, <2>12
<1>6. [t EXCEPT !.stack = stack].stack = stack
  BY <1>1 DEF Tables
<1>7. (\A s \in Seats : t.stack[s] <= t.stack[s]) /\ Total(t.stack) <= Total(t.stack) + rake
  BY <1>1, TotalType
<1> QED BY <1>3, <1>5, <1>6, <1>7

----------------------------------------------------------------------------
(* Leaving the table. *)

(* What StandUp makes of table t for the seats of S. *)
StoodUp(t, u, S) ==
  /\ u \in Tables
  /\ u.pot = t.pot /\ u.currentBet = t.currentBet
  /\ u.sbSeat = t.sbSeat /\ u.bbSeat = t.bbSeat /\ u.cards = t.cards \ S
  /\ \A s \in Seats : /\ u.stack[s] = IF s \in S THEN 0 ELSE t.stack[s]
                      /\ u.bet[s] = IF s \in S THEN 0 ELSE t.bet[s]
                      /\ u.contrib[s] = IF s \in S THEN 0 ELSE t.contrib[s]
                      /\ u.status[s] = IF s \in S THEN "empty" ELSE t.status[s]

LEMMA StandUpSound ==
  ASSUME NEW t \in Tables, NEW S \in SUBSET Seats
  PROVE  StoodUp(t, StandUp(t, S), S)
<1> DEFINE stack == [s \in Seats |-> IF s \in S THEN 0 ELSE t.stack[s]]
           bet == [s \in Seats |-> IF s \in S THEN 0 ELSE t.bet[s]]
           contrib == [s \in Seats |-> IF s \in S THEN 0 ELSE t.contrib[s]]
           status == [s \in Seats |-> IF s \in S THEN "empty" ELSE t.status[s]]
           cards == t.cards \ S
           sittingOut == t.sittingOut \ S
           owesPost == t.owesPost \ S
           postNow == t.postNow \ S
           u == [t EXCEPT !.stack = stack, !.bet = bet, !.contrib = contrib,
                          !.status = status, !.cards = cards, !.sittingOut = sittingOut,
                          !.owesPost = owesPost, !.postNow = postNow]
<1>1. StandUp(t, S) = u
  BY DEF StandUp
<1>2. /\ stack \in [Seats -> Nat] /\ bet \in [Seats -> Nat] /\ contrib \in [Seats -> Nat]
      /\ status \in [Seats -> SeatStatus]
  BY DEF Tables, SeatStatus
<1>3. /\ cards \in SUBSET Seats /\ sittingOut \in SUBSET Seats
      /\ owesPost \in SUBSET Seats /\ postNow \in SUBSET Seats
  BY DEF Tables
<1>4. \A s \in Seats : /\ stack[s] = IF s \in S THEN 0 ELSE t.stack[s]
                       /\ bet[s] = IF s \in S THEN 0 ELSE t.bet[s]
                       /\ contrib[s] = IF s \in S THEN 0 ELSE t.contrib[s]
                       /\ status[s] = IF s \in S THEN "empty" ELSE t.status[s]
                       /\ cards = t.cards \ S
  OBVIOUS
<1> HIDE DEF stack, bet, contrib, status, cards, sittingOut, owesPost, postNow
<1>5. /\ u \in Tables /\ u.stack = stack /\ u.bet = bet /\ u.contrib = contrib
      /\ u.status = status /\ u.cards = cards /\ u.pot = t.pot
      /\ u.currentBet = t.currentBet /\ u.sbSeat = t.sbSeat /\ u.bbSeat = t.bbSeat
  BY <1>2, <1>3 DEF Tables
<1> HIDE DEF u
<1>6. cards = t.cards \ S
  BY DEF cards
<1> QED BY <1>1, <1>4, <1>5, <1>6 DEF StoodUp

----------------------------------------------------------------------------
(* The invariant. *)

(* The table has nothing on it but the players' stacks. *)
Cleared(t) ==
  /\ t.pot = 0 /\ t.bet = NoBets /\ t.contrib = NoBets
  /\ \A s \in Seats : t.status[s] \in {"empty", "seated"}

TableInv(t) == Playable(t) /\ Anchored(t) /\ EmptyBare(t)

(* The plan is one of finitely many pots, one at a level, run over at      *)
(* least one board, on each of which the hands compare.                    *)
PlanInv(plan) ==
  /\ plan.pots \subseteq Pots /\ IsFiniteSet(plan.pots) /\ ApartByLevel(plan.pots)
  /\ plan.boards \in Nat \ {0}
  /\ plan.pots # {} => \A b \in 1 .. plan.boards : plan.ranks[b] \in [Seats -> 1 .. MaxRank]

(* The accounts are numbers, and only a dealt hand leaves the waiting      *)
(* phase.                                                                  *)
CountsInv ==
  /\ house \in Nat /\ cash \in Int /\ hands \in 0 .. MaxHands
  /\ phase # "waiting" => hands > 0

(* The inductive invariant: a hand is played by two or more until the      *)
(* showdown is planned, and those the plan names stay in the hand.  It     *)
(* does not say that the pot is what the seats have contributed: who has   *)
(* folded may leave and take the account of it along.                      *)
HInv ==
  /\ phase \in Phases /\ TableInv(table) /\ PlanInv(pending) /\ CountsInv
  /\ phase = "waiting" => Cleared(table)
  /\ phase = "betting" => Cardinality(Contenders(table)) >= 2
  /\ phase = "resolving_sidepots" => \A pot \in pending.pots : Winnable(pot, table)

LEMMA ContendersIn ==
  ASSUME NEW t
  PROVE  /\ Contenders(t) \in SUBSET Seats /\ IsFiniteSet(Contenders(t))
         /\ Cardinality(Contenders(t)) \in Nat
         /\ Cardinality(Contenders(t)) >= 1 <=> Contenders(t) # {}
<1>1. Contenders(t) \in SUBSET Seats
  BY DEF Contenders, NonFoldedSeats
<1>2. IsFiniteSet(Contenders(t)) /\ Cardinality(Contenders(t)) \in Nat
  BY <1>1, FiniteSeats
<1> HIDE DEF Contenders
<1>3. Cardinality(Contenders(t)) = 0 <=> Contenders(t) = {}
  BY <1>2, FS_EmptySet
<1> QED BY <1>1, <1>2, <1>3

LEMMA NoPlan == PlanInv(NoShowdown)
BY FS_EmptySet DEF PlanInv, NoShowdown, ApartByLevel

LEMMA InitHInv == Init => HInv
<1> SUFFICES ASSUME Init PROVE HInv
  OBVIOUS
<1>1. table \in Tables /\ Idle(table)
  BY OpeningsAssumption DEF Init
<1>2. Playable(table)
  BY <1>1, IdlePlayable
<1>3. Anchored(table) /\ Cleared(table)
  BY <1>1 DEF Idle, Anchored, Cleared
<1>4. EmptyBare(table)
  BY <1>1 DEF Idle, EmptyBare, NoBets
<1>5. CountsInv
  BY HandAssumption DEF Init, CountsInv
<1> QED BY <1>2, <1>3, <1>4, <1>5, NoPlan DEF Init, HInv, Phases, TableInv

(* Nobody gains chips without a seat. *)
LEMMA StillBare ==
  ASSUME NEW t \in Tables, NEW u \in Tables, EmptyBare(t), SameChips(t, u),
         Occupied(t) \subseteq Occupied(u)
  PROVE  EmptyBare(u)
<1> SUFFICES ASSUME NEW s \in Seats, u.status[s] = "empty"
             PROVE  u.stack[s] = 0 /\ u.contrib[s] = 0
  BY DEF EmptyBare
<1>1. t.status[s] = "empty"
  BY DEF Occupied
<1>2. t.stack[s] = 0 /\ t.contrib[s] = 0
  BY <1>1 DEF EmptyBare
<1>3. u.stack[s] + u.contrib[s] = t.stack[s] + t.contrib[s]
  BY DEF SameChips
<1>4. u.stack[s] \in Nat /\ u.contrib[s] \in Nat
  BY DEF Tables
<1> QED BY <1>2, <1>3, <1>4

----------------------------------------------------------------------------
(* The plan. *)

(* The plan that is made when a hand goes to its showdown. *)
LEMMA PlanMade ==
  ASSUME PlanInv(pending), PlanShowdown, phase # "resolving_sidepots",
         table' \in Tables, EmptyBare(table'), Contenders(table') # {}
  PROVE  /\ PlanInv(pending')
         /\ phase' = "resolving_sidepots" => /\ \A pot \in pending'.pots : Winnable(pot, table')
                                             /\ pending'.pots = PlannedPots(table')
<1>1. CASE phase' = "resolving_sidepots"
  <2>1. PICK boards \in BoardCounts(table') : \E ranks \in [1 .. boards -> Rankings(table')] :
          pending' = [pots |-> PlannedPots(table'), boards |-> boards, ranks |-> ranks]
    BY <1>1 DEF PlanShowdown
  <2>2. boards \in Nat \ {0}
    BY HandAssumption DEF BoardCounts
  <2>3. PICK ranks \in [1 .. boards -> Rankings(table')] :
          pending' = [pots |-> PlannedPots(table'), boards |-> boards, ranks |-> ranks]
    BY <2>1
  <2>4. /\ pending'.pots = PlannedPots(table') /\ pending'.boards = boards
        /\ pending'.ranks = ranks
    BY <2>3
  <2>5. /\ IsFiniteSet(PlannedPots(table')) /\ PlannedPots(table') \subseteq Pots
        /\ ApartByLevel(PlannedPots(table'))
        /\ \A pot \in PlannedPots(table') : Winnable(pot, table')
    BY PlannedSound
  <2>6. \A b \in 1 .. boards : ranks[b] \in [Seats -> 1 .. MaxRank]
    BY DEF Rankings
  <2> QED BY <2>2, <2>4, <2>5, <2>6 DEF PlanInv
<1>2. CASE phase' # "resolving_sidepots"
  BY <1>2 DEF PlanShowdown
<1> QED BY <1>1, <1>2

(* A hand goes on, or to its showdown. *)
LEMMA HandGoesOn ==
  ASSUME HInv, PlanShowdown, phase # "resolving_sidepots",
         phase' \in {"betting", "resolving_sidepots"},
         TableInv(table'), Contenders(table') # {},
         phase' = "betting" => Cardinality(Contenders(table')) >= 2,
         house' = house, cash' = cash, hands' \in 1 .. MaxHands
  PROVE  HInv'
<1>1. table' \in Tables /\ EmptyBare(table')
  BY DEF TableInv, Playable, Sound
<1>2. /\ PlanInv(pending')
      /\ phase' = "resolving_sidepots" => \A pot \in pending'.pots : Winnable(pot, table')
  BY <1>1, PlanMade DEF HInv
<1>3. CountsInv'
  BY DEF HInv, CountsInv
<1> QED BY <1>2, <1>3 DEF HInv, Phases

(* Who is in the hand was dealt into it, and while betting is open the     *)
(* turn is on somebody who can act; unless no cards were dealt at all.     *)
OnlyHolders(t, p) ==
  t.cards # {} => /\ NonFoldedSeats(t) \subseteq t.cards
                  /\ p = "betting" => t.action \in CanAct(t)

(* What a deal comes to. *)
LEMMA HandDealt ==
  ASSUME HInv, NextHand
  PROVE  /\ phase = "waiting" /\ phase' \in {"betting", "resolving_sidepots"}
         /\ SameChips(table, table') /\ TableInv(table')
         /\ Cardinality(Contenders(table')) >= 2 /\ OnlyHolders(table', phase')
<1>1. /\ table \in Tables /\ TableInv(table) /\ Cleared(table)
      /\ Cardinality(Occupied(table)) >= 2 /\ phase = "waiting"
  BY DEF HInv, NextHand, AutoStartHand, TableInv, Playable, Sound
<1>2. PICK straddle \in Straddles, bomb \in BombPots :
        LET t == StartHand(table, straddle, bomb)
        IN  /\ table' = t
            /\ \/ t.action = None /\ phase' = "resolving_sidepots"
               \/ t.action # None /\ phase' = "betting"
  BY DEF NextHand, AutoStartHand, BeginShowdown
<1>3. straddle \in BOOLEAN /\ bomb \in BOOLEAN
  BY TogglesAssumption
<1>4. /\ table.bet = NoBets /\ table.contrib = NoBets /\ table.pot = 0 /\ Anchored(table)
      /\ EmptyBare(table)
  BY <1>1 DEF Cleared, TableInv
<1> DEFINE u == StartHand(table, straddle, bomb)
<1>5. Sound(u) /\ SameChips(table, u) /\ Matchable(u)
  BY <1>1, <1>3, <1>4, StartHandSound
<1>6. u \in Tables /\ Playable(u)
  BY <1>5 DEF Playable, Sound
<1>7. /\ table' = u
      /\ \/ u.action = None /\ phase' = "resolving_sidepots"
         \/ u.action # None /\ phase' = "betting"
  BY <1>2
<1> HIDE DEF u
<1>8. /\ Occupied(table) \subseteq Occupied(u) /\ Anchored(u)
      /\ Cardinality(Contenders(u)) >= 2 /\ OnlyHolders(u, phase')
  <2>1. CASE Cardinality(Ready(table)) >= 2
    <3>1. Opened(u) /\ Occupied(table) \subseteq Occupied(u) /\ Anchored(u)
      BY <1>1, <1>3, <1>4, <2>1, StartHandLive DEF u
    <3>2. OnlyDealt(u) /\ TurnOn(u) /\ Cardinality(NonFoldedSeats(u)) >= 2
      BY <3>1 DEF Opened
    <3>3. OnlyHolders(u, phase')
      BY <1>7, <3>2 DEF OnlyHolders, OnlyDealt, TurnOn
    <3> QED BY <3>1, <3>2, <3>3, OnlyDealtContend
  <2>2. CASE Cardinality(Ready(table)) < 2
    <3>1. /\ u.status = table.status /\ u.cards = {}
          /\ u.sbSeat = table.sbSeat /\ u.bbSeat = table.bbSeat
      BY <1>1, <2>2, StartHandFew DEF u
    <3>2. Occupied(u) = Occupied(table) /\ Anchored(u) /\ OnlyHolders(u, phase')
      BY <1>4, <3>1 DEF Occupied, Anchored, OnlyHolders
    <3>3. Contenders(u) = Occupied(table)
      BY <1>1, <3>1 DEF Contenders, NonFoldedSeats, Occupied, Cleared
    <3> QED BY <1>1, <3>2, <3>3
  <2>3. Cardinality(Ready(table)) \in Nat
    <3>1. Ready(table) \in SUBSET Seats
      BY DEF Ready, CanAct
    <3> QED BY <3>1, FiniteSeats
  <2> QED BY <2>1, <2>2, <2>3
<1>9. TableInv(u)
  BY <1>1, <1>4, <1>5, <1>6, <1>8, StillBare DEF TableInv
<1> QED BY <1>1, <1>5, <1>7, <1>8, <1>9

(* A hand is dealt, or the phase becomes betting without one.              *)
LEMMA DealStep == HInv /\ NextHand => HInv'
<1> SUFFICES ASSUME HInv, NextHand PROVE HInv'
  OBVIOUS
<1>1. /\ phase = "waiting" /\ phase' \in {"betting", "resolving_sidepots"}
      /\ TableInv(table') /\ Cardinality(Contenders(table')) >= 2
  BY HandDealt
<1>2. Contenders(table') # {}
  BY <1>1, ContendersIn
<1>3. hands' \in 1 .. MaxHands
  BY HandAssumption DEF HInv, CountsInv, NextHand
<1>4. PlanShowdown /\ house' = house /\ cash' = cash
  BY DEF NextHand
<1> QED BY <1>1, <1>2, <1>3, <1>4, HandGoesOn

(* An action takes at most one of the contenders out of the hand.          *)
LEMMA ContendersLeft ==
  ASSUME NEW t, NEW u, NEW s \in Seats, ActionOf(t, u, s),
         Cardinality(Contenders(t)) >= 2
  PROVE  /\ Contenders(u) # {}
         /\ ~Uncontested(u) => Cardinality(Contenders(u)) >= 2
<1> DEFINE before == Contenders(t)
           after == Contenders(u)
<1>1. before \ {s} \subseteq after
  BY DEF ActionOf, Contenders, NonFoldedSeats
<1>2. /\ IsFiniteSet(before) /\ IsFiniteSet(after) /\ before \ {s} \in SUBSET Seats
      /\ Cardinality(before) \in Nat /\ Cardinality(after) \in Nat
  BY ContendersIn
<1>3. Uncontested(u) <=> Cardinality(after) = 1
  BY DEF Uncontested
<1>4. Cardinality(after) >= 1 <=> after # {}
  BY ContendersIn
<1> HIDE DEF before, after
<1>5. /\ Cardinality(before \ {s}) \in Nat
      /\ Cardinality(before \ {s}) >= Cardinality(before) - 1
  <2>1. Cardinality(before \ {s}) \in Nat
    BY <1>2, FiniteSeats
  <2>2. CASE s \in before
    <3>1. Cardinality(before \ {s}) = Cardinality(before) - 1
      BY <1>2, <2>2, FS_RemoveElement
    <3> QED BY <1>2, <2>1, <3>1
  <2>3. CASE s \notin before
    <3>1. before \ {s} = before
      BY <2>3
    <3> QED BY <1>2, <3>1
  <2> QED BY <2>2, <2>3
<1>6. Cardinality(before \ {s}) <= Cardinality(after)
  BY <1>1, <1>2, FS_Subset
<1>7. Cardinality(after) >= 1
  BY <1>2, <1>5, <1>6 DEF before
<1> QED BY <1>2, <1>3, <1>4, <1>7 DEF after

(* What a turn comes to. *)
LEMMA TurnPlayed ==
  ASSUME HInv, PlayerActs
  PROVE  /\ phase = "betting" /\ phase' \in {"betting", "resolving_sidepots"}
         /\ SameChips(table, table') /\ TableInv(table') /\ Contenders(table') # {}
         /\ phase' = "betting" => Cardinality(Contenders(table')) >= 2
         /\ OnlyHolders(table, phase) => OnlyHolders(table', phase')
<1> DEFINE seat == table.action
<1>1. Playable(table) /\ table \in Tables /\ TableInv(table) /\ Act
  BY DEF HInv, TableInv, Playable, Sound, PlayerActs
<1>2. Turn /\ seat \in Seats
  BY <1>1, TurnTaken
<1>3. PICK acted : ActedOn(table, acted, seat) /\ After(acted)
  BY <1>1, TurnTaken
<1>4. /\ Playable(table') /\ SameChips(table, table') /\ SameAnchors(table, table')
      /\ phase' \in {"betting", "resolving_sidepots"}
  BY <1>1, <1>3, AfterSound
<1>5. phase = "betting" /\ Cardinality(Contenders(table)) >= 2 /\ seat \in Occupied(table)
  BY <1>2 DEF Turn, HInv
<1>6. ActionOf(table, acted, seat) /\ acted \in Tables
  BY <1>3 DEF ActedOn, Playable, Sound
<1>7. /\ Contenders(acted) # {}
      /\ ~Uncontested(acted) => Cardinality(Contenders(acted)) >= 2
  BY <1>2, <1>5, <1>6, ContendersLeft
<1>8. /\ table'.status = acted.status /\ table'.cards = acted.cards
      /\ phase' = "betting" => ~Uncontested(acted) /\ table'.action \in CanAct(table')
  BY <1>3, <1>6, TurnEnds DEF Advanced
<1>9. Contenders(table') = Contenders(acted)
  BY <1>8 DEF Contenders, NonFoldedSeats
<1>10. Occupied(table) \subseteq Occupied(table')
  BY <1>2, <1>5, <1>6, <1>8 DEF ActionOf, Occupied
<1>11. TableInv(table')
  <2>1. table' \in Tables /\ EmptyBare(table) /\ Anchored(table)
    BY <1>1, <1>4 DEF Playable, Sound, TableInv
  <2>2. EmptyBare(table')
    BY <1>1, <1>4, <1>10, <2>1, StillBare
  <2>3. Anchored(table')
    BY <1>4, <2>1 DEF SameAnchors, Anchored
  <2> QED BY <1>4, <2>2, <2>3 DEF TableInv
<1>12. ASSUME OnlyHolders(table, phase) PROVE OnlyHolders(table', phase')
  <2> SUFFICES ASSUME table'.cards # {} PROVE OnlyHolders(table', phase')
    BY DEF OnlyHolders
  <2>1. table'.cards = table.cards
    BY <1>6, <1>8 DEF ActionOf
  <2>2. NonFoldedSeats(table) \subseteq table.cards /\ seat \in CanAct(table)
    BY <1>5, <1>12, <2>1 DEF OnlyHolders
  <2>3. NonFoldedSeats(acted) \subseteq NonFoldedSeats(table)
    BY <1>6, <2>2 DEF ActionOf, NonFoldedSeats, CanAct
  <2>4. NonFoldedSeats(table') = NonFoldedSeats(acted)
    BY <1>8 DEF NonFoldedSeats
  <2> QED BY <1>8, <2>1, <2>2, <2>3, <2>4 DEF OnlyHolders
<1> QED BY <1>4, <1>5, <1>7, <1>8, <1>9, <1>11, <1>12

LEMMA ActStep == HInv /\ PlayerActs => HInv'
<1> SUFFICES ASSUME HInv, PlayerActs PROVE HInv'
  OBVIOUS
<1>1. /\ phase = "betting" /\ phase' \in {"betting", "resolving_sidepots"}
      /\ TableInv(table') /\ Contenders(table') # {}
      /\ phase' = "betting" => Cardinality(Contenders(table')) >= 2
  BY TurnPlayed
<1>2. PlanShowdown /\ house' = house /\ cash' = cash /\ hands' \in 1 .. MaxHands
  BY <1>1 DEF PlayerActs, HInv, CountsInv
<1> QED BY <1>1, <1>2, HandGoesOn

----------------------------------------------------------------------------
(* The showdown. *)

LEMMA ProductInt ==
  ASSUME NEW a \in Nat, NEW b \in Nat, NEW c \in Int, NEW d \in Nat
  PROVE  c + d - a * b \in Int
OBVIOUS

(* The chips of t, and what is owed, are on the table of the next hand or  *)
(* in wallets; without buy-backs every seat has what it had.               *)
ChipsKept(t, owed) ==
  /\ Total(table'.stack) + cash' = Total(t.stack) + cash + owed
  /\ AutoBuyBack = 0 => \A s \in Seats : table'.stack[s] = t.stack[s]

(* Whatever was settled, the next hand starts from a cleared table. *)
LEMMA NextHandSound ==
  ASSUME NEW t, Settled(t), NEW owed \in Nat, cash \in Int, ToNextHand(t, owed)
  PROVE  /\ TableInv(table') /\ Cleared(table') /\ phase' = "waiting"
         /\ pending' = NoShowdown /\ cash' \in Int /\ hands' = hands
         /\ ChipsKept(t, owed)
<1> DEFINE felted == {s \in Occupied(t) : t.stack[s] = 0}
<1>1. PICK rebuying \in SUBSET felted :
        LET stood == StandUp(ResetBetweenHands(t), felted \ rebuying)
        IN  /\ table' = [stood EXCEPT !.stack = [s \in Seats |->
                           IF s \in rebuying THEN AutoBuyBack ELSE stood.stack[s]]]
            /\ cash' = cash + owed - AutoBuyBack * Cardinality(rebuying)
            /\ phase' = "waiting" /\ pending' = NoShowdown /\ UNCHANGED hands
  BY DEF ToNextHand
<1>2. rebuying \in SUBSET Seats /\ rebuying \subseteq Occupied(t)
  BY DEF Occupied
<1>3. cash' \in Int
  <2>1. Cardinality(rebuying) \in Nat /\ AutoBuyBack \in Nat
    BY <1>2, FiniteSeats, HandAssumption
  <2>2. cash + owed - AutoBuyBack * Cardinality(rebuying) \in Int
    BY <2>1, ProductInt
  <2> QED BY <1>1, <2>2
<1> DEFINE gone == felted \ rebuying
           reset == ResetBetweenHands(t)
           stood == StandUp(reset, gone)
           status == [s \in Seats |-> IF s \in Occupied(t) THEN "seated" ELSE "empty"]
           stack == [s \in Seats |-> IF s \in rebuying THEN AutoBuyBack ELSE stood.stack[s]]
<1>4. t \in Tables /\ t.stack \in [Seats -> Nat]
  BY DEF Settled, Tables
<1>5. gone \in SUBSET Seats
  BY DEF Occupied
<1> HIDE DEF gone
<1>6. /\ reset.status = status /\ reset.stack = t.stack /\ reset.bet = NoBets
      /\ reset.contrib = NoBets /\ reset.pot = 0 /\ reset.currentBet = 0
      /\ reset.sbSeat = t.sbSeat /\ reset.bbSeat = t.bbSeat /\ reset \in Tables
  <2>1. NoBets \in [Seats -> Nat] /\ status \in [Seats -> SeatStatus]
    BY DEF NoBets, SeatStatus
  <2>2. reset = [t EXCEPT !.street = "waiting", !.board = 0, !.pot = 0, !.currentBet = 0,
                          !.bet = NoBets, !.contrib = NoBets, !.status = status]
    BY DEF ResetBetweenHands
  <2>3. "waiting" \in Streets /\ 0 \in 0 .. 5
    BY DEF Streets
  <2> HIDE DEF status, reset
  <2> QED BY <1>4, <2>1, <2>2, <2>3 DEF Tables
<1> HIDE DEF reset
<1>7. /\ stood \in Tables /\ stood.bet = NoBets /\ stood.contrib = NoBets
      /\ stood.pot = 0 /\ stood.currentBet = 0
      /\ stood.sbSeat = t.sbSeat /\ stood.bbSeat = t.bbSeat
      /\ \A s \in Seats : stood.stack[s] = IF s \in gone THEN 0 ELSE t.stack[s]
      /\ \A s \in Seats : stood.status[s] = IF s \in gone THEN "empty" ELSE status[s]
  <2>1. StoodUp(reset, stood, gone)
    BY <1>5, <1>6, StandUpSound
  <2> HIDE DEF stood, status
  <2>2. /\ stood \in Tables /\ stood.pot = 0 /\ stood.currentBet = 0
        /\ stood.sbSeat = t.sbSeat /\ stood.bbSeat = t.bbSeat
        /\ \A s \in Seats : stood.stack[s] = IF s \in gone THEN 0 ELSE t.stack[s]
        /\ \A s \in Seats : stood.status[s] = IF s \in gone THEN "empty" ELSE status[s]
    BY <1>6, <2>1 DEF StoodUp
  <2>3. \A s \in Seats : stood.bet[s] = 0 /\ stood.contrib[s] = 0
    BY <1>6, <2>1 DEF StoodUp, NoBets
  <2>4. stood.bet \in [Seats -> Nat] /\ stood.contrib \in [Seats -> Nat]
    BY <2>2 DEF Tables
  <2>5. stood.bet = NoBets /\ stood.contrib = NoBets
    BY <2>3, <2>4 DEF NoBets
  <2> QED BY <2>2, <2>5
<1> HIDE DEF stood
<1>8. stack \in [Seats -> Nat]
  BY <1>4, <1>7, HandAssumption
<1>9. table' = [stood EXCEPT !.stack = stack]
  BY <1>1 DEF stood, reset, gone
<1>10. \A s \in Seats : stood.status[s] = "empty" => stack[s] = 0
  <2> SUFFICES ASSUME NEW s \in Seats, stood.status[s] = "empty" PROVE stack[s] = 0
    OBVIOUS
  <2>1. CASE s \in gone
    <3>1. s \notin rebuying
      BY <2>1 DEF gone
    <3> QED BY <1>7, <2>1, <3>1
  <2>2. CASE s \notin gone
    <3>1. s \notin Occupied(t)
      BY <1>7, <2>2
    <3>2. t.stack[s] = 0 /\ s \notin rebuying
      BY <1>2, <3>1 DEF Settled, Occupied
    <3> QED BY <1>7, <2>2, <3>2
  <2> QED BY <2>1, <2>2
<1>11. \A s \in Seats : stood.status[s] \in {"empty", "seated"}
  BY <1>7
<1> DEFINE bonus == [s \in Seats |-> IF s \in rebuying THEN AutoBuyBack ELSE 0]
<1>16. \A s \in Seats : bonus[s] \in Nat /\ stack[s] = t.stack[s] + bonus[s]
  <2> TAKE s \in Seats
  <2>1. AutoBuyBack \in Nat /\ t.stack[s] \in Nat
    BY <1>4, HandAssumption
  <2>2. s \in gone \/ s \in rebuying => t.stack[s] = 0
    BY DEF gone
  <2>3. s \in gone => s \notin rebuying
    BY DEF gone
  <2> QED BY <1>7, <2>1, <2>2, <2>3
<1> HIDE DEF stack, status
<1>12. /\ table' \in Tables /\ table'.stack = stack /\ table'.status = stood.status
       /\ table'.bet = NoBets /\ table'.contrib = NoBets
       /\ table'.pot = 0 /\ table'.currentBet = 0
       /\ table'.sbSeat = t.sbSeat /\ table'.bbSeat = t.bbSeat
  BY <1>7, <1>8, <1>9 DEF Tables
<1>13. Playable(table')
  BY <1>12 DEF Playable, Sound, Backed, Matchable, BetAtMost, NoBets
<1>14. Cleared(table')
  BY <1>11, <1>12 DEF Cleared
<1>15. EmptyBare(table') /\ Anchored(table')
  BY <1>10, <1>12 DEF EmptyBare, NoBets, Anchored, Settled
<1>17. AutoBuyBack = 0 => \A s \in Seats : table'.stack[s] = t.stack[s]
  BY <1>4, <1>12, <1>16
<1>18. Total(table'.stack) + cash' = Total(t.stack) + cash + owed
  <2>1. /\ \A s \in Seats : bonus[s] \in Nat
        /\ \A s \in Seats \ rebuying : bonus[s] = 0
        /\ \A s \in rebuying : bonus[s] = AutoBuyBack
    BY <1>2, <1>16
  <2>2. /\ IsFiniteSet(Seats) /\ IsFiniteSet(rebuying) /\ Cardinality(rebuying) \in Nat
        /\ AutoBuyBack \in Nat
    BY <1>2, FiniteSeats, HandAssumption
  <2> HIDE DEF bonus
  <2>3. SumFunctionOnSet(bonus, Seats) = SumFunctionOnSet(bonus, rebuying)
    BY <1>2, <2>1, <2>2, SumZeroOutside
  <2>4. SumFunctionOnSet(bonus, rebuying) = Cardinality(rebuying) * AutoBuyBack
    BY <2>1, <2>2, SumOfConstant
  <2>5. \A s \in Seats : t.stack[s] \in Nat /\ bonus[s] \in Nat /\ stack[s] = t.stack[s] + bonus[s]
    BY <1>4, <1>16
  <2>6. SumFunctionOnSet(stack, Seats)
          = SumFunctionOnSet(t.stack, Seats) + SumFunctionOnSet(bonus, Seats)
    BY <2>2, <2>5, SumOfSums
  <2>7. SumFunctionOnSet(t.stack, Seats) \in Nat
    BY <2>2, <2>5, SumType
  <2>8. PICK a \in Nat, b \in Nat : /\ a = SumFunctionOnSet(t.stack, Seats)
                                    /\ b = Cardinality(rebuying) * AutoBuyBack
    BY <2>2, <2>7
  <2>9. AutoBuyBack * Cardinality(rebuying) = b
    BY <2>2, <2>8
  <2>10. cash' = cash + owed - b
    BY <1>1, <2>9
  <2>11. Total(table'.stack) = a + b /\ Total(t.stack) = a
    BY <1>12, <2>3, <2>4, <2>6, <2>8 DEF Total
  <2> QED BY <2>8, <2>10, <2>11
<1> QED BY <1>1, <1>3, <1>13, <1>14, <1>15, <1>17, <1>18 DEF TableInv, ChipsKept

LEMMA RakeType ==
  ASSUME table \in Tables
  PROVE  Rake(table.pot) \in Nat
<1>1. table.pot \in Nat /\ RakeBps \in Nat /\ RakeCap \in Nat
  BY HandAssumption DEF Tables
<1>2. (table.pot * RakeBps) \div 10000 \in Nat
  BY <1>1, ProductNat, DivNat
<1> DEFINE due == (table.pot * RakeBps) \div 10000
<1>3. Rake(table.pot) \in {0, due, Lesser(due, RakeCap)}
  BY DEF Rake
<1> HIDE DEF due
<1>4. Lesser(due, RakeCap) \in {due, RakeCap}
  BY DEF Lesser
<1> QED BY <1>1, <1>2, <1>3, <1>4 DEF due

(* A hand is over: the table is cleared and the plan forgotten.            *)
LEMMA HandEnds ==
  ASSUME HInv, TableInv(table'), Cleared(table'), phase' = "waiting",
         pending' = NoShowdown, cash' \in Int, hands' = hands, house' \in Nat
  PROVE  HInv'
BY NoPlan DEF HInv, Phases, CountsInv

LEMMA TableSettled ==
  ASSUME NEW t, TableInv(t) PROVE Settled(t)
BY DEF TableInv, Settled, EmptyBare, Playable, Sound

LEMMA ShowdownStep == HInv /\ ResolveShowdown => HInv'
<1> SUFFICES ASSUME HInv, ResolveShowdown PROVE HInv'
  OBVIOUS
<1>1. Settled(table) /\ table \in Tables /\ house \in Nat /\ cash \in Int
  BY TableSettled DEF HInv, CountsInv, Settled
<1> DEFINE resolved == Resolutions(pending.pots, pending.boards, pending.ranks)
           payouts == Payouts(resolved, table.button)
           awarded == Awarded(table, payouts)
           rake == Rake(table.pot)
           settled == DeductRake(awarded, resolved, rake)
           owed == Orphaned(table, payouts)
<1>2. ToNextHand(settled, owed) /\ house' = house + rake
  BY DEF ResolveShowdown
<1>3. Awards(resolved)
  BY ResolutionsSound DEF HInv, PlanInv
<1> HIDE DEF resolved
<1>4. payouts \in [Seats -> Nat]
  BY <1>3, PayoutsType
<1> HIDE DEF payouts
<1>5. Settled(awarded) /\ owed \in Nat
  BY <1>1, <1>4, AwardedSound
<1>6. rake \in Nat
  BY <1>1, RakeType
<1> HIDE DEF awarded, rake, owed
<1>7. Settled(settled)
  BY <1>3, <1>5, <1>6, DeductRakeSound
<1> HIDE DEF settled
<1>8. /\ TableInv(table') /\ Cleared(table') /\ phase' = "waiting"
      /\ pending' = NoShowdown /\ cash' \in Int /\ hands' = hands
  BY <1>1, <1>2, <1>5, <1>7, NextHandSound
<1>9. house' \in Nat
  BY <1>1, <1>2, <1>6
<1> QED BY <1>8, <1>9, HandEnds

LEMMA RefundStep == HInv /\ RefundHand => HInv'
<1> SUFFICES ASSUME HInv, RefundHand PROVE HInv'
  OBVIOUS
<1>1. /\ Settled(table) /\ table \in Tables /\ EmptyBare(table)
      /\ house \in Nat /\ cash \in Int
  BY TableSettled DEF HInv, CountsInv, Settled, TableInv
<1> DEFINE stack == [s \in Seats |-> table.stack[s] + table.contrib[s]]
           refunded == [table EXCEPT !.pot = 0, !.stack = stack]
<1>2. ToNextHand(refunded, 0) /\ house' = house
  BY DEF RefundHand
<1>3. stack \in [Seats -> Nat]
  BY <1>1 DEF Tables
<1>4. \A s \in Seats : table.status[s] = "empty" => stack[s] = 0
  BY <1>1 DEF EmptyBare
<1> HIDE DEF stack
<1>5. Settled(refunded)
  BY <1>1, <1>3, <1>4, PotPaid
<1> HIDE DEF refunded
<1>6. /\ TableInv(table') /\ Cleared(table') /\ phase' = "waiting"
      /\ pending' = NoShowdown /\ cash' \in Int /\ hands' = hands
  BY <1>1, <1>2, <1>5, NextHandSound
<1> QED BY <1>1, <1>2, <1>6, HandEnds

----------------------------------------------------------------------------
(* Comings and goings. *)

(* Whoever comes or goes, the hand being played is played by the same.     *)
LEMMA HandUndisturbed ==
  ASSUME HInv, TableInv(table'), cash' \in Int,
         UNCHANGED <<phase, pending, house, hands>>,
         phase = "waiting" => Cleared(table'),
         phase # "waiting" => /\ NonFoldedSeats(table') = NonFoldedSeats(table)
                              /\ Contenders(table) \subseteq Contenders(table')
  PROVE  HInv'
<1>1. CountsInv' /\ PlanInv(pending') /\ phase' \in Phases
  BY DEF HInv, CountsInv
<1>2. ASSUME phase' = "betting" PROVE Cardinality(Contenders(table')) >= 2
  <2>1. /\ Contenders(table) \subseteq Contenders(table')
        /\ Cardinality(Contenders(table)) >= 2
    BY <1>2 DEF HInv
  <2>2. Cardinality(Contenders(table)) <= Cardinality(Contenders(table'))
    BY <2>1, ContendersIn, FS_Subset
  <2> QED BY <2>1, <2>2, ContendersIn
<1>3. ASSUME phase' = "resolving_sidepots"
      PROVE  \A pot \in pending'.pots : Winnable(pot, table')
  BY <1>3 DEF HInv, Winnable
<1> QED BY <1>1, <1>2, <1>3 DEF HInv

LEMMA LeaveStep ==
  ASSUME HInv, NEW s \in Seats, Leave(s)
  PROVE  HInv'
<1>1. /\ table \in Tables /\ TableInv(table) /\ Playable(table) /\ EmptyBare(table)
      /\ Anchored(table) /\ cash \in Int
  BY DEF HInv, TableInv, Playable, Sound, CountsInv
<1>2. /\ StoodUp(table, table', {s}) /\ table' \in Tables
      /\ UNCHANGED <<phase, pending, house, hands>>
  BY <1>1, StandUpSound DEF Leave, StoodUp
<1>3. cash' \in Int
  BY <1>1 DEF Leave, Tables
<1>4. Playable(table')
  <2>1. ASSUME NEW r \in Seats
        PROVE  table'.bet[r] <= table'.contrib[r] /\ table'.bet[r] <= table'.currentBet
    <3>1. /\ table.bet[r] <= table.contrib[r] /\ table.bet[r] <= table.currentBet
          /\ table.currentBet \in Nat
      BY <1>1 DEF Playable, Sound, Backed, Matchable, BetAtMost, Tables
    <3> QED BY <1>2, <3>1 DEF StoodUp
  <2> QED BY <1>2, <2>1 DEF Playable, Sound, Backed, Matchable, BetAtMost
<1>5. EmptyBare(table') /\ Anchored(table')
  BY <1>1, <1>2 DEF EmptyBare, Anchored, StoodUp
<1>6. ASSUME phase = "waiting" PROVE Cleared(table')
  <2>1. Cleared(table)
    BY <1>6 DEF HInv
  <2>2. \A r \in Seats : table'.bet[r] = 0 /\ table'.contrib[r] = 0
    BY <1>2, <2>1 DEF Cleared, StoodUp, NoBets
  <2>3. table'.bet = NoBets /\ table'.contrib = NoBets
    BY <1>2, <2>2 DEF Tables, NoBets
  <2> QED BY <1>2, <2>1, <2>3 DEF Cleared, StoodUp
<1>7. ASSUME phase # "waiting"
      PROVE  /\ NonFoldedSeats(table') = NonFoldedSeats(table)
             /\ Contenders(table) \subseteq Contenders(table')
  <2>1. s \notin NonFoldedSeats(table)
    BY <1>7 DEF Leave, InLiveHand, NonFoldedSeats
  <2>2. NonFoldedSeats(table') = NonFoldedSeats(table)
    BY <1>2, <2>1 DEF StoodUp, NonFoldedSeats
  <2>3. table'.cards = table.cards \ {s}
    BY <1>2 DEF StoodUp
  <2> QED BY <2>1, <2>2, <2>3 DEF Contenders
<1> QED BY <1>2, <1>3, <1>4, <1>5, <1>6, <1>7, HandUndisturbed DEF TableInv

(* What Join makes of a table: one more seat, in a hand being played only  *)
(* to look on.                                                             *)
LEMMA JoinStep ==
  ASSUME HInv, NEW s \in Seats, NEW chips \in BuyIns, NEW postNow \in BOOLEAN,
         Join(s, chips, postNow)
  PROVE  HInv'
<1>1. /\ table \in Tables /\ TableInv(table) /\ Playable(table) /\ EmptyBare(table)
      /\ Anchored(table) /\ cash \in Int /\ hands \in Nat
      /\ phase # "waiting" => hands > 0
  BY HandAssumption DEF HInv, TableInv, Playable, Sound, CountsInv
<1>2. chips \in Nat /\ table.status[s] = "empty"
  BY HandAssumption DEF Join, Occupied
<1>3. cash' \in Int /\ UNCHANGED <<phase, pending, house, hands>>
  BY <1>1, <1>2 DEF Join
<1> DEFINE stack == [table.stack EXCEPT ![s] = chips]
           here(status) == [table.status EXCEPT ![s] = status]
<1>4. \E status \in {"seated", "folded"}, owesPost \in SUBSET Seats, now \in SUBSET Seats :
        /\ phase = "waiting" <=> status = "seated"
        /\ table' = [table EXCEPT !.stack = stack, !.status = here(status),
                                  !.owesPost = owesPost, !.postNow = now]
  <2>1. /\ table.owesPost \in SUBSET Seats /\ table.postNow \in SUBSET Seats
        /\ table.owesPost \cup {s} \in SUBSET Seats
        /\ table.postNow \cup {s} \in SUBSET Seats
        /\ table.status \in [Seats -> SeatStatus]
    BY <1>1 DEF Tables
  <2> DEFINE seated == [table EXCEPT !.stack = stack, !.status = here("seated")]
  <2>2. SitDown(table, s, chips) = seated
    BY DEF SitDown
  <2>3. /\ seated.owesPost = table.owesPost /\ seated.postNow = table.postNow
        /\ seated.status = here("seated")
    BY <1>1 DEF Tables
  <2>4. CASE hands = 0
    <3>1. table' = seated /\ phase = "waiting"
      BY <1>1, <2>2, <2>4 DEF Join
    <3>2. seated = [table EXCEPT !.stack = stack, !.status = here("seated"),
                                 !.owesPost = table.owesPost, !.postNow = table.postNow]
      BY <1>1 DEF Tables
    <3> HIDE DEF stack, here, seated
    <3> QED BY <2>1, <3>1, <3>2
  <2>5. CASE hands # 0
    <3> DEFINE now == IF postNow THEN table.postNow \cup {s} ELSE table.postNow
               status == IF phase = "waiting" THEN "seated" ELSE "folded"
               u == [table EXCEPT !.stack = stack, !.status = here(status),
                                  !.owesPost = table.owesPost \cup {s}, !.postNow = now]
    <3>1. here("seated")[s] = "seated"
      BY <2>1
    <3>2. table' = [seated EXCEPT
                      !.owesPost = seated.owesPost \cup {s},
                      !.postNow  = IF postNow THEN seated.postNow \cup {s} ELSE seated.postNow,
                      !.status = [seated.status EXCEPT ![s] =
                                    IF phase = "waiting" THEN seated.status[s] ELSE "folded"]]
      BY <2>2, <2>5 DEF Join
    <3>3. [here("seated") EXCEPT ![s] = status] = here(status)
      BY <2>1
    <3> HIDE DEF here
    <3>4. table' = [seated EXCEPT !.owesPost = table.owesPost \cup {s}, !.postNow = now,
                                  !.status = here(status)]
      BY <2>3, <3>1, <3>2, <3>3
    <3>5. table' = u
      BY <3>4
    <3>6. now \in SUBSET Seats /\ status \in {"seated", "folded"}
          /\ (phase = "waiting" <=> status = "seated")
      BY <2>1
    <3> HIDE DEF now, status, stack
    <3> QED BY <2>1, <3>5, <3>6
  <2> QED BY <2>4, <2>5
<1>5. PICK status \in {"seated", "folded"}, owesPost \in SUBSET Seats, now \in SUBSET Seats :
        /\ phase = "waiting" <=> status = "seated"
        /\ table' = [table EXCEPT !.stack = stack, !.status = here(status),
                                  !.owesPost = owesPost, !.postNow = now]
  BY <1>4
<1>6. /\ stack \in [Seats -> Nat] /\ here(status) \in [Seats -> SeatStatus]
      /\ \A r \in Seats : /\ stack[r] = IF r = s THEN chips ELSE table.stack[r]
                          /\ here(status)[r] = IF r = s THEN status ELSE table.status[r]
  BY <1>1, <1>2 DEF Tables, SeatStatus
<1> DEFINE statuses == here(status)
<1> HIDE DEF stack, here, statuses
<1>7. /\ table' \in Tables /\ table'.stack = stack /\ table'.status = statuses
      /\ table'.bet = table.bet /\ table'.contrib = table.contrib
      /\ table'.pot = table.pot /\ table'.currentBet = table.currentBet
      /\ table'.cards = table.cards
      /\ table'.sbSeat = table.sbSeat /\ table'.bbSeat = table.bbSeat
  BY <1>1, <1>5, <1>6 DEF Tables, statuses
<1>8. \A r \in Seats : /\ table'.stack[r] = IF r = s THEN chips ELSE table.stack[r]
                       /\ table'.status[r] = IF r = s THEN status ELSE table.status[r]
  BY <1>6, <1>7 DEF statuses
<1>9. Playable(table')
  BY <1>1, <1>7 DEF Playable, Sound, Backed, Matchable, BetAtMost
<1>10. EmptyBare(table') /\ Anchored(table')
  BY <1>1, <1>7, <1>8 DEF EmptyBare, Anchored
<1>11. phase = "waiting" => Cleared(table')
  BY <1>5, <1>7, <1>8 DEF HInv, Cleared
<1>12. ASSUME phase # "waiting"
       PROVE  /\ NonFoldedSeats(table') = NonFoldedSeats(table)
              /\ Contenders(table) \subseteq Contenders(table')
  <2>1. status = "folded"
    BY <1>5, <1>12
  <2>2. NonFoldedSeats(table') = NonFoldedSeats(table)
    BY <1>2, <1>8, <2>1 DEF NonFoldedSeats
  <2> QED BY <1>7, <2>2 DEF Contenders
<1> QED BY <1>3, <1>9, <1>10, <1>11, <1>12, HandUndisturbed DEF TableInv

LEMMA SitOutStep ==
  ASSUME HInv, NEW s \in Seats, SitOut(s) \/ SitIn(s)
  PROVE  HInv'
<1>1. /\ table \in Tables /\ TableInv(table) /\ Playable(table) /\ EmptyBare(table)
      /\ Anchored(table) /\ cash \in Int
  BY DEF HInv, TableInv, Playable, Sound, CountsInv
<1>2. UNCHANGED <<phase, pending, house, cash, hands>>
  BY DEF SitOut, SitIn
<1>3. \E sittingOut \in SUBSET Seats, owesPost \in SUBSET Seats :
        table' = [table EXCEPT !.sittingOut = sittingOut, !.owesPost = owesPost]
  <2>1. /\ table.owesPost \in SUBSET Seats /\ table.owesPost \cup {s} \in SUBSET Seats
        /\ table.sittingOut \cup {s} \in SUBSET Seats
        /\ table.sittingOut \ {s} \in SUBSET Seats
    BY <1>1 DEF Tables
  <2>2. CASE SitOut(s)
    <3>1. table' = [table EXCEPT !.sittingOut = table.sittingOut \cup {s}]
      BY <2>2 DEF SitOut
    <3>2. table' = [table EXCEPT !.sittingOut = table.sittingOut \cup {s},
                                 !.owesPost = table.owesPost]
      BY <1>1, <3>1 DEF Tables
    <3> QED BY <2>1, <3>2
  <2>3. CASE SitIn(s)
    <3> DEFINE owes == IF hands > 0 THEN table.owesPost \cup {s} ELSE table.owesPost
    <3>1. table' = [table EXCEPT !.sittingOut = table.sittingOut \ {s}, !.owesPost = owes]
      BY <2>3 DEF SitIn
    <3>2. owes \in SUBSET Seats
      BY <2>1
    <3> HIDE DEF owes
    <3> QED BY <2>1, <3>1, <3>2
  <2> QED BY <2>2, <2>3
<1>4. /\ table' \in Tables /\ table'.stack = table.stack /\ table'.status = table.status
      /\ table'.bet = table.bet /\ table'.contrib = table.contrib
      /\ table'.pot = table.pot /\ table'.currentBet = table.currentBet
      /\ table'.cards = table.cards
      /\ table'.sbSeat = table.sbSeat /\ table'.bbSeat = table.bbSeat
  <2>1. PICK sittingOut \in SUBSET Seats, owesPost \in SUBSET Seats :
          table' = [table EXCEPT !.sittingOut = sittingOut, !.owesPost = owesPost]
    BY <1>3
  <2>2. table' \in Tables
    BY <1>1, <2>1 DEF Tables
  <2> QED BY <1>1, <2>1, <2>2 DEF Tables
<1>5. Playable(table')
  BY <1>1, <1>4 DEF Playable, Sound, Backed, Matchable, BetAtMost
<1>6. EmptyBare(table') /\ Anchored(table')
  BY <1>1, <1>4 DEF EmptyBare, Anchored
<1>7. phase = "waiting" => Cleared(table')
  BY <1>4 DEF HInv, Cleared
<1>8. /\ NonFoldedSeats(table') = NonFoldedSeats(table)
      /\ Contenders(table') = Contenders(table)
  BY <1>4 DEF NonFoldedSeats, Contenders
<1> QED BY <1>1, <1>2, <1>5, <1>6, <1>7, <1>8, HandUndisturbed DEF TableInv

----------------------------------------------------------------------------
(* Whatever happens at the table, in every state. *)
LEMMA HandSound == Spec => []HInv
<1>1. HInv /\ [Next]_vars => HInv'
  <2> SUFFICES ASSUME HInv, [Next]_vars PROVE HInv'
    OBVIOUS
  <2>1. CASE Play
    BY <2>1, DealStep, ActStep, ShowdownStep, RefundStep DEF Play
  <2>2. CASE ComeOrGo
    BY <2>2, LeaveStep, JoinStep, SitOutStep DEF ComeOrGo
  <2>3. CASE Done \/ Alone \/ UNCHANGED vars
    <3>1. UNCHANGED <<table, phase, pending, house, cash, hands>>
      BY <2>3 DEF Done, Alone, vars
    <3> QED BY <3>1 DEF HInv, CountsInv
  <2> QED BY <2>1, <2>2, <2>3 DEF Next
<1> QED BY <1>1, InitHInv, PTL DEF Spec

(* No settlement, rake, refund, buy-in or departure takes a stack, a pot   *)
(* or a bet below zero or outside its type: the shares, the odd chips and  *)
(* the rake that DeductRakeFromWinners takes are all covered.              *)
THEOREM HandTypeCorrect == Spec => []TypeOK
<1>1. HInv => TypeOK
  BY DEF HInv, TypeOK, TableInv, Playable, Sound, PlanInv, CountsInv
<1> QED BY <1>1, HandSound, PTL

(* From the plan to the payment, however long engine-math takes and        *)
(* whoever comes, leaves or sits out meanwhile, every pot can be won, and  *)
(* only by seats that are still in the hand they were planned for.         *)
THEOREM WinnersStay == Spec => []WinnersAreStillThere
<1>1. HInv => WinnersAreStillThere
  BY DEF HInv, WinnersAreStillThere, Winnable
<1> QED BY <1>1, HandSound, PTL

(* Between hands nothing is left on the table but the stacks: no pot, bet, *)
(* contribution or status of the last hand reaches the next one.           *)
THEOREM NothingStays == Spec => []NothingLeftOver
<1>1. HInv => NothingLeftOver
  BY DEF HInv, NothingLeftOver, Cleared
<1> QED BY <1>1, HandSound, PTL

----------------------------------------------------------------------------
(* Every chip is somewhere. *)

(* The showdown that is carried out: what is resolved and paid. *)
Resolved == Resolutions(pending.pots, pending.boards, pending.ranks)
PaidOut == Payouts(Resolved, table.button)

LEMMA ResolvedSound ==
  ASSUME HInv, phase = "resolving_sidepots"
  PROVE  Awards(Resolved) /\ AllWon(Resolved) /\ PaidOut \in [Seats -> Nat]
<1>1. /\ pending.pots \in SUBSET Pots /\ IsFiniteSet(pending.pots)
      /\ pending.boards \in Nat \ {0}
      /\ pending.pots # {} =>
           \A b \in 1 .. pending.boards : pending.ranks[b] \in [Seats -> 1 .. MaxRank]
      /\ \A pot \in pending.pots : pot.eligible # {} /\ pot.eligible \in SUBSET Seats
  BY DEF HInv, PlanInv, Winnable, Pots
<1>2. Awards(Resolved)
  BY <1>1, ResolutionsSound DEF Resolved
<1>3. ASSUME NEW res \in Resolved PROVE res.winners # {}
  <2>1. PICK pot \in pending.pots, b \in 1 .. pending.boards :
          res = OnBoard(pot, b, pending.boards, pending.ranks[b])
    BY DEF Resolved, Resolutions
  <2>2. res.winners = WinnersAmong(pot.eligible, pending.ranks[b])
    BY <2>1, OnBoardIs
  <2>3. pending.ranks[b] \in [Seats -> 1 .. MaxRank]
    BY <1>1
  <2> QED BY <1>1, <2>2, <2>3, SomebodyWins
<1> QED BY <1>2, <1>3, PayoutsType DEF AllWon, PaidOut

(* What the settlement of a showdown does with the chips. *)
LEMMA ShowdownPays ==
  ASSUME HInv, ResolveShowdown
  PROVE  /\ house' = house + Rake(table.pot) /\ Rake(table.pot) \in Nat /\ table'.pot = 0
         /\ LET before == Total(table.stack) + cash + Total(PaidOut)
                after  == Total(table'.stack) + cash'
            IN  after <= before /\ before <= after + Rake(table.pot)
         /\ AutoBuyBack = 0 =>
              \A s \in Seats : table'.stack[s] <= table.stack[s] + PaidOut[s]
         /\ AutoBuyBack = 0 /\ Rake(table.pot) = 0 =>
              \A s \in Occupied(table) : table'.stack[s] = table.stack[s] + PaidOut[s]
<1>1. /\ Settled(table) /\ table \in Tables /\ cash \in Int /\ table.stack \in [Seats -> Nat]
      /\ \A s \in Seats : table.status[s] = "empty" => table.stack[s] = 0
  BY TableSettled DEF HInv, CountsInv, Settled, Tables
<1> DEFINE awarded == Awarded(table, PaidOut)
           rake == Rake(table.pot)
           settled == DeductRake(awarded, Resolved, rake)
           owed == Orphaned(table, PaidOut)
           orphaned == [s \in Seats |-> IF s \in Occupied(table) THEN 0 ELSE PaidOut[s]]
<1>2. ToNextHand(settled, owed) /\ house' = house + rake
  BY DEF ResolveShowdown, Resolved, PaidOut
<1>3. Awards(Resolved) /\ AllWon(Resolved) /\ PaidOut \in [Seats -> Nat]
  BY ResolvedSound DEF ResolveShowdown
<1>4. Settled(awarded) /\ owed \in Nat /\ awarded \in Tables
  BY <1>1, <1>3, AwardedSound DEF Settled
<1>5. \A s \in Seats : awarded.stack[s] = IF s \in Occupied(table)
                                          THEN table.stack[s] + PaidOut[s] ELSE 0
  BY <1>1 DEF Awarded, Tables
<1>6. rake \in Nat
  BY <1>1, RakeType
<1>7. owed = Total(orphaned)
  BY DEF Orphaned
<1> HIDE DEF awarded, rake, owed
<1>8. /\ Settled(settled) /\ settled \in Tables
      /\ rake = 0 => settled = awarded
      /\ \A s \in Seats : settled.stack[s] <= awarded.stack[s]
      /\ Total(awarded.stack) <= Total(settled.stack) + rake
  BY <1>3, <1>4, <1>6, DeductRakeSound, DeductRakeTakes DEF Settled
<1> HIDE DEF settled
<1>9. /\ Cleared(table') /\ ChipsKept(settled, owed)
  BY <1>1, <1>2, <1>4, <1>8, NextHandSound
<1>10. ASSUME NEW s \in Seats
       PROVE  /\ table.stack[s] \in Nat /\ PaidOut[s] \in Nat /\ awarded.stack[s] \in Nat
              /\ settled.stack[s] \in Nat /\ orphaned[s] \in Nat
              /\ awarded.stack[s] <= table.stack[s] + PaidOut[s]
              /\ awarded.stack[s] + orphaned[s] = table.stack[s] + PaidOut[s]
  <2>1. table.stack[s] \in Nat /\ PaidOut[s] \in Nat /\ settled.stack[s] \in Nat
    BY <1>1, <1>3, <1>8 DEF Tables
  <2>2. s \notin Occupied(table) => table.stack[s] = 0
    BY <1>1 DEF Occupied
  <2> QED BY <1>5, <2>1, <2>2
<1>11. LET before == Total(table.stack) + cash + Total(PaidOut)
           after  == Total(table'.stack) + cash'
       IN  after <= before /\ before <= after + rake
  <2> DEFINE both == [s \in Seats |-> table.stack[s] + PaidOut[s]]
  <2>1. \A s \in Seats : /\ awarded.stack[s] \in Nat /\ orphaned[s] \in Nat
                         /\ both[s] = awarded.stack[s] + orphaned[s]
    BY <1>10
  <2>2. Total(both) = Total(table.stack) + Total(PaidOut)
    BY <1>1, <1>3, TotalOfSum
  <2> HIDE DEF both, orphaned
  <2>3. Total(both) = Total(awarded.stack) + Total(orphaned)
    BY <2>1, SeatsFinite, SumOfSums DEF Total
  <2>4. Total(table'.stack) + cash' = Total(settled.stack) + cash + Total(orphaned)
    BY <1>7, <1>9 DEF ChipsKept
  <2>5. PICK a \in Nat, o \in Nat, b \in Nat, p \in Nat, n \in Nat :
          /\ a = Total(awarded.stack) /\ o = Total(orphaned)
          /\ b = Total(table.stack) /\ p = Total(PaidOut) /\ n = Total(settled.stack)
    <3>1. awarded.stack \in [Seats -> Nat] /\ settled.stack \in [Seats -> Nat]
      BY <1>4, <1>8 DEF Tables
    <3> QED BY <1>1, <1>3, <1>4, <1>7, <3>1, TotalType
  <2>6. b + p = a + o
    BY <2>2, <2>3, <2>5
  <2>7. n <= a
    BY <1>10, <1>8, <2>5, SeatsFinite, SumMonotone DEF Total
  <2>8. a <= n + rake
    BY <1>8, <2>5
  <2>9. Total(table'.stack) + cash' = n + cash + o
    BY <2>4, <2>5
  <2>10. n + cash + o <= b + cash + p /\ b + cash + p <= n + cash + o + rake
    BY <1>1, <1>6, <2>5, <2>6, <2>7, <2>8
  <2> QED BY <2>5, <2>9, <2>10
<1>12. ASSUME AutoBuyBack = 0, NEW s \in Seats
       PROVE  /\ table'.stack[s] <= table.stack[s] + PaidOut[s]
              /\ rake = 0 /\ s \in Occupied(table) =>
                   table'.stack[s] = table.stack[s] + PaidOut[s]
  <2>1. table'.stack[s] = settled.stack[s]
    BY <1>9, <1>12 DEF ChipsKept
  <2>2. settled.stack[s] <= table.stack[s] + PaidOut[s]
    BY <1>8, <1>10
  <2>3. rake = 0 => settled.stack[s] = awarded.stack[s]
    BY <1>8
  <2> QED BY <1>5, <2>1, <2>2, <2>3
<1>13. \A s \in Occupied(table) : s \in Seats
  BY DEF Occupied
<1> QED BY <1>2, <1>6, <1>9, <1>11, <1>12, <1>13 DEF Cleared, rake

(* All that is paid is what the pots hold. *)
LEMMA AllPaid ==
  ASSUME HInv, phase = "resolving_sidepots"
  PROVE  Total(PaidOut) = Claimed
<1>1. Awards(Resolved) /\ AllWon(Resolved) /\ PaidOut \in [Seats -> Nat]
  BY ResolvedSound
<1>2. /\ pending.pots \in SUBSET Pots /\ IsFiniteSet(pending.pots) /\ ApartByLevel(pending.pots)
      /\ pending.boards \in Nat \ {0} /\ table.button \in Seats
  BY DEF HInv, PlanInv, TableInv, Playable, Sound, Tables
<1>3. ASSUME NEW res \in Resolved PROVE res.level \in Nat /\ res.winners \subseteq Seats
  <2>1. PICK pot \in pending.pots, b \in 1 .. pending.boards :
          res = OnBoard(pot, b, pending.boards, pending.ranks[b])
    BY DEF Resolved, Resolutions
  <2>2. res.level = pot.level /\ pot.level \in Nat
    BY <1>2, <2>1, OnBoardIs DEF Pots
  <2> QED BY <1>1, <2>2 DEF Awards
<1>4. Total([s \in Seats |-> IF s \in Seats THEN PaidOut[s] ELSE 0])
        = SumFunctionOnSet(OfLevels(Nat, Resolved), Resolved)
  BY <1>1, <1>2, <1>3, PaidTogether DEF PaidOut
<1>5. [s \in Seats |-> IF s \in Seats THEN PaidOut[s] ELSE 0] = PaidOut
  BY <1>1
<1>6. SumFunctionOnSet(OfLevels(Nat, Resolved), Resolved)
        = SumFunctionOnSet(OfLevels(Nat, pending.pots), pending.pots)
  BY <1>2, ResolutionsAddUp DEF Resolved
<1>7. OfLevels(Nat, pending.pots) = [pot \in pending.pots |-> pot.amount]
  BY <1>2 DEF OfLevels, Pots
<1>8. Claimed = SumFunctionOnSet([pot \in pending.pots |-> pot.amount], pending.pots)
  BY DEF Claimed, SumFunction
<1> QED BY <1>4, <1>5, <1>6, <1>7, <1>8

(* Chips that move between the seats and the pot are worth the same. *)
LEMMA SameChipsWorth ==
  ASSUME NEW t \in Tables, NEW u \in Tables, SameChips(t, u)
  PROVE  Total(u.stack) + u.pot = Total(t.stack) + t.pot
<1> DEFINE before == [s \in Seats |-> t.stack[s] + t.contrib[s]]
           after == [s \in Seats |-> u.stack[s] + u.contrib[s]]
<1>1. /\ t.stack \in [Seats -> Nat] /\ t.contrib \in [Seats -> Nat] /\ t.pot \in Nat
      /\ u.stack \in [Seats -> Nat] /\ u.contrib \in [Seats -> Nat] /\ u.pot \in Nat
  BY DEF Tables
<1>2. /\ Total(before) = Total(t.stack) + Total(t.contrib)
      /\ Total(after) = Total(u.stack) + Total(u.contrib)
  BY <1>1, TotalOfSum
<1>3. before = after
  BY DEF SameChips
<1>4. PICK a \in Nat, b \in Nat, c \in Nat, d \in Nat :
        /\ a = Total(t.stack) /\ b = Total(t.contrib)
        /\ c = Total(u.stack) /\ d = Total(u.contrib)
  BY <1>1, TotalType
<1> HIDE DEF before, after
<1>5. a + b = c + d /\ u.pot + b = t.pot + d
  BY <1>2, <1>3, <1>4 DEF SameChips
<1> QED BY <1>1, <1>4, <1>5

(* A hand in play moves chips between the seats and the pot only. *)
LEMMA PlayChips ==
  ASSUME HInv, NextHand \/ PlayerActs
  PROVE  SameChips(table, table') /\ table' \in Tables
BY HandDealt, TurnPlayed DEF TableInv, Playable, Sound

(* A newcomer's chips come from a wallet, a leaver's go to one. *)
LEMMA WalletChips ==
  ASSUME HInv, ComeOrGo
  PROVE  /\ Total(table'.stack) + cash' = Total(table.stack) + cash
         /\ table'.pot = table.pot /\ house' = house
<1>1. /\ table \in Tables /\ EmptyBare(table) /\ cash \in Int /\ table.stack \in [Seats -> Nat]
  BY DEF HInv, TableInv, Playable, Sound, CountsInv, Tables
<1>2. PICK s \in Seats :
        \/ Leave(s)
        \/ \E chips \in BuyIns, postNow \in BOOLEAN : Join(s, chips, postNow)
        \/ SitOut(s) \/ SitIn(s)
  BY DEF ComeOrGo
<1>3. ASSUME NEW n \in Nat, table'.stack = [table.stack EXCEPT ![s] = n],
             cash' = cash + table.stack[s] - n
      PROVE  Total(table'.stack) + cash' = Total(table.stack) + cash
  <2>1. Total(table'.stack) + table.stack[s] = Total(table.stack) + n
    BY <1>1, <1>3, TotalChanged
  <2>2. PICK a \in Nat, b \in Nat, k \in Nat :
          a = Total(table'.stack) /\ b = Total(table.stack) /\ k = table.stack[s]
    <3>1. table'.stack \in [Seats -> Nat]
      BY <1>1, <1>3
    <3> QED BY <1>1, <3>1, TotalType
  <2> QED BY <1>1, <1>3, <2>1, <2>2
<1>4. CASE Leave(s)
  <2>1. StoodUp(table, table', {s})
    BY <1>1, <1>4, StandUpSound DEF Leave
  <2>2. /\ table' \in Tables /\ table'.pot = table.pot
        /\ \A r \in Seats : table'.stack[r] = IF r = s THEN 0 ELSE table.stack[r]
    BY <2>1 DEF StoodUp
  <2>3. table'.stack = [table.stack EXCEPT ![s] = 0]
    BY <1>1, <2>2 DEF Tables
  <2>4. cash' = cash + table.stack[s] - 0 /\ house' = house
    BY <1>1, <1>4 DEF Leave
  <2> QED BY <1>3, <2>2, <2>3, <2>4
<1>5. CASE \E chips \in BuyIns, postNow \in BOOLEAN : Join(s, chips, postNow)
  <2>1. PICK chips \in BuyIns, postNow \in BOOLEAN : Join(s, chips, postNow)
    BY <1>5
  <2>2. chips \in Nat /\ table.stack[s] = 0
    BY <1>1, <2>1, HandAssumption DEF Join, Occupied, EmptyBare
  <2>3. table'.stack = [table.stack EXCEPT ![s] = chips] /\ table'.pot = table.pot
    <3> DEFINE seated == SitDown(table, s, chips)
    <3>1. seated.stack = [table.stack EXCEPT ![s] = chips] /\ seated.pot = table.pot
      BY <1>1 DEF SitDown, Tables
    <3>2. table'.stack = seated.stack /\ table'.pot = seated.pot
      BY <1>1, <2>1 DEF Join, SitDown, Tables
    <3> QED BY <3>1, <3>2
  <2>4. cash' = cash + table.stack[s] - chips /\ house' = house
    BY <1>1, <2>1, <2>2 DEF Join
  <2> QED BY <1>3, <2>2, <2>3, <2>4
<1>6. CASE SitOut(s) \/ SitIn(s)
  <2>1. table'.stack = table.stack /\ table'.pot = table.pot
    BY <1>1, <1>6 DEF SitOut, SitIn, Tables
  <2>2. cash' = cash /\ house' = house
    BY <1>6 DEF SitOut, SitIn
  <2> QED BY <2>1, <2>2
<1> QED BY <1>2, <1>4, <1>5, <1>6

(* A refund returns to the seats what they have put in. *)
LEMMA RefundPays ==
  ASSUME HInv, RefundHand
  PROVE  /\ Total(table'.stack) + cash' = Total(table.stack) + Total(table.contrib) + cash
         /\ table'.pot = 0 /\ house' = house
<1>1. /\ Settled(table) /\ table \in Tables /\ EmptyBare(table) /\ cash \in Int
      /\ table.stack \in [Seats -> Nat] /\ table.contrib \in [Seats -> Nat]
  BY TableSettled DEF HInv, CountsInv, Settled, TableInv, Tables
<1> DEFINE stack == [s \in Seats |-> table.stack[s] + table.contrib[s]]
           refunded == [table EXCEPT !.pot = 0, !.stack = stack]
<1>2. ToNextHand(refunded, 0) /\ house' = house
  BY DEF RefundHand
<1>3. /\ stack \in [Seats -> Nat]
      /\ \A s \in Seats : table.status[s] = "empty" => stack[s] = 0
  BY <1>1 DEF EmptyBare
<1>4. Total(stack) = Total(table.stack) + Total(table.contrib)
  BY <1>1, TotalOfSum
<1> HIDE DEF stack
<1>5. Settled(refunded) /\ refunded.stack = stack
  BY <1>1, <1>3, PotPaid DEF Tables
<1> HIDE DEF refunded
<1>6. Cleared(table') /\ ChipsKept(refunded, 0)
  BY <1>1, <1>2, <1>5, NextHandSound
<1>7. Total(table'.stack) + cash' = Total(stack) + cash + 0
  BY <1>5, <1>6 DEF ChipsKept
<1>8. Total(stack) \in Nat
  BY <1>3, TotalType
<1>9. Total(table'.stack) + cash' = Total(stack) + cash
  BY <1>1, <1>7, <1>8
<1> QED BY <1>2, <1>4, <1>6, <1>9 DEF Cleared

LEMMA NoRake ==
  ASSUME table \in Tables, RakeBps = 0
  PROVE  Rake(table.pot) = 0
<1>1. table.pot \in Nat /\ RakeCap \in Nat
  BY HandAssumption DEF Tables
<1>2. (table.pot * RakeBps) \div 10000 = 0
  <2>1. table.pot * 0 = 0
    BY <1>1
  <2>2. 0 \div 10000 = 0
    OBVIOUS
  <2> QED BY <2>1, <2>2
<1> QED BY <1>1, <1>2 DEF Rake, Lesser

(* Total, pot, house and cash of a step, taken together. *)
LEMMA WorthOf ==
  ASSUME HInv, HInv', NEW n \in Int,
         house' = house,
         Total(table'.stack) + table'.pot + cash' = Total(table.stack) + table.pot + cash - n
  PROVE  Worth - Worth' = n
<1>1. /\ table \in Tables /\ house \in Nat /\ cash \in Int
      /\ table' \in Tables /\ house' \in Nat /\ cash' \in Int
  BY DEF HInv, CountsInv, TableInv, Playable, Sound
<1>2. PICK a \in Nat, b \in Nat, p \in Nat, q \in Nat :
        /\ a = Total(table.stack) /\ b = Total(table'.stack) /\ p = table.pot /\ q = table'.pot
  BY <1>1, TotalType DEF Tables
<1>3. /\ Worth = a + p + house + cash
      /\ Worth' = b + q + house' + cash'
  BY <1>2 DEF Worth
<1>4. b + q + cash' = a + p + cash - n
  BY <1>2
<1> QED BY SMTT(30), <1>1, <1>2, <1>3, <1>4

(* With no rake to be collected, the chips in stacks, in the pot, with the *)
(* house and in wallets stay the same through every deal, bet, timeout,    *)
(* arrival, departure and buy-back; a showdown loses only what was planned *)
(* into no pot, and a refund only what is owed to seats that are empty.    *)
THEOREM ChipsStayCounted ==
  ASSUME RakeBps = 0
  PROVE  Spec => OnlyUnclaimedChipsVanish
<1>1. ASSUME HInv, HInv', [Next]_vars
      PROVE  [Worth - Worth' = CASE ResolveShowdown -> table.pot - Claimed
                                 [] RefundHand      -> table.pot - Total(table.contrib)
                                 [] OTHER           -> 0]_vars
  <2>1. /\ table \in Tables /\ house \in Nat /\ cash \in Int /\ table.pot \in Nat
        /\ table' \in Tables /\ house' \in Nat /\ cash' \in Int /\ table'.pot \in Nat
    BY <1>1 DEF HInv, CountsInv, TableInv, Playable, Sound, Tables
  <2>2. /\ Total(table.stack) \in Nat /\ Total(table'.stack) \in Nat
        /\ Total(table.contrib) \in Nat
    BY <2>1, TotalType DEF Tables
  <2>3. ASSUME ResolveShowdown PROVE Worth - Worth' = table.pot - Claimed
    <3>1. phase = "resolving_sidepots" /\ Rake(table.pot) = 0
      BY <2>1, <2>3, NoRake DEF ResolveShowdown
    <3>2. /\ house' = house + 0 /\ table'.pot = 0
          /\ Total(table'.stack) + cash' <= Total(table.stack) + cash + Total(PaidOut)
          /\ Total(table.stack) + cash + Total(PaidOut) <= Total(table'.stack) + cash' + 0
      BY <1>1, <2>3, <3>1, ShowdownPays
    <3>3. Total(PaidOut) = Claimed /\ Total(PaidOut) \in Nat
      BY <1>1, <3>1, AllPaid, ResolvedSound, TotalType
    <3>4. Total(table'.stack) + table'.pot + cash'
            = Total(table.stack) + table.pot + cash - (table.pot - Claimed)
      BY <2>1, <2>2, <3>2, <3>3
    <3>5. house' = house /\ table.pot - Claimed \in Int
      BY <2>1, <3>2, <3>3
    <3> QED BY <1>1, <3>4, <3>5, WorthOf
  <2>4. ASSUME RefundHand PROVE Worth - Worth' = table.pot - Total(table.contrib)
    <3>1. /\ house' = house /\ table'.pot = 0
          /\ Total(table'.stack) + cash' = Total(table.stack) + Total(table.contrib) + cash
      BY <1>1, <2>4, RefundPays
    <3>2. Total(table'.stack) + table'.pot + cash'
            = Total(table.stack) + table.pot + cash - (table.pot - Total(table.contrib))
      BY <2>1, <2>2, <3>1
    <3> QED BY <1>1, <2>1, <2>2, <3>1, <3>2, WorthOf
  <2>5. ASSUME Next, ~ResolveShowdown, ~RefundHand PROVE Worth - Worth' = 0
    <3>1. CASE NextHand \/ PlayerActs
      <4>1. Total(table'.stack) + table'.pot = Total(table.stack) + table.pot
        BY <1>1, <2>1, <3>1, PlayChips, SameChipsWorth
      <4>2. house' = house /\ cash' = cash
        BY <3>1 DEF NextHand, PlayerActs
      <4>3. Total(table'.stack) + table'.pot + cash'
              = Total(table.stack) + table.pot + cash - 0
        BY <2>1, <2>2, <4>1, <4>2
      <4> QED BY <1>1, <4>2, <4>3, WorthOf
    <3>2. CASE ComeOrGo
      <4>1. /\ Total(table'.stack) + cash' = Total(table.stack) + cash
            /\ table'.pot = table.pot /\ house' = house
        BY <1>1, <3>2, WalletChips
      <4>2. Total(table'.stack) + table'.pot + cash'
              = Total(table.stack) + table.pot + cash - 0
        BY <2>1, <2>2, <4>1
      <4> QED BY <1>1, <4>1, <4>2, WorthOf
    <3>3. CASE Done \/ Alone
      <4>1. table' = table /\ house' = house /\ cash' = cash
        BY <3>3 DEF Done, Alone, vars
      <4>2. Total(table'.stack) + table'.pot + cash'
              = Total(table.stack) + table.pot + cash - 0
        BY <2>1, <2>2, <4>1
      <4> QED BY <1>1, <4>1, <4>2, WorthOf
    <3> QED BY <2>5, <3>1, <3>2, <3>3 DEF Next, Play
  <2> QED BY <1>1, <2>3, <2>4, <2>5
<1>2. HInv /\ HInv' /\ [Next]_vars =>
        [Worth - Worth' = CASE ResolveShowdown -> table.pot - Claimed
                            [] RefundHand      -> table.pot - Total(table.contrib)
                            [] OTHER           -> 0]_vars
  BY <1>1
<1> QED BY <1>2, HandSound, PTL DEF Spec, OnlyUnclaimedChipsVanish

(* Whatever the rake, a showdown loses no chip that was planned into a     *)
(* pot: DeductRakeFromWinners takes from the winners at most the rake that *)
(* the house is credited with.  Where rounding or small winnings keep it   *)
(* from taking all of it, the chips that are made are no more than that.   *)
THEOREM NoChipLostToRake ==
  Spec => [][ResolveShowdown =>
               LET made == Worth' - (Worth - (table.pot - Claimed))
               IN  0 <= made /\ made <= Rake(table.pot)]_vars
<1>1. ASSUME HInv, HInv', ResolveShowdown
      PROVE  LET made == Worth' - (Worth - (table.pot - Claimed))
             IN  0 <= made /\ made <= Rake(table.pot)
  <2>1. /\ table \in Tables /\ house \in Nat /\ cash \in Int /\ table.pot \in Nat
        /\ table' \in Tables /\ house' \in Nat /\ cash' \in Int
    BY <1>1 DEF HInv, CountsInv, TableInv, Playable, Sound, Tables
  <2>2. phase = "resolving_sidepots"
    BY <1>1 DEF ResolveShowdown
  <2>3. PICK rake \in Nat : rake = Rake(table.pot)
    BY <1>1, ShowdownPays
  <2>4. PICK a \in Nat, b \in Nat, p \in Nat :
          a = Total(table.stack) /\ b = Total(table'.stack) /\ p = Claimed /\ p = Total(PaidOut)
    BY <1>1, <2>1, <2>2, AllPaid, ResolvedSound, TotalType DEF Tables
  <2>5. /\ house' = house + rake /\ table'.pot = 0
        /\ b + cash' <= a + cash + p /\ a + cash + p <= b + cash' + rake
    BY <1>1, <2>3, <2>4, ShowdownPays
  <2>6. /\ Worth = a + table.pot + house + cash
        /\ Worth' = b + 0 + house' + cash'
    BY <2>4, <2>5 DEF Worth
  <2> QED BY <2>1, <2>3, <2>4, <2>5, <2>6
<1>2. HInv /\ HInv' /\ [Next]_vars =>
        [ResolveShowdown =>
           LET made == Worth' - (Worth - (table.pot - Claimed))
           IN  0 <= made /\ made <= Rake(table.pot)]_vars
  BY <1>1
<1> QED BY <1>2, HandSound, PTL DEF Spec

----------------------------------------------------------------------------
(* Table stakes. *)

(* The largest of some numbers. *)
LEMMA MaxOfIn ==
  ASSUME NEW S \in SUBSET Nat, S # {}, NEW bound \in Nat, \A n \in S : n <= bound
  PROVE  MaxOf(S) \in S /\ \A n \in S : n <= MaxOf(S)
<1> DEFINE short == {bound - n : n \in S}
<1>1. short \in SUBSET Nat
  OBVIOUS
<1>2. PICK n \in S : TRUE
  OBVIOUS
<1>3. bound - n \in short
  BY <1>2
<1>4. PICK least \in short : \A other \in short : ~(other < least)
  <2> HIDE DEF short
  <2> QED BY <1>1, <1>3, LeastOf
<1>5. PICK most \in S : least = bound - most
  BY <1>4
<1>6. \A m \in S : m <= most
  <2> TAKE m \in S
  <2>1. bound - m \in short
    OBVIOUS
  <2>2. ~(bound - m < bound - most)
    BY <1>4, <1>5, <2>1
  <2> QED BY <2>2
<1> QED BY <1>5, <1>6 DEF MaxOf

(* A pot that BuildSidePots makes is one for those who have paid up to its *)
(* level.                                                                  *)
LEMMA PieceIs ==
  ASSUME NEW t, NEW pot \in Pieces(t)
  PROVE  /\ pot.level \in Levels(t)
         /\ \A s \in Seats : s \in pot.eligible <=>
              t.contrib[s] >= pot.level /\ t.status[s] # "folded"
<1>1. PICK level \in Levels(t) : pot = Layer(t, level)
  BY DEF Pieces
<1>2. /\ pot.level = level
      /\ pot.eligible = {s \in {r \in Seats : t.contrib[r] >= level} : t.status[s] # "folded"}
  BY <1>1 DEF Layer
<1> QED BY <1>2

(* A pot that the seats' contributions account for is cut into layers, or  *)
(* it is empty.                                                            *)
LEMMA PlannedPieces ==
  ASSUME NEW t \in Tables, Accounted(t), ~Uncontested(t)
  PROVE  PlannedPots(t) = Pieces(t)
<1>1. CASE Levels(t) # {}
  BY <1>1 DEF PlannedPots, BuildSidePots, Pieces
<1>2. CASE Levels(t) = {}
  <2>1. \A s \in Seats : t.contrib[s] = 0
    BY <1>2, StakeType
  <2>2. t.pot = 0
    BY <2>1, SeatsFinite, SumOfZeros DEF Accounted, Total
  <2>3. PlannedPots(t) = {}
    BY <1>2, <2>2 DEF PlannedPots, BuildSidePots
  <2> QED BY <1>2, <2>3 DEF Pieces
<1> QED BY <1>1, <1>2

(* The pots up to the stake of a seat that can win hold what it is matched *)
(* by.                                                                     *)
LEMMA StakeCovered ==
  ASSUME NEW t \in Tables, EmptyBare(t), NEW a \in NonFoldedSeats(t),
         NEW pots, pots = Pieces(t)
  PROVE  SumFunctionOnSet(OfLevels(0 .. t.contrib[a], pots), pots) = Matched(t, t.contrib[a])
<1>1. /\ a \in Seats /\ t.status[a] # "folded"
      /\ t.contrib[a] \in Nat /\ t.contrib[a] \in {0} \cup Levels(t)
  BY StakeType DEF NonFoldedSeats
<1>2. IsFiniteSet(Levels(t)) /\ Levels(t) \in SUBSET (Nat \ {0})
  BY LevelsFinite
<1>3. CASE t.contrib[a] \in Levels(t)
  <2>1. \A level \in Levels(t) : level <= t.contrib[a] => a \in Layer(t, level).eligible
    <3> TAKE level \in Levels(t)
    <3> HAVE level <= t.contrib[a]
    <3>1. a \in {s \in {r \in Seats : t.contrib[r] >= level} : t.status[s] # "folded"}
      BY <1>1, <1>2
    <3> QED BY <3>1 DEF Layer
  <2>2. \A level \in Levels(t) : level <= t.contrib[a] => Layer(t, level).eligible # {}
    BY <2>1
  <2> QED BY <1>3, <2>2, PotsAddUp
<1>4. CASE t.contrib[a] = 0
  <2> DEFINE nothing == [r \in Seats |-> Lesser(t.contrib[r], 0)]
             f == OfLevels(0 .. 0, pots)
  <2>1. \A r \in Seats : nothing[r] = 0
    BY StakeType DEF Lesser
  <2>2. Matched(t, 0) = 0
    <3> HIDE DEF nothing
    <3>1. SumFunctionOnSet(nothing, Seats) = 0
      BY <2>1, SeatsFinite, SumOfZeros
    <3> QED BY <3>1 DEF Matched, Total, nothing
  <2>3. \A pot \in pots : f[pot] = 0
    <3> TAKE pot \in pots
    <3>1. pot.level \in Nat \ {0}
      BY <1>2, PieceIs
    <3> QED BY <3>1 DEF OfLevels
  <2>4. IsFiniteSet(pots)
    <3> DEFINE layers == {Layer(t, level) : level \in Levels(t)}
               cut == [level \in Levels(t) |-> Layer(t, level)]
    <3>1. cut \in Surjection(Levels(t), layers)
      BY DEF Surjection
    <3>2. IsFiniteSet(layers)
      BY <1>2, <3>1, FS_Surjection
    <3>3. pots \in SUBSET layers
      BY DEF Pieces
    <3> QED BY <3>2, <3>3, FS_Subset
  <2> HIDE DEF f
  <2>5. SumFunctionOnSet(f, pots) = 0
    BY <2>3, <2>4, SumOfZeros
  <2> QED BY <1>4, <2>2, <2>5 DEF f
<1> QED BY <1>1, <1>3, <1>4

(* With the same players throughout, the pot is at all times what they     *)
(* have contributed, and the plan is that of the table as it stands.       *)
SteadyInv ==
  /\ HInv /\ Accounted(table)
  /\ phase # "waiting" => OnlyHolders(table, phase)
  /\ phase = "resolving_sidepots" => pending.pots = PlannedPots(table)

LEMMA ClearedAccounted ==
  ASSUME NEW t, Cleared(t) PROVE Accounted(t)
BY TotalOfNothing DEF Cleared, Accounted, NoBets

LEMMA SteadySound == SteadySpec => []SteadyInv
<1>1. Init => SteadyInv
  <2> SUFFICES ASSUME Init PROVE SteadyInv
    OBVIOUS
  <2>1. HInv /\ phase = "waiting"
    BY InitHInv DEF Init
  <2> QED BY <2>1, ClearedAccounted DEF SteadyInv, HInv
<1>2. SteadyInv /\ [Play \/ Done \/ Alone]_vars => SteadyInv'
  <2> SUFFICES ASSUME SteadyInv, [Play \/ Done \/ Alone]_vars PROVE SteadyInv'
    OBVIOUS
  <2>1. HInv /\ table \in Tables /\ Accounted(table)
    BY DEF SteadyInv, HInv, TableInv, Playable, Sound
  <2>2. CASE NextHand \/ PlayerActs
    <3>1. /\ phase # "resolving_sidepots" /\ SameChips(table, table') /\ TableInv(table')
          /\ OnlyHolders(table', phase') /\ Contenders(table') # {}
          /\ PlanShowdown /\ HInv'
      <4>1. CASE NextHand
        <5>1. Cardinality(Contenders(table')) >= 2
          BY <2>1, <4>1, HandDealt
        <5>2. Contenders(table') # {}
          BY <5>1, ContendersIn
        <5> QED BY <2>1, <4>1, <5>2, HandDealt, DealStep DEF NextHand
      <4>2. CASE PlayerActs
        BY <2>1, <4>2, TurnPlayed, ActStep DEF PlayerActs, SteadyInv
      <4> QED BY <2>2, <4>1, <4>2
    <3>2. table' \in Tables /\ EmptyBare(table') /\ PlanInv(pending)
      BY <2>1, <3>1 DEF TableInv, Playable, Sound, HInv
    <3>3. Accounted(table')
      BY <2>1, <3>1, <3>2, SameChipsAccounted
    <3>4. phase' = "resolving_sidepots" => pending'.pots = PlannedPots(table')
      BY <3>1, <3>2, PlanMade
    <3> QED BY <3>1, <3>3, <3>4 DEF SteadyInv
  <2>3. CASE ResolveShowdown \/ RefundHand
    <3>1. HInv' /\ phase' = "waiting"
      BY <2>1, <2>3, ShowdownStep, RefundStep DEF ResolveShowdown, RefundHand, ToNextHand
    <3> QED BY <3>1, ClearedAccounted DEF SteadyInv, HInv
  <2>4. CASE Done \/ Alone \/ UNCHANGED vars
    <3>1. UNCHANGED <<table, phase, pending, house, cash, hands>>
      BY <2>4 DEF Done, Alone, vars
    <3> QED BY <3>1 DEF SteadyInv, HInv, CountsInv
  <2> QED BY <2>2, <2>3, <2>4 DEF Play
<1> QED BY <1>1, <1>2, PTL DEF SteadySpec

(* What is known when the showdown of a steady table is carried out: who   *)
(* wins at what level.                                                     *)
LEMMA ResolvedLayers ==
  ASSUME SteadyInv, phase = "resolving_sidepots", ~Uncontested(table)
  PROVE  /\ pending.pots = Pieces(table) /\ Contenders(table) = NonFoldedSeats(table)
         /\ \A res \in Resolved : \E pot \in Pieces(table), b \in 1 .. pending.boards :
              /\ res.level = pot.level /\ pot.eligible \subseteq NonFoldedSeats(table)
              /\ res.winners = WinnersAmong(pot.eligible, pending.ranks[b])
              /\ pending.ranks[b] \in [Seats -> 1 .. MaxRank]
<1>1. /\ table \in Tables /\ Accounted(table) /\ pending.pots = PlannedPots(table)
      /\ OnlyHolders(table, phase)
      /\ \A pot \in pending.pots : pot.eligible \subseteq NonFoldedSeats(table)
      /\ pending.pots # {} =>
           \A b \in 1 .. pending.boards : pending.ranks[b] \in [Seats -> 1 .. MaxRank]
  BY DEF SteadyInv, HInv, TableInv, Playable, Sound, Winnable, PlanInv
<1>2. pending.pots = Pieces(table)
  BY <1>1, PlannedPieces
<1>3. Contenders(table) = NonFoldedSeats(table)
  BY <1>1 DEF OnlyHolders, Contenders
<1>4. ASSUME NEW res \in Resolved
      PROVE  \E pot \in Pieces(table), b \in 1 .. pending.boards :
              /\ res.level = pot.level /\ pot.eligible \subseteq NonFoldedSeats(table)
              /\ res.winners = WinnersAmong(pot.eligible, pending.ranks[b])
              /\ pending.ranks[b] \in [Seats -> 1 .. MaxRank]
  <2>1. PICK pot \in pending.pots, b \in 1 .. pending.boards :
          res = OnBoard(pot, b, pending.boards, pending.ranks[b])
    BY DEF Resolved, Resolutions
  <2>2. res.level = pot.level /\ res.winners = WinnersAmong(pot.eligible, pending.ranks[b])
    BY <2>1, OnBoardIs
  <2>3. /\ pot \in Pieces(table) /\ pot.eligible \subseteq NonFoldedSeats(table)
        /\ pending.ranks[b] \in [Seats -> 1 .. MaxRank]
    BY <1>1, <1>2
  <2> QED BY <2>2, <2>3
<1> QED BY <1>2, <1>3, <1>4

(* What the levels of L hold is what is paid at them. *)
LEMMA PaidAtLevels ==
  ASSUME HInv, NEW L
  PROVE  SumFunctionOnSet(OfLevels(L, Resolved), Resolved)
           = SumFunctionOnSet(OfLevels(L, pending.pots), pending.pots)
BY ResolutionsAddUp DEF HInv, PlanInv, Resolved

LEMMA PaidWithinStake ==
  ASSUME SteadyInv, phase = "resolving_sidepots", ~Uncontested(table), NEW s \in Seats
  PROVE  PaidOut[s] <= MatchedBy(table.contrib[s])
<1>1. HInv /\ table \in Tables /\ EmptyBare(table) /\ table.button \in Seats
  BY DEF SteadyInv, HInv, TableInv, Playable, Sound, Tables
<1>2. Awards(Resolved) /\ AllWon(Resolved) /\ PaidOut \in [Seats -> Nat]
  BY <1>1, ResolvedSound
<1>3. MatchedBy(table.contrib[s]) = Matched(table, table.contrib[s])
  BY DEF MatchedBy, Matched
<1>4. CASE \E res \in Resolved : s \in res.winners
  <2> DEFINE L == 0 .. table.contrib[s]
  <2>1. ASSUME NEW res \in Resolved, s \in res.winners
        PROVE  res.level \in L /\ s \in NonFoldedSeats(table)
    <3>1. PICK pot \in Pieces(table), b \in 1 .. pending.boards :
            /\ res.level = pot.level /\ pot.eligible \subseteq NonFoldedSeats(table)
            /\ res.winners = WinnersAmong(pot.eligible, pending.ranks[b])
      BY ResolvedLayers
    <3>2. s \in pot.eligible
      BY <2>1, <3>1 DEF WinnersAmong
    <3>3. table.contrib[s] >= pot.level /\ pot.level \in Nat /\ table.contrib[s] \in Nat
      BY <1>1, <3>2, PieceIs, LevelsFinite, StakeType
    <3> QED BY <3>1, <3>2, <3>3
  <2>2. PaidOut[s] <= SumFunctionOnSet(OfLevels(L, Resolved), Resolved)
    <3> HIDE DEF L
    <3> QED BY <1>1, <1>2, <2>1, PaidAtMost DEF PaidOut
  <2>3. s \in NonFoldedSeats(table) /\ pending.pots = Pieces(table)
    BY <1>4, <2>1, ResolvedLayers
  <2>4. SumFunctionOnSet(OfLevels(L, pending.pots), pending.pots)
          = Matched(table, table.contrib[s])
    BY <1>1, <2>3, StakeCovered
  <2> QED BY <1>1, <1>3, <2>2, <2>4, PaidAtLevels
<1>5. CASE ~ \E res \in Resolved : s \in res.winners
  <2>1. PaidOut[s] <= SumFunctionOnSet(OfLevels({}, Resolved), Resolved)
    BY <1>1, <1>2, <1>5, PaidAtMost DEF PaidOut
  <2>2. SumFunctionOnSet(OfLevels({}, Resolved), Resolved) = 0
    <3>1. \A res \in Resolved : OfLevels({}, Resolved)[res] = 0
      BY DEF OfLevels
    <3> QED BY <1>2, <3>1, SumOfZeros DEF Awards
  <2>3. Matched(table, table.contrib[s]) \in Nat
    <3> DEFINE part == [r \in Seats |-> Lesser(table.contrib[r], table.contrib[s])]
    <3>1. part \in [Seats -> Nat]
      BY <1>1, StakeType DEF Lesser
    <3> HIDE DEF part
    <3>2. Total(part) \in Nat
      BY <3>1, TotalType
    <3> QED BY <3>2 DEF Matched, part
  <2>4. PaidOut[s] \in Nat
    BY <1>2
  <2> QED BY <1>3, <2>1, <2>2, <2>3, <2>4
<1> QED BY <1>4, <1>5

(* Whatever the rake and however many boards are run, no player wins more  *)
(* than the stakes match of their own, as long as nobody comes or goes and *)
(* no felted player buys back in, which the property does not tell from    *)
(* winnings.                                                               *)
THEOREM NobodyOverpaid ==
  ASSUME AutoBuyBack = 0
  PROVE  SteadySpec => NobodyWinsMoreThanMatched
<1>1. ASSUME SteadyInv, ResolveShowdown, ~Uncontested(table), NEW s \in Seats
      PROVE  table'.stack[s] - table.stack[s] <= MatchedBy(table.contrib[s])
  <2>1. HInv /\ phase = "resolving_sidepots"
    BY <1>1 DEF SteadyInv, ResolveShowdown
  <2>2. table'.stack[s] <= table.stack[s] + PaidOut[s]
    BY <1>1, <2>1, ShowdownPays
  <2>3. PaidOut[s] <= MatchedBy(table.contrib[s])
    BY <1>1, <2>1, PaidWithinStake
  <2>4. table.stack[s] \in Nat /\ PaidOut[s] \in Nat /\ table'.stack[s] \in Nat
    <3>1. table \in Tables /\ table' \in Tables
      BY <1>1, <2>1, ShowdownStep DEF HInv, TableInv, Playable, Sound
    <3> QED BY <2>1, <3>1, ResolvedSound DEF Tables
  <2>5. MatchedBy(table.contrib[s]) \in Nat
    <3> DEFINE part == [r \in Seats |-> Lesser(table.contrib[r], table.contrib[s])]
    <3>1. part \in [Seats -> Nat]
      BY <2>1, StakeType DEF Lesser, HInv, TableInv, Playable, Sound
    <3> HIDE DEF part
    <3>2. Total(part) \in Nat
      BY <3>1, TotalType
    <3> QED BY <3>2 DEF MatchedBy, part
  <2> QED BY <2>2, <2>3, <2>4, <2>5
<1>2. SteadyInv /\ [Play \/ Done \/ Alone]_vars =>
        [ResolveShowdown /\ ~Uncontested(table) =>
           \A s \in Seats : table'.stack[s] - table.stack[s] <= MatchedBy(table.contrib[s])]_vars
  BY <1>1
<1> QED BY <1>2, SteadySound, PTL DEF SteadySpec, NobodyWinsMoreThanMatched

(* The contenders of rank k and better are paid what the largest stake     *)
(* among them is matched by.                                               *)
LEMMA BestAreCovered ==
  ASSUME SteadyInv, phase = "resolving_sidepots", ~Uncontested(table),
         pending.boards = 1, NEW k \in 1 .. MaxRank, NEW best,
         best = {s \in Contenders(table) : pending.ranks[1][s] >= k}, best # {}
  PROVE  Total([s \in Seats |-> IF s \in best THEN PaidOut[s] ELSE 0])
           = MatchedBy(MaxOf({table.contrib[s] : s \in best}))
<1>1. /\ HInv /\ table \in Tables /\ EmptyBare(table) /\ table.button \in Seats
      /\ table.contrib \in [Seats -> Nat]
  BY DEF SteadyInv, HInv, TableInv, Playable, Sound, Tables
<1>2. Awards(Resolved) /\ AllWon(Resolved)
  BY <1>1, ResolvedSound
<1>3. /\ pending.pots = Pieces(table) /\ Contenders(table) = NonFoldedSeats(table)
      /\ best \in SUBSET Seats /\ best \subseteq NonFoldedSeats(table)
  BY ResolvedLayers DEF NonFoldedSeats
<1> DEFINE stakes == {table.contrib[s] : s \in best}
           M == MaxOf(stakes)
           L == 0 .. M
<1>4. M \in stakes /\ \A n \in stakes : n <= M
  <2>1. stakes \in SUBSET Nat /\ stakes # {}
    BY <1>1, <1>3
  <2>2. \A n \in stakes : n <= Total(table.contrib)
    BY <1>1, <1>3, SeatsFinite, SumCovers DEF Total
  <2>3. Total(table.contrib) \in Nat
    BY <1>1, TotalType
  <2> HIDE DEF stakes
  <2> QED BY <2>1, <2>2, <2>3, MaxOfIn
<1> HIDE DEF M
<1>5. PICK a \in best : M = table.contrib[a]
  BY <1>4
<1>6. ASSUME NEW res \in Resolved
      PROVE  IF res.level \in L THEN res.winners \subseteq best ELSE res.winners \cap best = {}
  <2>1. PICK pot \in Pieces(table), b \in 1 .. pending.boards :
          /\ res.level = pot.level /\ pot.eligible \subseteq NonFoldedSeats(table)
          /\ res.winners = WinnersAmong(pot.eligible, pending.ranks[b])
          /\ pending.ranks[b] \in [Seats -> 1 .. MaxRank]
    BY ResolvedLayers
  <2>2. b = 1
    OBVIOUS
  <2>3. /\ pot.level \in Nat /\ M \in Nat
        /\ \A s \in Seats : s \in pot.eligible <=>
             table.contrib[s] >= pot.level /\ table.status[s] # "folded"
    BY <1>1, <1>3, <1>5, PieceIs, LevelsFinite
  <2>4. ASSUME pot.level <= M, NEW w \in res.winners PROVE w \in best
    <3>1. a \in pot.eligible
      BY <1>3, <1>5, <2>3, <2>4 DEF NonFoldedSeats
    <3>2. w \in pot.eligible /\ pending.ranks[1][a] <= pending.ranks[1][w]
      BY <2>1, <2>2, <2>4, <3>1 DEF WinnersAmong
    <3>3. w \in Contenders(table) /\ w \in Seats /\ a \in Seats
      BY <1>3, <2>1, <3>2 DEF NonFoldedSeats
    <3>4. pending.ranks[1][a] >= k
      OBVIOUS
    <3>5. pending.ranks[1][a] \in Nat /\ pending.ranks[1][w] \in Nat
      BY <2>1, <2>2, <3>3
    <3> QED BY <3>2, <3>3, <3>4, <3>5
  <2>5. ASSUME pot.level > M, NEW w \in res.winners, w \in best PROVE FALSE
    <3>1. w \in pot.eligible /\ w \in Seats
      BY <1>3, <2>1, <2>5 DEF WinnersAmong
    <3>2. table.contrib[w] \in stakes
      BY <2>5
    <3>3. table.contrib[w] <= M /\ table.contrib[w] \in Nat
      BY <1>1, <1>4, <3>1, <3>2
    <3> QED BY <2>3, <2>5, <3>1, <3>3
  <2>6. res.level \in L <=> pot.level <= M
    BY <2>1, <2>3
  <2>7. pot.level <= M \/ pot.level > M
    BY <2>3
  <2> HIDE DEF L
  <2> QED BY <2>4, <2>5, <2>6, <2>7
<1>7. Total([s \in Seats |-> IF s \in best THEN PaidOut[s] ELSE 0])
        = SumFunctionOnSet(OfLevels(L, Resolved), Resolved)
  <2> HIDE DEF L
  <2> QED BY <1>1, <1>2, <1>3, <1>6, PaidTogether DEF PaidOut
<1>8. SumFunctionOnSet(OfLevels(L, pending.pots), pending.pots) = Matched(table, M)
  BY <1>1, <1>3, <1>5, StakeCovered
<1>9. Matched(table, M) = MatchedBy(M)
  BY DEF MatchedBy, Matched
<1> QED BY <1>1, <1>7, <1>8, <1>9, PaidAtLevels DEF M

(* Table stakes at every table where nobody comes or goes and nobody buys  *)
(* back in: however many players, layers and hand ranks there are, the     *)
(* best hands win what the deepest of them is matched by, no more and no   *)
(* less.                                                                   *)
THEOREM StakesMatched ==
  ASSUME AutoBuyBack = 0
  PROVE  SteadySpec => TableStakes
<1>1. ASSUME SteadyInv, ResolveShowdown, house' = house, pending.boards = 1,
             ~Uncontested(table), NEW k \in 1 .. MaxRank
      PROVE  LET best   == {s \in Contenders(table) : pending.ranks[1][s] >= k}
                 won(s) == table'.stack[s] - table.stack[s]
             IN  best # {} =>
                   Total([s \in Seats |-> IF s \in best THEN won(s) ELSE 0])
                     = MatchedBy(MaxOf({table.contrib[s] : s \in best}))
  <2> DEFINE best == {s \in Contenders(table) : pending.ranks[1][s] >= k}
             won(s) == table'.stack[s] - table.stack[s]
  <2>1. HInv /\ phase = "resolving_sidepots"
    BY <1>1 DEF SteadyInv, ResolveShowdown
  <2>2. Rake(table.pot) = 0
    <3>1. house' = house + Rake(table.pot) /\ Rake(table.pot) \in Nat /\ house \in Nat
      BY <1>1, <2>1, ShowdownPays DEF HInv, CountsInv
    <3> QED BY <1>1, <3>1
  <2>3. \A s \in Seats : s \in best => s \in Occupied(table)
    BY DEF Contenders, NonFoldedSeats, Occupied
  <2>4. \A s \in Occupied(table) : table'.stack[s] = table.stack[s] + PaidOut[s]
    BY <1>1, <2>1, <2>2, ShowdownPays
  <2>5. \A s \in Seats : table.stack[s] \in Nat /\ PaidOut[s] \in Nat
    <3>1. table \in Tables
      BY <2>1 DEF HInv, TableInv, Playable, Sound
    <3> QED BY <2>1, <3>1, ResolvedSound DEF Tables
  <2>6. [s \in Seats |-> IF s \in best THEN won(s) ELSE 0]
          = [s \in Seats |-> IF s \in best THEN PaidOut[s] ELSE 0]
    <3>1. ASSUME NEW s \in Seats, s \in best PROVE won(s) = PaidOut[s]
      <4>1. table'.stack[s] = table.stack[s] + PaidOut[s]
        BY <2>3, <2>4, <3>1
      <4> QED BY <2>5, <4>1
    <3> HIDE DEF best, won
    <3> QED BY <3>1
  <2>7. best # {} =>
          Total([s \in Seats |-> IF s \in best THEN PaidOut[s] ELSE 0])
            = MatchedBy(MaxOf({table.contrib[s] : s \in best}))
    BY <1>1, <2>1, BestAreCovered
  <2> QED BY <2>6, <2>7
<1>2. SteadyInv /\ [Play \/ Done \/ Alone]_vars =>
        [ResolveShowdown /\ house' = house /\ pending.boards = 1
         /\ ~Uncontested(table) =>
           \A k \in 1 .. MaxRank :
             LET best   == {s \in Contenders(table) : pending.ranks[1][s] >= k}
                 won(s) == table'.stack[s] - table.stack[s]
             IN  best # {} =>
                   Total([s \in Seats |-> IF s \in best THEN won(s) ELSE 0])
                     = MatchedBy(MaxOf({table.contrib[s] : s \in best}))]_vars
  BY <1>1
<1> QED BY <1>2, SteadySound, PTL DEF SteadySpec, TableStakes
=============================================================================
