------------------------------ MODULE SumProofs ------------------------------
(***************************************************************************)
(* The least number principle, which stands in for induction, and what it  *)
(* gives for sums over finite sets: MapThenSumSet adds up the members in   *)
(* whatever order CHOOSE finds them, and the sum does not depend on it.    *)
(***************************************************************************)
EXTENDS Naturals, FiniteSetsExt, Functions, FiniteSetTheorems, WellFoundedInduction, TLAPS

(* Every non-empty set of natural numbers has a least member. *)
LEMMA LeastOf ==
  ASSUME NEW T \in SUBSET Nat, NEW z \in T
  PROVE  \E x \in T : \A y \in T : ~(y < x)
<1> DEFINE Segs == {0..y : y \in T}
<1>1. Segs \subseteq FiniteSubsetsOf(Nat)
  <2>1. ASSUME NEW y \in T PROVE 0..y \in FiniteSubsetsOf(Nat)
    <3>1. y \in Int /\ 0 \in Int /\ 0..y \in SUBSET Nat
      OBVIOUS
    <3>2. IsFiniteSet(0..y)
      BY <3>1, FS_Interval
    <3> QED BY <3>1, <3>2 DEF FiniteSubsetsOf
  <2> QED BY <2>1
<1>2. Segs # {}
  OBVIOUS
<1>3. IsWellFoundedOn(StrictSubsetOrdering(Nat), FiniteSubsetsOf(Nat))
  BY FS_StrictSubsetOrderingWellFounded
<1>4. \E m \in Segs : \A k \in Segs : <<k, m>> \notin StrictSubsetOrdering(Nat)
  <2> HIDE DEF Segs
  <2> QED BY <1>1, <1>2, <1>3, WFMin
<1>5. PICK x \in T : \A k \in Segs : <<k, 0..x>> \notin StrictSubsetOrdering(Nat)
  BY <1>4
<1>6. ASSUME NEW y \in T, y < x PROVE FALSE
  <2>1. 0..y \in Segs
    OBVIOUS
  <2>2. 0..y \subseteq 0..x /\ x \in 0..x /\ x \notin 0..y
    BY <1>6
  <2>3. <<0..y, 0..x>> \in StrictSubsetOrdering(Nat)
    BY <2>2 DEF StrictSubsetOrdering
  <2> QED BY <2>1, <2>3, <1>5
<1> QED BY <1>5, <1>6

----------------------------------------------------------------------------
(* Sums of the amounts of rows. *)

(* What MapThenSumSet computes of the rows' amounts. *)
RowSum(rows, S) ==
  LET sum[T \in SUBSET S] ==
        IF T = {} THEN 0
        ELSE LET x == CHOOSE x \in T : TRUE IN rows[x].amount + sum[T \ {x}]
  IN  sum[S]

AnyOf(T) == CHOOSE x \in T : TRUE

Adds(rows, T, g) == 
  g[T] = IF T = {} THEN 0 ELSE rows[AnyOf(T)].amount + g[T \ {AnyOf(T)}]

Countable(rows, S) == \A x \in S : rows[x].amount \in Nat

AddsUp(rows, S, g) == \A T \in SUBSET S : Adds(rows, T, g)

(* g is the sum over each subset of S, or over those of up to n members. *)
Sums(rows, S, g) ==
  g \in [SUBSET S -> Nat] /\ AddsUp(rows, S, g)

Small(S, n) == {T \in SUBSET S : Cardinality(T) <= n}
SmallSums(rows, S, n, g) ==
  g \in [Small(S, n) -> Nat] /\ \A T \in Small(S, n) : Adds(rows, T, g)

(* A subset of a finite set counts its members, and has one less without  *)
(* one of them.                                                            *)
LEMMA OneOut ==
  ASSUME NEW S, IsFiniteSet(S), NEW T \in SUBSET S, NEW x \in T
  PROVE  /\ IsFiniteSet(T) /\ Cardinality(T) \in Nat
         /\ T \ {x} \in SUBSET S /\ Cardinality(T \ {x}) \in Nat
         /\ Cardinality(T \ {x}) = Cardinality(T) - 1
<1>1. IsFiniteSet(T)
  BY FS_Subset
<1>2. Cardinality(T) \in Nat
  BY <1>1, FS_CardinalityType
<1>3. IsFiniteSet(T \ {x}) /\ Cardinality(T \ {x}) = Cardinality(T) - 1
  BY <1>1, FS_RemoveElement
<1>4. Cardinality(T \ {x}) \in Nat
  BY <1>3, FS_CardinalityType
<1> QED BY <1>1, <1>2, <1>3, <1>4

LEMMA AnyOfIn == ASSUME NEW T, T # {} PROVE AnyOf(T) \in T
BY DEF AnyOf

LEMMA SmallSumsExist ==
  ASSUME NEW S, IsFiniteSet(S), NEW rows, Countable(rows, S)
  PROVE  \A n \in Nat : \E g : SmallSums(rows, S, n, g)
<1> DEFINE Bad == {n \in Nat : ~\E g : SmallSums(rows, S, n, g)}
<1>1. SUFFICES ASSUME Bad # {} PROVE FALSE
  OBVIOUS
<1>2. PICK n \in Bad : \A y \in Bad : ~(y < n)
  BY <1>1, LeastOf
<1>3. CASE n = 0
  <2> DEFINE g == [T \in Small(S, 0) |-> 0]
  <2>1. ASSUME NEW T \in Small(S, 0) PROVE T = {}
    <3>1. SUFFICES ASSUME NEW x \in T PROVE FALSE
      OBVIOUS
    <3>2. T \in SUBSET S /\ Cardinality(T) <= 0
      BY DEF Small
    <3>3. /\ Cardinality(T) \in Nat /\ Cardinality(T \ {x}) \in Nat
          /\ Cardinality(T \ {x}) = Cardinality(T) - 1
      BY <3>1, <3>2, OneOut
    <3> QED BY <3>2, <3>3
  <2>2. SmallSums(rows, S, 0, g)
    BY <2>1 DEF SmallSums, Adds
  <2> QED BY <1>2, <1>3, <2>2
<1>4. CASE n # 0
  <2>1. n \in Nat /\ n - 1 \in Nat /\ n - 1 \notin Bad
    BY <1>2, <1>4
  <2>2. PICK g : SmallSums(rows, S, n - 1, g)
    BY <2>1
  <2> DEFINE next(T) == IF T = {} THEN 0
                        ELSE rows[AnyOf(T)].amount + g[T \ {AnyOf(T)}]
             h == [T \in Small(S, n) |-> next(T)]
  <2>3. ASSUME NEW T \in Small(S, n), T # {}
        PROVE  /\ AnyOf(T) \in S /\ T \ {AnyOf(T)} \in Small(S, n - 1)
               /\ T \ {AnyOf(T)} \in Small(S, n)
    <3>1. AnyOf(T) \in T /\ T \in SUBSET S /\ Cardinality(T) <= n
      BY <2>3, AnyOfIn DEF Small
    <3>2. /\ Cardinality(T) \in Nat /\ T \ {AnyOf(T)} \in SUBSET S
          /\ Cardinality(T \ {AnyOf(T)}) = Cardinality(T) - 1
      BY <3>1, OneOut
    <3> QED BY <2>1, <3>1, <3>2 DEF Small
  <2>4. ASSUME NEW T \in Small(S, n - 1) PROVE g[T] = next(T) /\ g[T] \in Nat
    BY <2>2 DEF SmallSums, Adds
  <2>5. ASSUME NEW T \in Small(S, n) PROVE h[T] \in Nat
    <3>1. CASE T = {}
      BY <3>1
    <3>2. CASE T # {}
      <4>1. rows[AnyOf(T)].amount \in Nat /\ g[T \ {AnyOf(T)}] \in Nat
        BY <2>3, <2>4, <3>2 DEF Countable
      <4> QED BY <3>2, <4>1
    <3> QED BY <3>1, <3>2
  <2>6. ASSUME NEW T \in Small(S, n), T # {}
        PROVE  h[T \ {AnyOf(T)}] = g[T \ {AnyOf(T)}]
    BY <2>3, <2>4, <2>6
  <2>7. SmallSums(rows, S, n, h)
    <3>1. h \in [Small(S, n) -> Nat]
      BY <2>5
    <3>2. ASSUME NEW T \in Small(S, n) PROVE Adds(rows, T, h)
      BY <2>6 DEF Adds
    <3> QED BY <3>1, <3>2 DEF SmallSums
  <2> QED BY <1>2, <2>7
<1> QED BY <1>3, <1>4

LEMMA SumsExist ==
  ASSUME NEW S, IsFiniteSet(S), NEW rows, Countable(rows, S)
  PROVE  \E g : Sums(rows, S, g)
<1>1. Cardinality(S) \in Nat
  BY FS_CardinalityType
<1>2. PICK g : SmallSums(rows, S, Cardinality(S), g)
  BY <1>1, SmallSumsExist
<1>3. Small(S, Cardinality(S)) = SUBSET S
  BY FS_Subset DEF Small
<1> QED BY <1>2, <1>3 DEF Sums, AddsUp, SmallSums

SameAmounts(rows, new, S) == \A x \in S : rows[x].amount = new[x].amount

(* Two functions that add alike on the subsets of S are alike on them. *)
LEMMA SumsAgree ==
  ASSUME NEW S, IsFiniteSet(S), NEW rows, NEW new,
         SameAmounts(rows, new, S),
         NEW g, AddsUp(rows, S, g),
         NEW h, AddsUp(new, S, h)
  PROVE  \A T \in SUBSET S : g[T] = h[T]
<1> DEFINE Bad == {n \in Nat : \E T \in SUBSET S : Cardinality(T) = n /\ g[T] # h[T]}
<1>1. ASSUME Bad # {} PROVE FALSE
  <2>1. PICK n \in Bad : \A y \in Bad : ~(y < n)
    BY <1>1, LeastOf
  <2>2. PICK T \in SUBSET S : Cardinality(T) = n /\ g[T] # h[T]
    BY <2>1
  <2>3. T # {}
    BY <2>2 DEF AddsUp, Adds
  <2>4. PICK x : x \in T /\ x = AnyOf(T)
    BY <2>3, AnyOfIn
  <2>5. /\ T \ {x} \in SUBSET S /\ Cardinality(T \ {x}) \in Nat
        /\ Cardinality(T \ {x}) = Cardinality(T) - 1 /\ Cardinality(T) \in Nat
    BY <2>4, OneOut
  <2>6. Cardinality(T \ {x}) < n
    BY <2>2, <2>5
  <2>7. g[T \ {x}] = h[T \ {x}]
    BY <2>1, <2>5, <2>6
  <2>8. g[T] = rows[x].amount + g[T \ {x}] /\ h[T] = new[x].amount + h[T \ {x}]
    BY <2>3, <2>4 DEF AddsUp, Adds
  <2>9. rows[x].amount = new[x].amount
    BY <2>4 DEF SameAmounts
  <2> QED BY <2>2, <2>7, <2>8, <2>9
<1>2. ASSUME NEW T \in SUBSET S PROVE g[T] = h[T]
  <2>1. Cardinality(T) \in Nat
    BY FS_Subset, FS_CardinalityType
  <2> QED BY <1>1, <2>1
<1> QED BY <1>2

(* RowSum is the sum over the whole set. *)
LEMMA RowSumIs ==
  ASSUME NEW S, IsFiniteSet(S), NEW rows, Countable(rows, S), NEW g, Sums(rows, S, g)
  PROVE  RowSum(rows, S) = g[S]
<1> DEFINE p == CHOOSE p : p = [T \in SUBSET S |->
                  IF T = {} THEN 0
                  ELSE LET x == CHOOSE x \in T : TRUE IN rows[x].amount + p[T \ {x}]]
<1>1. g = [T \in SUBSET S |-> 
                  IF T = {} THEN 0
                  ELSE LET x == CHOOSE x \in T : TRUE IN rows[x].amount + g[T \ {x}]]
  BY DEF Sums, AddsUp, Adds, AnyOf
<1>2. p = [T \in SUBSET S |-> 
                  IF T = {} THEN 0
                  ELSE LET x == CHOOSE x \in T : TRUE IN rows[x].amount + p[T \ {x}]]
  BY <1>1
<1>3. RowSum(rows, S) = p[S]
  BY DEF RowSum
<1> HIDE DEF p
<1>4. AddsUp(rows, S, p)
  BY <1>2 DEF AddsUp, Adds, AnyOf
<1>5. AddsUp(rows, S, g)
  BY DEF Sums
<1>6. S \in SUBSET S
  OBVIOUS
<1>7. \A T \in SUBSET S : g[T] = p[T]
  <2>1. SameAmounts(rows, rows, S)
    BY DEF SameAmounts
  <2> QED BY <1>4, <1>5, <2>1, SumsAgree
<1> QED BY <1>3, <1>6, <1>7

(* Any member may be counted first. *)
LEMMA AnyFirst ==
  ASSUME NEW S, IsFiniteSet(S), NEW rows, Countable(rows, S), NEW g, Sums(rows, S, g)
  PROVE  \A T \in SUBSET S : \A x \in T : g[T] = rows[x].amount + g[T \ {x}]
<1> DEFINE Wrong(T) == \E x \in T : g[T] # rows[x].amount + g[T \ {x}]
           Bad == {n \in Nat : \E T \in SUBSET S : Cardinality(T) = n /\ Wrong(T)}
<1>1. ASSUME Bad # {} PROVE FALSE
  <2>1. PICK n \in Bad : \A y \in Bad : ~(y < n)
    BY <1>1, LeastOf
  <2>2. PICK T \in SUBSET S : Cardinality(T) = n /\ Wrong(T)
    BY <2>1
  <2>3. PICK x \in T : g[T] # rows[x].amount + g[T \ {x}]
    BY <2>2
  <2>4. PICK c : c \in T /\ c = AnyOf(T)
    BY <2>3, AnyOfIn
  <2>5. g[T] = rows[c].amount + g[T \ {c}]
    BY <2>4 DEF Sums, AddsUp, Adds
  <2>6. c # x
    BY <2>3, <2>5
  <2>7. ASSUME NEW y \in T PROVE T \ {y} \in SUBSET S /\ ~Wrong(T \ {y})
    <3>1. /\ T \ {y} \in SUBSET S /\ Cardinality(T \ {y}) \in Nat /\ Cardinality(T) \in Nat
          /\ Cardinality(T \ {y}) = Cardinality(T) - 1
      BY OneOut
    <3>2. Cardinality(T \ {y}) < n
      BY <2>2, <3>1
    <3> QED BY <2>1, <3>1, <3>2
  <2>8. g[T \ {c}] = rows[x].amount + g[T \ {c, x}]
    <3>1. x \in T \ {c} /\ (T \ {c}) \ {x} = T \ {c, x}
      BY <2>6
    <3>2. g[T \ {c}] = rows[x].amount + g[(T \ {c}) \ {x}]
      BY <2>4, <2>7, <3>1
    <3> QED BY <3>1, <3>2
  <2>9. g[T \ {x}] = rows[c].amount + g[T \ {c, x}]
    <3>1. c \in T \ {x} /\ (T \ {x}) \ {c} = T \ {c, x}
      BY <2>4, <2>6
    <3>2. g[T \ {x}] = rows[c].amount + g[(T \ {x}) \ {c}]
      BY <2>3, <2>7, <3>1
    <3> QED BY <3>1, <3>2
  <2>11. PICK u \in Nat : u = g[T \ {c, x}]
    <3>1. T \ {c, x} \in SUBSET S
      OBVIOUS
    <3> QED BY <3>1 DEF Sums
  <2>12. PICK k \in Nat, l \in Nat : k = rows[c].amount /\ l = rows[x].amount
    BY <2>4 DEF Countable
  <2> QED BY <2>3, <2>5, <2>8, <2>9, <2>11, <2>12
<1>2. ASSUME NEW T \in SUBSET S PROVE ~Wrong(T)
  <2>1. Cardinality(T) \in Nat
    BY FS_Subset, FS_CardinalityType
  <2> QED BY <1>1, <2>1
<1> QED BY <1>2

----------------------------------------------------------------------------
(* What a proof uses of sums. *)

(* A sum of natural numbers is one. *)
LEMMA RowSumType ==
  ASSUME NEW S, IsFiniteSet(S), NEW rows, Countable(rows, S)
  PROVE  RowSum(rows, S) \in Nat
<1>1. PICK g : Sums(rows, S, g)
  BY SumsExist
<1>2. S \in SUBSET S
  OBVIOUS
<1>3. g[S] \in Nat
  BY <1>1, <1>2 DEF Sums
<1>4. RowSum(rows, S) = g[S]
  BY <1>1, RowSumIs
<1> QED BY <1>3, <1>4

(* The sum over nothing is nothing. *)
LEMMA RowSumOfNone == ASSUME NEW rows PROVE RowSum(rows, {}) = 0
<1>1. IsFiniteSet({}) /\ Countable(rows, {})
  BY FS_EmptySet DEF Countable
<1>2. PICK g : Sums(rows, {}, g)
  BY <1>1, SumsExist
<1>3. g[{}] = 0
  BY <1>2 DEF Sums, AddsUp, Adds
<1> QED BY <1>1, <1>2, <1>3, RowSumIs

(* The sum depends on the amounts that are added, and on no others. *)
LEMMA RowSumSame ==
  ASSUME NEW S, IsFiniteSet(S), NEW rows, NEW new, Countable(rows, S),
         \A x \in S : new[x].amount = rows[x].amount
  PROVE  RowSum(new, S) = RowSum(rows, S)
<1>0. Countable(new, S)
  BY DEF Countable
<1>1. PICK g : Sums(rows, S, g)
  BY SumsExist
<1>2. PICK h : Sums(new, S, h)
  BY <1>0, SumsExist
<1>3. g[S] = h[S]
  <2>1. AddsUp(rows, S, g) /\ AddsUp(new, S, h)
    BY <1>1, <1>2 DEF Sums
  <2>2. S \in SUBSET S /\ SameAmounts(rows, new, S)
    BY DEF SameAmounts
  <2> QED BY <2>1, <2>2, SumsAgree
<1> QED BY <1>0, <1>1, <1>2, <1>3, RowSumIs

(* One member more, or less. *)
LEMMA RowSumOne ==
  ASSUME NEW S, IsFiniteSet(S), NEW rows, Countable(rows, S), NEW x \in S
  PROVE  RowSum(rows, S) = rows[x].amount + RowSum(rows, S \ {x})
<1>0. IsFiniteSet(S \ {x}) /\ Countable(rows, S \ {x})
  BY FS_Subset DEF Countable
<1>1. PICK g : Sums(rows, S, g)
  BY SumsExist
<1>2. PICK h : Sums(rows, S \ {x}, h)
  BY <1>0, SumsExist
<1>3. g[S] = rows[x].amount + g[S \ {x}]
  <2>1. S \in SUBSET S
    OBVIOUS
  <2> QED BY <1>1, <2>1, AnyFirst
<1>4. g[S \ {x}] = h[S \ {x}]
  <2> DEFINE R == S \ {x}
  <2>1. AddsUp(rows, R, g) /\ AddsUp(rows, R, h)
    BY <1>1, <1>2 DEF Sums, AddsUp
  <2>2. R \in SUBSET R /\ IsFiniteSet(R)
    BY <1>0
  <2> HIDE DEF R
  <2>3. SameAmounts(rows, rows, R)
    BY DEF SameAmounts
  <2>4. \A T \in SUBSET R : g[T] = h[T]
    BY <2>1, <2>2, <2>3, SumsAgree
  <2> QED BY <2>2, <2>4 DEF R
<1>5. RowSum(rows, S) = g[S]
  BY <1>1, RowSumIs
<1>6. RowSum(rows, S \ {x}) = h[S \ {x}]
  BY <1>0, <1>2, RowSumIs
<1> QED BY <1>3, <1>4, <1>5, <1>6

(* A sum with or without one of its members. *)
LEMMA RowSumWithout ==
  ASSUME NEW S, IsFiniteSet(S), NEW rows, Countable(rows, S), NEW x
  PROVE  RowSum(rows, S) = RowSum(rows, S \ {x}) + (IF x \in S THEN rows[x].amount ELSE 0)
<1>1. IsFiniteSet(S \ {x}) /\ Countable(rows, S \ {x})
  BY FS_Subset DEF Countable
<1>2. PICK rest \in Nat : rest = RowSum(rows, S \ {x})
  BY <1>1, RowSumType
<1>3. CASE x \in S
  <2>1. PICK a \in Nat : a = rows[x].amount
    BY <1>3 DEF Countable
  <2> QED BY <1>2, <1>3, <2>1, RowSumOne
<1>4. CASE x \notin S
  <2>1. S \ {x} = S
    BY <1>4
  <2>2. RowSum(rows, S) = rest
    BY <1>2, <2>1
  <2> QED BY <1>2, <1>4, <2>2
<1> QED BY <1>3, <1>4

(* S and R are alike but for w. *)
AlikeBut(w, ids, S, R) == S \in SUBSET ids /\ R \in SUBSET ids /\ S \ {w} = R \ {w}

(* One row changes, or enters or leaves what is added up: S before, R      *)
(* after.                                                                  *)
LEMMA RowSumMoves ==
  ASSUME NEW ids, IsFiniteSet(ids), NEW rows, NEW new,
         Countable(rows, ids), Countable(new, ids),
         NEW w \in ids, SameAmounts(rows, new, ids \ {w}),
         NEW S, NEW R, AlikeBut(w, ids, S, R)
  PROVE  \E rest \in Nat :
           /\ RowSum(rows, S) = rest + (IF w \in S THEN rows[w].amount ELSE 0)
           /\ RowSum(new, R) = rest + (IF w \in R THEN new[w].amount ELSE 0)
<1>1. /\ IsFiniteSet(S) /\ IsFiniteSet(R) /\ IsFiniteSet(S \ {w})
      /\ Countable(rows, S) /\ Countable(new, R) /\ Countable(rows, S \ {w})
  BY FS_Subset DEF Countable, AlikeBut
<1>2. PICK rest \in Nat : rest = RowSum(rows, S \ {w})
  BY <1>1, RowSumType
<1>3. RowSum(new, R \ {w}) = rest
  <2>1. \A x \in S \ {w} : new[x].amount = rows[x].amount
    BY DEF SameAmounts, AlikeBut
  <2>2. RowSum(new, S \ {w}) = RowSum(rows, S \ {w})
    BY <1>1, <2>1, RowSumSame
  <2>3. RowSum(new, R \ {w}) = RowSum(new, S \ {w})
    BY DEF AlikeBut
  <2> QED BY <1>2, <2>2, <2>3
<1>4. RowSum(rows, S) = rest + (IF w \in S THEN rows[w].amount ELSE 0)
  BY <1>1, <1>2, RowSumWithout
<1>5. RowSum(new, R) = rest + (IF w \in R THEN new[w].amount ELSE 0)
  <2>1. RowSum(new, R) = RowSum(new, R \ {w}) + (IF w \in R THEN new[w].amount ELSE 0)
    BY <1>1, RowSumWithout
  <2> QED BY <1>3, <2>1
<1> QED BY <1>4, <1>5

(* So many amounts come to at most so many times the largest. *)
LEMMA RowSumBound ==
  ASSUME NEW ids, IsFiniteSet(ids), NEW rows, Countable(rows, ids),
         NEW top \in Nat, \A x \in ids : rows[x].amount <= top
  PROVE  \A S \in SUBSET ids : RowSum(rows, S) <= Cardinality(S) * top
<1> DEFINE Over(S) == ~(RowSum(rows, S) <= Cardinality(S) * top)
           Bad == {n \in Nat : \E S \in SUBSET ids : Cardinality(S) = n /\ Over(S)}
<1>1. ASSUME Bad # {} PROVE FALSE
  <2>1. PICK n \in Bad : \A y \in Bad : ~(y < n)
    BY <1>1, LeastOf
  <2>2. PICK S \in SUBSET ids : Cardinality(S) = n /\ Over(S)
    BY <2>1
  <2>3. S # {}
    <3>1. SUFFICES ASSUME S = {} PROVE FALSE
      OBVIOUS
    <3>2. RowSum(rows, S) = 0 /\ Cardinality(S) = 0
      BY <3>1, RowSumOfNone, FS_EmptySet
    <3>3. 0 <= 0 * top
      OBVIOUS
    <3> QED BY <2>2, <3>2, <3>3
  <2>4. PICK x \in S : TRUE
    BY <2>3
  <2>5. /\ IsFiniteSet(S) /\ S \ {x} \in SUBSET ids /\ Countable(rows, S)
        /\ IsFiniteSet(S \ {x}) /\ Countable(rows, S \ {x})
    BY FS_Subset DEF Countable
  <2>6. PICK k \in Nat : k = Cardinality(S \ {x}) /\ Cardinality(S) = k + 1
    BY <2>4, OneOut
  <2>7. ~Over(S \ {x})
    <3>1. k < n
      BY <2>1, <2>2, <2>6
    <3> QED BY <2>1, <2>5, <2>6, <3>1
  <2>8. PICK rest \in Nat : rest = RowSum(rows, S \ {x})
    BY <2>5, RowSumType
  <2>9. PICK a \in Nat : a = rows[x].amount /\ a <= top
    BY <2>4 DEF Countable
  <2>10. RowSum(rows, S) = a + rest
    BY <2>4, <2>5, <2>8, <2>9, RowSumOne
  <2>11. rest <= k * top
    BY <2>6, <2>7, <2>8
  <2>12. (k + 1) * top = k * top + top /\ k * top \in Nat
    OBVIOUS
  <2>13. a + rest <= (k + 1) * top
    BY <2>9, <2>11, <2>12
  <2> QED BY <2>2, <2>6, <2>10, <2>13
<1>2. ASSUME NEW S \in SUBSET ids PROVE ~Over(S)
  <2>1. Cardinality(S) \in Nat
    BY FS_Subset, FS_CardinalityType
  <2> QED BY <1>1, <2>1
<1> QED BY <1>2

----------------------------------------------------------------------------
(* Sums of the values of a function. *)

(* SumFunctionOnSet adds up rows. *)
ValueRows(f, S) == [x \in S |-> [amount |-> f[x]]]

LEMMA SumOfRows ==
  ASSUME NEW S, IsFiniteSet(S), NEW f, \A x \in S : f[x] \in Nat
  PROVE  Countable(ValueRows(f, S), S) /\ SumFunctionOnSet(f, S) = RowSum(ValueRows(f, S), S)
<1> DEFINE rows == ValueRows(f, S)
           p == CHOOSE p : p = [T \in SUBSET S |->
                  IF T = {} THEN 0
                  ELSE LET x == CHOOSE x \in T : TRUE IN f[x] + p[T \ {x}]]
<1>1. \A x \in S : rows[x].amount = f[x]
  BY DEF ValueRows
<1>2. Countable(rows, S)
  BY <1>1 DEF Countable
<1>3. SumFunctionOnSet(f, S) = p[S]
  BY DEF SumFunctionOnSet, FoldFunctionOnSet, MapThenFoldSet
<1> HIDE DEF rows
<1>4. PICK g : Sums(rows, S, g)
  BY <1>2, SumsExist
<1>5. \A T \in SUBSET S : g[T] = IF T = {} THEN 0
                                 ELSE LET x == CHOOSE x \in T : TRUE IN f[x] + g[T \ {x}]
  <2> TAKE T \in SUBSET S
  <2>1. Adds(rows, T, g)
    BY <1>4 DEF Sums, AddsUp
  <2>2. T # {} => AnyOf(T) \in S
    BY AnyOfIn
  <2> QED BY <1>1, <2>1, <2>2 DEF Adds, AnyOf
<1>6. g = [T \in SUBSET S |->
                  IF T = {} THEN 0
                  ELSE LET x == CHOOSE x \in T : TRUE IN f[x] + g[T \ {x}]]
  BY <1>4, <1>5 DEF Sums
<1>7. p = [T \in SUBSET S |->
                  IF T = {} THEN 0
                  ELSE LET x == CHOOSE x \in T : TRUE IN f[x] + p[T \ {x}]]
  BY <1>6
<1> HIDE DEF p
<1>8. AddsUp(rows, S, p)
  <2>1. SUFFICES ASSUME NEW T \in SUBSET S PROVE Adds(rows, T, p)
    BY DEF AddsUp
  <2>2. p[T] = IF T = {} THEN 0 ELSE f[AnyOf(T)] + p[T \ {AnyOf(T)}]
    BY <1>7 DEF AnyOf
  <2>3. T # {} => AnyOf(T) \in S
    BY AnyOfIn
  <2> QED BY <1>1, <2>2, <2>3 DEF Adds
<1>9. g[S] = p[S]
  <2>1. SameAmounts(rows, rows, S) /\ AddsUp(rows, S, g) /\ S \in SUBSET S
    BY <1>4 DEF SameAmounts, Sums
  <2> QED BY <1>8, <2>1, SumsAgree
<1>10. RowSum(rows, S) = g[S]
  BY <1>2, <1>4, RowSumIs
<1> QED BY <1>2, <1>3, <1>9, <1>10 DEF rows

LEMMA SumType ==
  ASSUME NEW S, IsFiniteSet(S), NEW f, \A x \in S : f[x] \in Nat
  PROVE  SumFunctionOnSet(f, S) \in Nat
BY SumOfRows, RowSumType

(* The sum depends on the values over the set, and on no others. *)
LEMMA SumSame ==
  ASSUME NEW S, IsFiniteSet(S), NEW f, NEW g,
         \A x \in S : f[x] \in Nat /\ g[x] = f[x]
  PROVE  SumFunctionOnSet(g, S) = SumFunctionOnSet(f, S)
<1>1. \A x \in S : ValueRows(g, S)[x].amount = ValueRows(f, S)[x].amount
  BY DEF ValueRows
<1>2. /\ Countable(ValueRows(f, S), S)
      /\ SumFunctionOnSet(f, S) = RowSum(ValueRows(f, S), S)
      /\ SumFunctionOnSet(g, S) = RowSum(ValueRows(g, S), S)
  BY SumOfRows
<1> QED BY <1>1, <1>2, RowSumSame

(* One member, and the rest. *)
LEMMA SumOne ==
  ASSUME NEW S, IsFiniteSet(S), NEW f, \A x \in S : f[x] \in Nat, NEW s \in S
  PROVE  /\ SumFunctionOnSet(f, S) = f[s] + SumFunctionOnSet(f, S \ {s})
         /\ SumFunctionOnSet(f, S \ {s}) \in Nat
<1> DEFINE R == S \ {s}
<1>1. IsFiniteSet(R) /\ \A x \in R : f[x] \in Nat
  BY FS_Subset
<1>2. RowSum(ValueRows(f, S), S) = ValueRows(f, S)[s].amount + RowSum(ValueRows(f, S), R)
  BY SumOfRows, RowSumOne
<1>3. ValueRows(f, S)[s].amount = f[s] /\ \A x \in R : ValueRows(f, R)[x].amount = ValueRows(f, S)[x].amount
  BY DEF ValueRows
<1>4. Countable(ValueRows(f, S), R)
  BY SumOfRows DEF Countable
<1> HIDE DEF R
<1>5. RowSum(ValueRows(f, R), R) = RowSum(ValueRows(f, S), R)
  BY <1>1, <1>3, <1>4, RowSumSame
<1>6. SumFunctionOnSet(f, R) = RowSum(ValueRows(f, R), R)
  BY <1>1, SumOfRows
<1>7. SumFunctionOnSet(f, R) \in Nat
  BY <1>1, SumType
<1> QED BY <1>2, <1>3, <1>5, <1>6, <1>7, SumOfRows DEF R

LEMMA SumOfNone == ASSUME NEW f PROVE SumFunctionOnSet(f, {}) = 0
<1>1. IsFiniteSet({}) /\ \A x \in {} : f[x] \in Nat
  BY FS_EmptySet
<1> QED BY <1>1, SumOfRows, RowSumOfNone

(* The sum of sums is the sum of the functions. *)
LEMMA SumOfSums ==
  ASSUME NEW S, IsFiniteSet(S), NEW f, NEW g, NEW h,
         \A x \in S : f[x] \in Nat /\ g[x] \in Nat /\ h[x] = f[x] + g[x]
  PROVE  SumFunctionOnSet(h, S) = SumFunctionOnSet(f, S) + SumFunctionOnSet(g, S)
<1> DEFINE F == ValueRows(f, S)
           G == ValueRows(g, S)
           H == ValueRows(h, S)
<1>1. /\ \A x \in S : f[x] \in Nat
      /\ \A x \in S : g[x] \in Nat
      /\ \A x \in S : h[x] \in Nat
  OBVIOUS
<1>2. /\ Countable(F, S) /\ SumFunctionOnSet(f, S) = RowSum(F, S)
      /\ Countable(G, S) /\ SumFunctionOnSet(g, S) = RowSum(G, S)
      /\ Countable(H, S) /\ SumFunctionOnSet(h, S) = RowSum(H, S)
  BY <1>1, SumOfRows
<1>3. \A x \in S : H[x].amount = F[x].amount + G[x].amount
  BY DEF ValueRows
<1> HIDE DEF F, G, H
<1>4. PICK a : Sums(F, S, a)
  BY <1>2, SumsExist
<1>5. PICK b : Sums(G, S, b)
  BY <1>2, SumsExist
<1> DEFINE c == [T \in SUBSET S |-> a[T] + b[T]]
<1>6. \A T \in SUBSET S : a[T] \in Nat /\ b[T] \in Nat /\ c[T] = a[T] + b[T]
  BY <1>4, <1>5 DEF Sums
<1>7. c \in [SUBSET S -> Nat]
  <2>1. \A T \in SUBSET S : a[T] \in Nat /\ b[T] \in Nat
    BY <1>6
  <2>2. \A T \in SUBSET S : a[T] + b[T] \in Nat
    BY <2>1
  <2> QED BY <2>2
<1>8. ASSUME NEW T \in SUBSET S PROVE Adds(H, T, c)
  <2>1. Adds(F, T, a) /\ Adds(G, T, b)
    BY <1>4, <1>5 DEF Sums, AddsUp
  <2>2. CASE T = {}
    BY <1>6, <2>1, <2>2 DEF Adds
  <2>3. CASE T # {}
    <3>1. PICK x \in T : x = AnyOf(T)
      BY <2>3, AnyOfIn
    <3>2. PICK U \in SUBSET S : U = T \ {x}
      OBVIOUS
    <3>3. a[T] = F[x].amount + a[U] /\ b[T] = G[x].amount + b[U]
      BY <2>1, <2>3, <3>1, <3>2 DEF Adds
    <3>4. F[x].amount \in Nat /\ G[x].amount \in Nat
      BY <1>2 DEF Countable
    <3>5. c[T] = H[x].amount + c[U]
      <4> HIDE DEF c
      <4> QED BY <1>3, <1>6, <3>3, <3>4
    <3> QED BY <2>3, <3>1, <3>2, <3>5 DEF Adds
  <2> QED BY <2>2, <2>3
<1> HIDE DEF c
<1>9. Sums(H, S, c)
  BY <1>7, <1>8 DEF Sums, AddsUp
<1>10. RowSum(F, S) = a[S] /\ RowSum(G, S) = b[S] /\ RowSum(H, S) = c[S]
  BY <1>2, <1>4, <1>5, <1>9, RowSumIs
<1> QED BY <1>2, <1>6, <1>10

LEMMA SumOfZeros ==
  ASSUME NEW S, IsFiniteSet(S), NEW f, \A x \in S : f[x] = 0
  PROVE  SumFunctionOnSet(f, S) = 0
<1>1. \A x \in S : f[x] \in Nat /\ f[x] = f[x] + f[x]
  OBVIOUS
<1>2. PICK n \in Nat : n = SumFunctionOnSet(f, S)
  BY <1>1, SumType
<1>3. SumFunctionOnSet(f, S) = SumFunctionOnSet(f, S) + SumFunctionOnSet(f, S)
  BY <1>1, SumOfSums
<1>4. n = n + n
  BY <1>2, <1>3
<1>5. n = 0
  BY <1>4
<1> QED BY <1>2, <1>5

(* The value of one member changes. *)
LEMMA SumChanged ==
  ASSUME NEW S, IsFiniteSet(S), NEW f, \A x \in S : f[x] \in Nat, NEW s \in S,
         NEW g, g[s] \in Nat, \A x \in S \ {s} : g[x] = f[x]
  PROVE  SumFunctionOnSet(g, S) + f[s] = SumFunctionOnSet(f, S) + g[s]
<1>1. \A x \in S : g[x] \in Nat
  OBVIOUS
<1>2. SumFunctionOnSet(g, S) = g[s] + SumFunctionOnSet(g, S \ {s})
  BY <1>1, SumOne
<1>3. /\ SumFunctionOnSet(f, S) = f[s] + SumFunctionOnSet(f, S \ {s})
      /\ SumFunctionOnSet(f, S \ {s}) \in Nat
  BY SumOne
<1>4. IsFiniteSet(S \ {s})
  BY FS_Subset
<1>5. SumFunctionOnSet(g, S \ {s}) = SumFunctionOnSet(f, S \ {s})
  BY <1>4, SumSame
<1> QED BY <1>2, <1>3, <1>5

----------------------------------------------------------------------------
(* Sums taken apart and put together. *)

(* What is nowhere but in S adds up over S. *)
LEMMA SumZeroOutside ==
  ASSUME NEW U, IsFiniteSet(U), NEW S \in SUBSET U, NEW f,
         \A x \in U : f[x] \in Nat, \A x \in U \ S : f[x] = 0
  PROVE  SumFunctionOnSet(f, U) = SumFunctionOnSet(f, S)
<1> DEFINE Wrong(T) == S \subseteq T /\ SumFunctionOnSet(f, T) # SumFunctionOnSet(f, S)
           Bad == {n \in Nat : \E T \in SUBSET U : Cardinality(T) = n /\ Wrong(T)}
<1>1. ASSUME Bad # {} PROVE FALSE
  <2>1. PICK n \in Bad : \A y \in Bad : ~(y < n)
    BY <1>1, LeastOf
  <2>2. PICK T \in SUBSET U : Cardinality(T) = n /\ Wrong(T)
    OBVIOUS
  <2>3. PICK x \in T : x \notin S
    BY <2>2
  <2>4. /\ IsFiniteSet(T) /\ T \ {x} \in SUBSET U /\ Cardinality(T \ {x}) \in Nat
        /\ Cardinality(T) \in Nat /\ Cardinality(T \ {x}) = Cardinality(T) - 1
    BY OneOut
  <2>5. Cardinality(T \ {x}) < n
    BY <2>2, <2>4
  <2>6. ~Wrong(T \ {x})
    BY <2>1, <2>4, <2>5
  <2>7. S \subseteq T \ {x}
    BY <2>2, <2>3
  <2>8. SumFunctionOnSet(f, T) = f[x] + SumFunctionOnSet(f, T \ {x})
        /\ SumFunctionOnSet(f, T \ {x}) \in Nat
    <3>1. \A y \in T : f[y] \in Nat
      OBVIOUS
    <3> HIDE DEF Bad, Wrong
    <3> QED BY <2>4, <3>1, SumOne
  <2>9. f[x] = 0
    BY <2>3
  <2> QED BY <2>2, <2>6, <2>7, <2>8, <2>9
<1>2. ~Wrong(U)
  <2>1. Cardinality(U) \in Nat /\ U \in SUBSET U
    BY FS_CardinalityType
  <2> QED BY <1>1, <2>1
<1> QED BY <1>2

LEMMA SumOfOne ==
  ASSUME NEW f, NEW x, f[x] \in Nat PROVE SumFunctionOnSet(f, {x}) = f[x]
<1>1. IsFiniteSet({x}) /\ (\A y \in {x} : f[y] \in Nat) /\ x \in {x}
  BY FS_Singleton
<1>2. {x} \ {x} = {}
  OBVIOUS
<1>3. SumFunctionOnSet(f, {x}) = f[x] + SumFunctionOnSet(f, {})
  BY <1>1, <1>2, SumOne
<1> QED BY <1>3, SumOfNone

LEMMA SumMonotone ==
  ASSUME NEW S, IsFiniteSet(S), NEW f, NEW g,
         \A x \in S : f[x] \in Nat /\ g[x] \in Nat /\ f[x] <= g[x]
  PROVE  SumFunctionOnSet(f, S) <= SumFunctionOnSet(g, S)
<1> DEFINE gap == [x \in S |-> g[x] - f[x]]
<1>1. \A x \in S : f[x] \in Nat /\ gap[x] \in Nat /\ g[x] = f[x] + gap[x]
  OBVIOUS
<1> HIDE DEF gap
<1>2. PICK a \in Nat, b \in Nat : a = SumFunctionOnSet(f, S) /\ b = SumFunctionOnSet(gap, S)
  BY <1>1, SumType
<1>3. SumFunctionOnSet(g, S) = a + b
  BY <1>1, <1>2, SumOfSums
<1> QED BY <1>2, <1>3

(* No member has more than all of them. *)
LEMMA SumCovers ==
  ASSUME NEW S, IsFiniteSet(S), NEW f, \A x \in S : f[x] \in Nat, NEW s \in S
  PROVE  f[s] <= SumFunctionOnSet(f, S)
<1>1. PICK rest \in Nat : rest = SumFunctionOnSet(f, S \ {s})
  BY SumOne
<1>2. SumFunctionOnSet(f, S) = f[s] + rest
  BY <1>1, SumOne
<1> QED BY <1>1, <1>2

(* So many times the same. *)
LEMMA SumOfConstant ==
  ASSUME NEW S, IsFiniteSet(S), NEW f, NEW k \in Nat, \A x \in S : f[x] = k
  PROVE  SumFunctionOnSet(f, S) = Cardinality(S) * k
<1> DEFINE Wrong(T) == SumFunctionOnSet(f, T) # Cardinality(T) * k
           Bad == {n \in Nat : \E T \in SUBSET S : Cardinality(T) = n /\ Wrong(T)}
<1>1. ASSUME Bad # {} PROVE FALSE
  <2>1. PICK n \in Bad : \A y \in Bad : ~(y < n)
    BY <1>1, LeastOf
  <2>2. PICK T \in SUBSET S : Cardinality(T) = n /\ Wrong(T)
    OBVIOUS
  <2>3. T # {}
    <3>1. SUFFICES ASSUME T = {} PROVE FALSE
      OBVIOUS
    <3>2. SumFunctionOnSet(f, T) = 0 /\ Cardinality(T) = 0 /\ 0 * k = 0
      BY <3>1, SumOfNone, FS_EmptySet
    <3> QED BY <2>2, <3>2
  <2>4. PICK x \in T : TRUE
    BY <2>3
  <2>5. /\ IsFiniteSet(T) /\ T \ {x} \in SUBSET S /\ Cardinality(T \ {x}) \in Nat
        /\ Cardinality(T) \in Nat /\ Cardinality(T \ {x}) = Cardinality(T) - 1
    BY OneOut
  <2>6. PICK m \in Nat : m = Cardinality(T \ {x}) /\ n = m + 1
    BY <2>2, <2>5
  <2>7. ~Wrong(T \ {x})
    <3>1. m < n
      BY <2>6
    <3>2. m \notin Bad
      BY <2>1, <3>1
    <3> QED BY <2>5, <2>6, <3>2
  <2>8. SumFunctionOnSet(f, T) = f[x] + SumFunctionOnSet(f, T \ {x})
    <3>1. \A y \in T : f[y] \in Nat
      OBVIOUS
    <3> HIDE DEF Bad, Wrong
    <3> QED BY <2>5, <3>1, SumOne
  <2>9. f[x] = k /\ (m + 1) * k = k + m * k
    OBVIOUS
  <2> QED BY <2>2, <2>6, <2>7, <2>8, <2>9
<1>2. ~Wrong(S)
  <2>1. Cardinality(S) \in Nat /\ S \in SUBSET S
    BY FS_CardinalityType
  <2> QED BY <1>1, <2>1
<1> QED BY <1>2

(* A factor may be taken out. *)
LEMMA SumScaled ==
  ASSUME NEW S, IsFiniteSet(S), NEW f, NEW g, NEW k \in Nat,
         \A x \in S : f[x] \in Nat /\ g[x] = k * f[x]
  PROVE  SumFunctionOnSet(g, S) = k * SumFunctionOnSet(f, S)
<1> DEFINE Wrong(T) == SumFunctionOnSet(g, T) # k * SumFunctionOnSet(f, T)
           Bad == {n \in Nat : \E T \in SUBSET S : Cardinality(T) = n /\ Wrong(T)}
<1>0. \A x \in S : g[x] \in Nat
  <2> TAKE x \in S
  <2>1. PICK a \in Nat : a = f[x] /\ g[x] = k * a
    OBVIOUS
  <2> QED BY <2>1
<1>1. ASSUME Bad # {} PROVE FALSE
  <2>1. PICK n \in Bad : \A y \in Bad : ~(y < n)
    BY <1>1, LeastOf
  <2>2. PICK T \in SUBSET S : Cardinality(T) = n /\ Wrong(T)
    OBVIOUS
  <2>3. T # {}
    <3>1. SUFFICES ASSUME T = {} PROVE FALSE
      OBVIOUS
    <3>2. SumFunctionOnSet(f, T) = 0 /\ SumFunctionOnSet(g, T) = 0 /\ k * 0 = 0
      BY <3>1, SumOfNone
    <3> QED BY <2>2, <3>2
  <2>4. PICK x \in T : TRUE
    BY <2>3
  <2>5. /\ IsFiniteSet(T) /\ T \ {x} \in SUBSET S /\ Cardinality(T \ {x}) \in Nat
        /\ Cardinality(T) \in Nat /\ Cardinality(T \ {x}) = Cardinality(T) - 1
    BY OneOut
  <2>6. Cardinality(T \ {x}) < n
    BY <2>2, <2>5
  <2>7. ~Wrong(T \ {x})
    BY <2>1, <2>5, <2>6
  <2>8. /\ SumFunctionOnSet(f, T) = f[x] + SumFunctionOnSet(f, T \ {x})
        /\ SumFunctionOnSet(f, T \ {x}) \in Nat
        /\ SumFunctionOnSet(g, T) = g[x] + SumFunctionOnSet(g, T \ {x})
    <3>1. \A y \in T : f[y] \in Nat
      OBVIOUS
    <3>2. \A y \in T : g[y] \in Nat
      BY <1>0
    <3> HIDE DEF Bad, Wrong
    <3> QED BY <2>5, <3>1, <3>2, SumOne
  <2>9. PICK a \in Nat, b \in Nat : a = f[x] /\ b = SumFunctionOnSet(f, T \ {x})
    BY <2>8
  <2>10. k * (a + b) = k * a + k * b /\ g[x] = k * a
    BY <2>9
  <2> QED BY <2>2, <2>7, <2>8, <2>9, <2>10
<1>2. ~Wrong(S)
  <2>1. Cardinality(S) \in Nat /\ S \in SUBSET S
    BY FS_CardinalityType
  <2> QED BY <1>1, <2>1
<1> QED BY <1>2

(* The sums of the rows and the sums of the columns of a matrix. *)
RowSums(F, S, T) == [x \in S |-> SumFunctionOnSet(F[x], T)]
ColumnSums(F, S, T) == [y \in T |-> SumFunctionOnSet([x \in S |-> F[x][y]], S)]

(* Rows first or columns first, the sum is the same. *)
LEMMA SwapSums ==
  ASSUME NEW S, IsFiniteSet(S), NEW T, IsFiniteSet(T), NEW F,
         \A x \in S : \A y \in T : F[x][y] \in Nat
  PROVE  SumFunctionOnSet(RowSums(F, S, T), S) = SumFunctionOnSet(ColumnSums(F, S, T), T)
<1> DEFINE rows == RowSums(F, S, T)
           column == [y \in T |-> [x \in S |-> F[x][y]]]
           columns(U) == [y \in T |-> SumFunctionOnSet(column[y], U)]
           Wrong(U) == SumFunctionOnSet(rows, U) # SumFunctionOnSet(columns(U), T)
           Bad == {n \in Nat : \E U \in SUBSET S : Cardinality(U) = n /\ Wrong(U)}
<1>0. /\ \A x \in S : rows[x] \in Nat /\ rows[x] = SumFunctionOnSet(F[x], T)
      /\ \A y \in T : \A x \in S : column[y][x] \in Nat /\ column[y][x] = F[x][y]
  BY SumType DEF RowSums
<1>1. ASSUME Bad # {} PROVE FALSE
  <2>1. PICK n \in Bad : \A y \in Bad : ~(y < n)
    BY <1>1, LeastOf
  <2>2. PICK U \in SUBSET S : Cardinality(U) = n /\ Wrong(U)
    OBVIOUS
  <2> HIDE DEF rows, column
  <2>3. U # {}
    <3>1. SUFFICES ASSUME U = {} PROVE FALSE
      OBVIOUS
    <3>2. \A y \in T : columns(U)[y] = 0
      BY <3>1, SumOfNone
    <3>3. SumFunctionOnSet(columns(U), T) = 0
      BY <3>2, SumOfZeros
    <3> QED BY <2>2, <3>1, <3>3, SumOfNone
  <2>4. PICK x \in U : TRUE
    BY <2>3
  <2>5. /\ IsFiniteSet(U) /\ U \ {x} \in SUBSET S /\ Cardinality(U \ {x}) \in Nat
        /\ Cardinality(U) \in Nat /\ Cardinality(U \ {x}) = Cardinality(U) - 1
    BY OneOut
  <2>6. Cardinality(U \ {x}) < n
    BY <2>2, <2>5
  <2>7. ~Wrong(U \ {x})
    BY <2>1, <2>5, <2>6
  <2> DEFINE R == U \ {x}
             all == columns(U)
             less == columns(R)
             row == [y \in T |-> F[x][y]]
  <2>8. IsFiniteSet(R) /\ R \in SUBSET S
    BY <2>5, FS_Subset
  <2>9. /\ SumFunctionOnSet(rows, U) = rows[x] + SumFunctionOnSet(rows, R)
        /\ SumFunctionOnSet(rows, R) \in Nat
    <3>1. \A y \in U : rows[y] \in Nat
      BY <1>0
    <3> HIDE DEF Bad, Wrong
    <3> QED BY <2>5, <3>1, SumOne
  <2>10. ASSUME NEW y \in T
         PROVE  less[y] \in Nat /\ row[y] \in Nat /\ all[y] = less[y] + row[y]
    <3>1. \A z \in U : column[y][z] \in Nat
      BY <1>0
    <3>2. /\ SumFunctionOnSet(column[y], U) = column[y][x] + SumFunctionOnSet(column[y], R)
          /\ SumFunctionOnSet(column[y], R) \in Nat
      <4> HIDE DEF Bad, Wrong, R
      <4> QED BY <2>5, <3>1, SumOne DEF R
    <3>3. column[y][x] = row[y] /\ row[y] \in Nat
      BY <1>0
    <3> QED BY <3>2, <3>3
  <2>11. SumFunctionOnSet(all, T) = SumFunctionOnSet(less, T) + SumFunctionOnSet(row, T)
         /\ SumFunctionOnSet(less, T) \in Nat /\ SumFunctionOnSet(row, T) \in Nat
    <3> HIDE DEF Bad, Wrong, all, less, row
    <3> QED BY <2>10, SumOfSums, SumType
  <2>12. SumFunctionOnSet(row, T) = rows[x]
    <3>1. \A y \in T : F[x][y] \in Nat /\ row[y] = F[x][y]
      OBVIOUS
    <3> HIDE DEF Bad, Wrong, row
    <3>2. SumFunctionOnSet(row, T) = SumFunctionOnSet(F[x], T)
      BY <3>1, SumSame
    <3> QED BY <1>0, <3>2
  <2>13. SumFunctionOnSet(rows, R) = SumFunctionOnSet(less, T)
    BY <2>7
  <2>14. SumFunctionOnSet(rows, U) # SumFunctionOnSet(all, T)
    BY <2>2
  <2> HIDE DEF Bad, Wrong, all, less, row, R
  <2> QED BY <2>9, <2>11, <2>12, <2>13, <2>14
<1>2. ~Wrong(S)
  <2>1. Cardinality(S) \in Nat /\ S \in SUBSET S
    BY FS_CardinalityType
  <2> QED BY <1>1, <2>1
<1>3. columns(S) = ColumnSums(F, S, T)
  BY DEF ColumnSums
<1> QED BY <1>2, <1>3

OwnedBy(own, S, y) == {x \in S : own[x] = y}

(* Each member of S has an owner in T: what the owners have is all there   *)
(* is.                                                                     *)
LEMMA SumByOwner ==
  ASSUME NEW S, IsFiniteSet(S), NEW T, IsFiniteSet(T), NEW f, \A x \in S : f[x] \in Nat,
         NEW own \in [S -> T], NEW g,
         \A y \in T : g[y] = SumFunctionOnSet(f, OwnedBy(own, S, y))
  PROVE  SumFunctionOnSet(f, S) = SumFunctionOnSet(g, T)
<1> DEFINE F == [x \in S |-> [y \in T |-> IF own[x] = y THEN f[x] ELSE 0]]
           held(y) == {x \in S : own[x] = y}
           column(y) == [x \in S |-> F[x][y]]
<1>1. \A x \in S : \A y \in T : F[x][y] \in Nat
  OBVIOUS
<1>2. ASSUME NEW x \in S PROVE SumFunctionOnSet(F[x], T) = f[x]
  <2>1. /\ \A y \in T : F[x][y] \in Nat
        /\ \A y \in T \ {own[x]} : F[x][y] = 0
        /\ F[x][own[x]] = f[x] /\ {own[x]} \in SUBSET T
    OBVIOUS
  <2> HIDE DEF F
  <2>2. SumFunctionOnSet(F[x], T) = SumFunctionOnSet(F[x], {own[x]})
    BY <2>1, SumZeroOutside
  <2> QED BY <2>1, <2>2, SumOfOne
<1>3. ASSUME NEW y \in T PROVE SumFunctionOnSet(column(y), S) = g[y] /\ g[y] \in Nat
  <2>1. /\ \A x \in S : column(y)[x] \in Nat
        /\ \A x \in S \ held(y) : column(y)[x] = 0
        /\ held(y) \in SUBSET S
        /\ \A x \in held(y) : f[x] \in Nat /\ column(y)[x] = f[x]
    OBVIOUS
  <2>2. PICK own_y, col : own_y = held(y) /\ col = column(y)
    OBVIOUS
  <2> HIDE DEF F, held, column
  <2>3. SumFunctionOnSet(col, S) = SumFunctionOnSet(col, own_y)
    BY <2>1, <2>2, SumZeroOutside
  <2>4. IsFiniteSet(own_y)
    BY <2>1, <2>2, FS_Subset
  <2>5. /\ SumFunctionOnSet(col, own_y) = SumFunctionOnSet(f, own_y)
        /\ SumFunctionOnSet(f, own_y) \in Nat
    BY <2>1, <2>2, <2>4, SumSame, SumType
  <2>6. g[y] = SumFunctionOnSet(f, own_y)
    BY <2>2 DEF held, OwnedBy
  <2> QED BY <2>2, <2>3, <2>5, <2>6
<1>4. SumFunctionOnSet(RowSums(F, S, T), S) = SumFunctionOnSet(ColumnSums(F, S, T), T)
  <2> HIDE DEF F
  <2> QED BY <1>1, SwapSums
<1>5. \A x \in S : RowSums(F, S, T)[x] = f[x]
  BY <1>2 DEF RowSums
<1>6. \A y \in T : ColumnSums(F, S, T)[y] = g[y] /\ g[y] \in Nat
  BY <1>3 DEF ColumnSums
<1> HIDE DEF F
<1>7. SumFunctionOnSet(RowSums(F, S, T), S) = SumFunctionOnSet(f, S)
  BY <1>5, SumSame
<1>8. SumFunctionOnSet(ColumnSums(F, S, T), T) = SumFunctionOnSet(g, T)
  BY <1>6, SumSame
<1> QED BY <1>4, <1>7, <1>8
==============================================================================
