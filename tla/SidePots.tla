------------------------------ MODULE SidePots ------------------------------
(***************************************************************************)
(* poker/sidepot.go and poker/showdown_async.go: how a pot is cut into     *)
(* layers, who is paid what at showdown, and where the rake comes from.    *)
(* Which hand wins is for engine-math to say: rank is any function from    *)
(* seats to numbers, and the higher rank wins.                             *)
(***************************************************************************)
EXTENDS PokerTable

----------------------------------------------------------------------------
(* Cutting the pot. *)

(* The distinct amounts contributed. *)
Levels(t) == {t.contrib[s] : s \in Seats} \ {0}

(* The level under this one, 0 under the lowest. *)
Below(t, level) ==
  LET lower == {l \in {0} \cup Levels(t) : l < level}
  IN  CHOOSE low \in lower : \A l \in lower : l <= low

(* Mutant: a short stack stays eligible for the layers above its stake. *)
LayerForAll(t, level) ==
  [level    |-> level,
   amount   |-> (level - Below(t, level)) * Cardinality({s \in Seats : t.contrib[s] >= level}),
   eligible |-> {s \in Seats : t.contrib[s] > 0 /\ t.status[s] # "folded"}]

(* The slice of every contribution up to a level, for those who paid all   *)
(* of it and have not folded.                                              *)
Layer(t, level) ==
  LET payers == {s \in Seats : t.contrib[s] >= level}
  IN  [level    |-> level,
       amount   |-> (level - Below(t, level)) * Cardinality(payers),
       eligible |-> {s \in payers : t.status[s] # "folded"}]

(* A pot that is not cut into layers. *)
WholePot(t, eligible) == {[level |-> 0, amount |-> t.pot, eligible |-> eligible]}

(* Mutant: the pot is not cut into layers. *)
BuildMainPotOnly(t) == WholePot(t, NonFoldedSeats(t))

(* A layer that nobody is left to win is not made into a pot. *)
BuildSidePots(t) ==
  IF Levels(t) # {} THEN {pot \in {Layer(t, level) : level \in Levels(t)} : pot.eligible # {}}
  ELSE IF t.pot > 0 THEN WholePot(t, NonFoldedSeats(t))
  ELSE {}

(* The pots of BuildShowdownPlan: everything to a sole contender. *)
PlannedPots(t) ==
  IF Uncontested(t) THEN WholePot(t, Contenders(t)) ELSE BuildSidePots(t)

----------------------------------------------------------------------------
(* Resolving the pots. *)

WinnersAmong(eligible, rank) ==
  {s \in eligible : \A r \in eligible : rank[r] <= rank[s]}

(* Part b of a pot that is split over so many boards: the first boards     *)
(* take the odd chips.                                                     *)
OnBoard(pot, b, boards, rank) ==
  [level   |-> pot.level, board |-> b,
   amount  |-> (pot.amount \div boards) + (IF b <= pot.amount % boards THEN 1 ELSE 0),
   winners |-> WinnersAmong(pot.eligible, rank)]

(* Each pot is run over all the boards; one board is the ordinary showdown. *)
Resolutions(pots, boards, ranks) ==
  {OnBoard(pot, b, boards, ranks[b]) : pot \in pots, b \in 1 .. boards}

(* Mutant: the odd chips of a split pot are dropped. *)
ShareWithoutOddChips(resolution, button, s) ==
  IF s \in resolution.winners THEN resolution.amount \div Cardinality(resolution.winners) ELSE 0

(* pokerAward: equal shares, and the odd chips one each to the winners     *)
(* first clockwise of the button.                                          *)
Share(resolution, button, s) ==
  LET winners == resolution.winners
      n       == Cardinality(winners)
      ahead   == {r \in winners : Steps(button, r) < Steps(button, s)}
  IN  IF s \notin winners THEN 0
      ELSE (resolution.amount \div n)
           + (IF Cardinality(ahead) < resolution.amount % n THEN 1 ELSE 0)

(* What each seat is paid over all resolutions. *)
Payouts(resolutions, button) ==
  [s \in Seats |-> SumFunction([res \in resolutions |-> Share(res, button, s)])]

(* ApplyResolutions: shares of seats that have emptied stay unpaid.        *)
Awarded(t, payouts) ==
  [t EXCEPT !.pot   = 0,
            !.stack = [s \in Seats |-> IF s \in Occupied(t) THEN @[s] + payouts[s] ELSE 0]]

Orphaned(t, payouts) ==
  Total([s \in Seats |-> IF s \in Occupied(t) THEN 0 ELSE payouts[s]])

----------------------------------------------------------------------------
(* Rake. *)

(* What a seat has won for the purpose of sharing the rake: odd chips are  *)
(* not counted.                                                            *)
GrossWon(resolutions) ==
  LET equal(res) == res.amount \div Cardinality(res.winners)
  IN  [s \in Seats |-> SumFunction([res \in resolutions |->
                           IF s \in res.winners THEN equal(res) ELSE 0])]

AllWinners(resolutions) == UNION {res.winners : res \in resolutions}

(* Mutant: every winner is charged the whole rake. *)
DeductRakeFromEach(t, resolutions, rake) ==
  LET winners == AllWinners(resolutions)
  IN  [t EXCEPT !.stack = [s \in Seats |-> IF s \in winners THEN @[s] - rake ELSE @[s]]]

(* Mutant: the rake is charged to the lowest seat that can pay it. *)
DeductRakeFromAnyone(t, resolutions, rake) ==
  LET payers == {s \in Occupied(t) : t.stack[s] >= rake}
      payer  == CHOOSE s \in payers : \A r \in payers : s <= r
  IN  IF payers = {} THEN t ELSE [t EXCEPT !.stack[payer] = @ - rake]

(* DeductRakeFromWinners: in proportion to the gross winnings, rounded     *)
(* down; what the rounding leaves over from the largest winner with chips, *)
(* the lowest seat among equals.                                           *)
DeductRake(t, resolutions, rake) ==
  LET won     == GrossWon(resolutions)
      all     == Total(won)
      winners == AllWinners(resolutions) \cap Occupied(t)
      cut     == [s \in Seats |-> IF s \in winners
                                  THEN Lesser((rake * won[s]) \div all, t.stack[s]) ELSE 0]
      left    == [s \in Seats |-> t.stack[s] - cut[s]]
      solvent == {s \in winners : left[s] > 0}
      largest == CHOOSE s \in solvent :
                   \A r \in solvent : \/ won[r] < won[s]
                                      \/ won[r] = won[s] /\ s <= r
      rest    == [s \in Seats |-> IF s \in solvent /\ s = largest
                                  THEN Lesser(rake - Total(cut), left[s]) ELSE 0]
  IN  IF rake = 0 \/ all = 0 THEN t
      ELSE [t EXCEPT !.stack = [s \in Seats |-> left[s] - rest[s]]]
==============================================================================
