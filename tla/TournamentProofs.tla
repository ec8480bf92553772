--------------------------- MODULE TournamentProofs ---------------------------
(***************************************************************************)
(* There is never a second director, with any number of players, callers   *)
(* and tables, and any number of faults; and the money of a tournament is  *)
(* accounted for, whatever ladder it pays by and however it is paid out;   *)
(* and players are moved from table to table with their stacks.            *)
(***************************************************************************)
EXTENDS Tournament, SumProofs

----------------------------------------------------------------------------
(* What the constants are. *)

LEMMA Identities ==
  /\ None \notin Calls /\ IsFiniteSet(Players) /\ IsFiniteSet(Requests)
  /\ Early \subseteq Players /\ Requests \subseteq Players \X Nat
BY TournamentAssumption

LEMMA Amounts ==
  /\ BuyIn \in Nat /\ PerEntryRake \in Nat /\ Guarantee \in Nat /\ Funds \in Nat
  /\ PerEntryRake <= BuyIn /\ BuyIn <= Funds
BY TournamentAssumption

LEMMA Bounds == SeatCap \in Nat \ {0} /\ MaxTables \in Nat
BY TournamentAssumption

----------------------------------------------------------------------------
(* One director.  A call that has claimed the start and not given it back  *)
(* is the only one, and while there is one the event is not registering.   *)

StartStates ==
  [pc : {"new", "claimed", "assign", "install", "release", "up", "failed"},
   tables : SUBSET Int, todo : SUBSET Players, dealt : Int]
Busy(c) == start[c].pc \notin {"new", "failed"}

DirectorInv ==
  /\ start \in [Calls -> StartStates]
  /\ \A c, d \in Calls : Busy(c) /\ Busy(d) => c = d
  /\ status = "registering" => \A c \in Calls : ~Busy(c)
  /\ director # None => director \in Calls /\ start[director].pc \in {"install", "up"}

LEMMA DirectorInit == Init => DirectorInv
<1> SUFFICES ASSUME Init PROVE DirectorInv
  OBVIOUS
<1>1. start \in [Calls -> StartStates] /\ \A c \in Calls : start[c].pc = "new"
  BY DEF Init, StartStates
<1>2. director = None
  BY DEF Init
<1> QED BY <1>1, <1>2 DEF DirectorInv, Busy

(* A caller moves on, and nobody else. *)
LEMMA MovedOn ==
  ASSUME DirectorInv, NEW c \in Calls, NEW pc, ToStart(c, pc),
         pc \in {"new", "claimed", "assign", "install", "release", "up", "failed"}
  PROVE  /\ start' \in [Calls -> StartStates]
         /\ start'[c].pc = pc /\ start'[c].todo = start[c].todo
         /\ \A d \in Calls \ {c} : start'[d] = start[d]
BY DEF DirectorInv, ToStart, StartStates

LEMMA StartStep ==
  ASSUME DirectorInv, NEW c \in Calls,
         start' \in [Calls -> StartStates],
         \A d \in Calls \ {c} : start'[d] = start[d],
         Busy(c), status' = status \/ status' # "registering",
         director' = director \/ director' = c,
         start[c].pc \in {"install", "up"} \/ director' = c
           => start'[c].pc \in {"install", "up"}
  PROVE  DirectorInv'
<1>1. status # "registering" /\ status' # "registering"
  BY DEF DirectorInv
<1>2. ASSUME NEW d \in Calls \ {c} PROVE ~Busy(d) /\ ~Busy(d)'
  BY <1>2 DEF DirectorInv, Busy
<1>3. director' # None => director' \in Calls /\ start'[director'].pc \in {"install", "up"}
  <2>1. CASE director' = c
    BY <2>1
  <2>2. CASE director' = director /\ director # c
    BY <2>2 DEF DirectorInv
  <2>3. CASE director' = director /\ director = c
    <3>1. c # None
      BY Identities
    <3>2. start[c].pc \in {"install", "up"}
      BY <2>3, <3>1 DEF DirectorInv
    <3> QED BY <2>3, <3>2
  <2> QED BY <2>1, <2>2, <2>3
<1>4. \A d, e \in Calls : Busy(d)' /\ Busy(e)' => d = e
  BY <1>2
<1> QED BY <1>1, <1>3, <1>4 DEF DirectorInv

LEMMA DirectorStep == DirectorInv /\ [Next]_vars => DirectorInv'
<1> SUFFICES ASSUME DirectorInv, [Next]_vars PROVE DirectorInv'
  OBVIOUS
<1>1. CASE UNCHANGED <<status, director, start>>
  BY <1>1 DEF DirectorInv, Busy
<1>2. CASE UNCHANGED <<director, start>> /\ (status' = "finished" \/ status' = status)
  BY <1>2 DEF DirectorInv, Busy
<1>3. ASSUME NEW c \in Calls, ClaimForStart(c) PROVE DirectorInv'
  <2>1. ToStart(c, "claimed") /\ status = "registering" /\ status' = "starting"
        /\ director' = director
    BY <1>3 DEF ClaimForStart
  <2>2. start' \in [Calls -> StartStates] /\ \A d \in Calls \ {c} : start'[d] = start[d]
    BY <2>1, MovedOn
  <2>3. director = None
    BY <2>1 DEF DirectorInv, Busy
  <2> QED BY <2>1, <2>2, <2>3 DEF DirectorInv, Busy
<1>4. ASSUME NEW c \in Calls, CreateTables(c) PROVE DirectorInv'
  <2>1. start[c].pc = "claimed" /\ status' = status /\ director' = director
    BY <1>4 DEF CreateTables, event
  <2>2. start' \in [Calls -> StartStates] /\ \A d \in Calls \ {c} : start'[d] = start[d]
    <3>1. CASE ToStart(c, "release")
      BY <3>1, MovedOn
    <3>2. CASE \E tables \in SUBSET Int : start' = [start EXCEPT ![c] =
                 [pc |-> "assign", tables |-> tables, todo |-> Entrants, dealt |-> 0]]
      BY <3>2 DEF DirectorInv, StartStates, Entrants
    <3> QED BY <1>4, <3>1, <3>2 DEF CreateTables
  <2>3. director # c
    BY <2>1, Identities DEF DirectorInv
  <2> QED BY <2>1, <2>2, <2>3, StartStep DEF Busy
<1>5. ASSUME NEW c \in Calls, AssignPlayerTable(c) PROVE DirectorInv'
  <2>1. start[c].pc = "assign" /\ status' = status /\ director' = director
    BY <1>5 DEF AssignPlayerTable, event
  <2>2. start' \in [Calls -> StartStates] /\ \A d \in Calls \ {c} : start'[d] = start[d]
    BY <1>5 DEF AssignPlayerTable, DirectorInv, StartStates
  <2>3. director # c
    BY <2>1, Identities DEF DirectorInv
  <2> QED BY <2>1, <2>2, <2>3, StartStep DEF Busy
<1>6. ASSUME NEW c \in Calls, CreateDirector(c) PROVE DirectorInv'
  <2>1. start[c].pc = "assign" /\ status' = status /\ director' = director
    BY <1>6 DEF CreateDirector, event
  <2>2. ToStart(c, "install") \/ ToStart(c, "release")
    BY <1>6 DEF CreateDirector
  <2>3. start' \in [Calls -> StartStates] /\ \A d \in Calls \ {c} : start'[d] = start[d]
    BY <2>2, MovedOn
  <2>4. director # c
    BY <2>1, Identities DEF DirectorInv
  <2> QED BY <2>1, <2>3, <2>4, StartStep DEF Busy
<1>7. ASSUME NEW c \in Calls, SetDirectorMatch(c) PROVE DirectorInv'
  <2>1. /\ start[c].pc = "install" /\ ToStart(c, "up")
        /\ status' = status \/ status' # "registering"
        /\ director' = director \/ director' = c
    BY <1>7 DEF SetDirectorMatch, event
  <2>2. /\ start' \in [Calls -> StartStates] /\ \A d \in Calls \ {c} : start'[d] = start[d]
        /\ start'[c].pc = "up"
    BY <2>1, MovedOn
  <2> QED BY <2>1, <2>2, StartStep DEF Busy
<1>8. ASSUME NEW c \in Calls, ReleaseStartClaim(c) PROVE DirectorInv'
  <2>1. start[c].pc = "release" /\ ToStart(c, "failed") /\ director' = director
    BY <1>8 DEF ReleaseStartClaim
  <2>2. /\ start' \in [Calls -> StartStates] /\ \A d \in Calls \ {c} : start'[d] = start[d]
        /\ start'[c].pc = "failed"
    BY <2>1, MovedOn
  <2>3. director # c
    BY <2>1, Identities DEF DirectorInv
  <2>4. \A d \in Calls \ {c} : ~Busy(d)
    BY <2>1 DEF DirectorInv, Busy
  <2>5. \A d \in Calls : ~Busy(d)'
    BY <2>2, <2>4 DEF Busy
  <2> QED BY <2>1, <2>2, <2>3, <2>5 DEF DirectorInv
<1>9. CASE Next
  <2>1. ASSUME NEW r \in Requests, DebitBuyIn(r) \/ Register(r) \/ RefundBuyIn(r) PROVE DirectorInv'
    BY <2>1, <1>1 DEF DebitBuyIn, Register, RefundBuyIn, event
  <2>2. ASSUME NEW c \in Calls, NobodyHasWon(c) \/ Rebalance(c) PROVE DirectorInv'
    BY <2>2, <1>1 DEF NobodyHasWon, Rebalance, event
  <2>3. ASSUME NEW x \in Payers, LookWhoPlays(x) \/ SetFinishPlace(x) \/ PayWinner(x) PROVE DirectorInv'
    BY <2>3, <1>1 DEF LookWhoPlays, SetFinishPlace, PayWinner, event
  <2>4. ASSUME NEW x \in Payers, FinishOnce(x) PROVE DirectorInv'
    BY <2>4, <1>2 DEF FinishOnce
  <2>5. ASSUME NEW t \in 1 .. made, NEW p \in Players,
               SeatTransferIn(t, p) \/ HandOver(t, p) \/ SitDown(t, p) \/ StandUp(t, p)
        PROVE  DirectorInv'
    BY <2>5, <1>1 DEF SeatTransferIn, HandOver, SitDown, StandUp, event
  <2> QED BY <1>3, <1>4, <1>5, <1>6, <1>7, <1>8, <1>9, <2>1, <2>2, <2>3, <2>4, <2>5 DEF Next
<1>10. CASE UNCHANGED vars
  BY <1>10, <1>1 DEF vars, event
<1> QED BY <1>9, <1>10

(* However often a start is asked for, retried or fails half-way, there is *)
(* one director, and it is the one the tournament names (ClaimForStart,    *)
(* ReleaseStartClaim, SetDirectorMatch).                                   *)
THEOREM NeverTwoDirectors == Spec => []OneDirector
<1>1. DirectorInv => OneDirector
  <2> SUFFICES ASSUME DirectorInv PROVE OneDirector
    OBVIOUS
  <2>1. CASE Up = {}
    BY <2>1, FS_EmptySet DEF OneDirector, DirectorInv, Up
  <2>2. ASSUME NEW c \in Up PROVE OneDirector
    <3>1. Up = {c}
      BY <2>2 DEF DirectorInv, Up, Busy
    <3>2. Cardinality(Up) = 1
      BY <3>1, FS_Singleton
    <3>3. director # None => Up = {director}
      BY <3>1 DEF DirectorInv, Up
    <3> QED BY <3>2, <3>3 DEF OneDirector
  <2> QED BY <2>1, <2>2
<1> QED BY <1>1, DirectorInit, DirectorStep, PTL DEF Spec

----------------------------------------------------------------------------
(* The prizes.                                                             *)

LEMMA DivAtMost == ASSUME NEW a \in Nat, NEW k \in Nat \ {0} PROVE a \div k \in Nat /\ a \div k <= a
OBVIOUS

LEMMA ShareOf == ASSUME NEW a \in Nat, NEW b \in Nat, b <= a * 10000 PROVE b \div 10000 \in Nat /\ b \div 10000 <= a
OBVIOUS

LEMMA ShareAtMost ==
  ASSUME NEW a \in Nat, NEW k \in Nat, k <= 10000
  PROVE  (a * k) \div 10000 \in Nat /\ (a * k) \div 10000 <= a
<1> DEFINE b == a * k
<1>1. b \in Nat /\ b <= a * 10000
  OBVIOUS
<1> HIDE DEF b
<1>2. b \div 10000 \in Nat /\ b \div 10000 <= a
  BY <1>1, ShareOf
<1> QED BY <1>2 DEF b

LEMMA PoolGrows ==
  ASSUME NEW S \in SUBSET Players, NEW T \in SUBSET S
  PROVE  /\ Pool(Cardinality(T)) \in Nat
         /\ Pool(Cardinality(T)) <= Pool(Cardinality(S))
<1>1. Cardinality(S) \in Nat /\ Cardinality(T) \in Nat /\ Cardinality(T) <= Cardinality(S)
  BY FS_Subset, FS_CardinalityType, Identities
<1> DEFINE s == Cardinality(S) t == Cardinality(T) e == BuyIn - PerEntryRake
<1>2. e \in Nat /\ Guarantee \in Nat
  BY Amounts
<1>3. s * e \in Nat /\ t * e \in Nat /\ t * e <= s * e
  <2>1. s - t \in Nat /\ s = t + (s - t)
    BY <1>1
  <2> HIDE DEF s, t, e
  <2>2. PICK d \in Nat : s = t + d
    BY <2>1
  <2>3. t \in Nat /\ s \in Nat
    BY <1>1 DEF s, t
  <2>4. t * e \in Nat /\ d * e \in Nat /\ s * e = t * e + d * e
    BY <1>2, <2>2, <2>3
  <2> QED BY <2>4
<1>4. ASSUME NEW x \in Nat, NEW y \in Nat PROVE Max({x, y}) = IF x >= y THEN x ELSE y
  BY DEF Max
<1>5. Pool(s) = Max({s * e, Guarantee}) /\ Pool(t) = Max({t * e, Guarantee})
  BY DEF Pool
<1> HIDE DEF s, t, e
<1>6. Pool(t) \in Nat /\ Pool(t) <= Pool(s)
  BY <1>2, <1>3, <1>4, <1>5
<1> QED BY <1>6 DEF s, t

LEMMA Steps ==
  ASSUME NEW i \in DOMAIN Ladder
  PROVE  /\ i \in Nat /\ Ladder[i].from \in Nat /\ Ladder[i].to \in Nat
         /\ Ladder[i].bps \in Nat /\ Ladder[i].bps <= 10000
<1> DEFINE Tier == [from : Nat \ {0}, to : Nat, bps : {b \in Nat : b <= 10000}]
<1>1. Ladder \in Seq(Tier)
  BY LadderAssumption
<1>2. \A l \in Tier : l.from \in Nat /\ l.to \in Nat /\ l.bps \in {b \in Nat : b <= 10000}
  OBVIOUS
<1> HIDE DEF Tier
<1>3. Ladder[i] \in Tier /\ i \in Nat
  BY <1>1
<1>4. Ladder[i].bps \in {b \in Nat : b <= 10000}
  BY <1>2, <1>3
<1> QED BY <1>2, <1>3, <1>4

LEMMA PerPlaceAtMost ==
  ASSUME NEW n \in Nat, NEW pool \in Nat, NEW i \in Tiers(n, pool)
  PROVE  PerPlace(i, pool) \in Nat /\ PerPlace(i, pool) <= pool
<1>1. i \in DOMAIN Ladder /\ n \in Ladder[i].from .. Ladder[i].to
  BY DEF Tiers
<1>2. Ladder[i].from \in Nat /\ Ladder[i].to \in Nat /\ Ladder[i].bps \in Nat /\ Ladder[i].bps <= 10000
  BY <1>1, Steps
<1> DEFINE k == Ladder[i].to + 1 - Ladder[i].from
           share == (pool * Ladder[i].bps) \div 10000
<1>3. k \in Nat \ {0}
  BY <1>1, <1>2
<1>4. share \in Nat /\ share <= pool
  <2> DEFINE bps == Ladder[i].bps
  <2>1. bps \in Nat /\ bps <= 10000
    BY <1>2
  <2> HIDE DEF bps
  <2>2. (pool * bps) \div 10000 \in Nat /\ (pool * bps) \div 10000 <= pool
    BY <2>1, ShareAtMost
  <2> QED BY <2>2 DEF bps
<1>5. PerPlace(i, pool) = share \div k
  BY DEF PerPlace
<1> HIDE DEF k, share
<1>6. share \div k \in Nat /\ share \div k <= share
  BY <1>3, <1>4, DivAtMost
<1> QED BY <1>4, <1>5, <1>6

(* Each prize is one player's, who has a place, and no prize exceeds the   *)
(* pool.                                                                   *)
LEMMA PrizesFromThePool ==
  ASSUME NEW places \in [Players -> {0, 1}], NEW pool \in Nat
  PROVE  /\ Prizes(places, pool) \subseteq [who : Players, amount : Nat]
         /\ \A d \in Prizes(places, pool) :
              /\ places[d.who] = 1 /\ d.amount <= pool
              /\ \A e \in Prizes(places, pool) : e.who = d.who => e = d
<1> DEFINE ts(p) == Tiers(places[p], pool)
           amount(p) == PerPlace(Min(ts(p)), pool)
           Paid == {p \in Players : places[p] > 0 /\ ts(p) # {}}
<1>1. Prizes(places, pool) = {[who |-> p, amount |-> amount(p)] : p \in Paid}
  BY DEF Prizes
<1>2. ASSUME NEW p \in Paid PROVE places[p] = 1 /\ amount(p) \in Nat /\ amount(p) <= pool
  <2>1. places[p] = 1
    BY <1>2
  <2>2. ts(p) \in SUBSET Nat
    BY Steps DEF Tiers
  <2>3. PICK m \in ts(p) : \A y \in ts(p) : ~(y < m)
    BY <1>2, <2>2, LeastOf
  <2>4. Min(ts(p)) \in ts(p)
    <3> HIDE DEF ts
    <3>1. \A y \in ts(p) : m <= y
      BY <2>2, <2>3
    <3> QED BY <3>1, <2>3 DEF Min
  <2> QED BY <2>1, <2>4, PerPlaceAtMost
<1> HIDE DEF amount, Paid
<1> QED BY <1>1, <1>2 DEF Paid

----------------------------------------------------------------------------
(* The money.  Players who have a seat, are on the way to one or are still *)
(* to be given a table have entered; of the payers one at most is at the   *)
(* prizes, none before the event is finished, and the prizes it still has  *)
(* to pay are of champions who have had none.                              *)

PayerStates ==
  [pc : {"idle", "claim", "crown", "pay", "done"}, playing : Nat,
   due : SUBSET [who : Players, amount : Nat]]

RegTypes == reg \in [Players -> {"none", "registered", "playing"}]
PurseTypes == wallet \in [Players -> Nat] /\ refused \in [Players -> Nat] /\ prizes \in [Players -> Nat]
RequestTypes == request \in [Requests -> {"new", "charged", "refund", "done"}]
PayerTypes == payer \in [Payers -> PayerStates] /\ place \in [Players -> {0, 1}]
FloorTypes == /\ made \in Int /\ made <= MaxTables
              /\ seats \in [Tables -> SUBSET Entrants] /\ arriving \in [Tables -> SUBSET Entrants]
TodoTypes == \A c \in Calls : start[c].todo \subseteq Entrants

AtThePrizes(x) == payer[x].pc \in {"crown", "pay"}
NothingPaid == \A p \in Players : prizes[p] = 0
StillOwed(due) ==
  \A d \in due : /\ place[d.who] = 1 /\ d.amount <= Pool(Cardinality(Entrants)) /\ prizes[d.who] = 0
                 /\ \A e \in due : e.who = d.who => e = d
OnePayout ==
  /\ \A x, y \in Payers : AtThePrizes(x) /\ AtThePrizes(y) => x = y
  /\ \A x \in Payers : AtThePrizes(x) => status = "finished"
  /\ \A x \in Payers : payer[x].pc = "crown" => NothingPaid
  /\ \A x \in Payers : payer[x].pc = "pay" => StillOwed(payer[x].due)
  /\ status # "finished" => NothingPaid

MoneyInv ==
  /\ DirectorInv
  /\ RegTypes /\ PurseTypes /\ RequestTypes /\ PayerTypes /\ FloorTypes /\ TodoTypes
  /\ EntriesArePaidOnce
  /\ OnePayout /\ OnlyChampionsArePaid

LEMMA MoneyInit == Init => MoneyInv
<1> SUFFICES ASSUME Init PROVE MoneyInv
  OBVIOUS
<1>1. RegTypes /\ RequestTypes /\ TodoTypes /\ PurseTypes
  <2>1. Funds \in Nat /\ Funds - BuyIn \in Nat
    BY Amounts
  <2>2. PurseTypes
    BY <2>1 DEF Init, PurseTypes
  <2> QED BY <2>2 DEF Init, RegTypes, RequestTypes, TodoTypes
<1>2. PayerTypes /\ FloorTypes
  <2>1. Idle \in PayerStates
    BY DEF Idle, PayerStates
  <2>2. MaxTables \in Nat
    BY Bounds
  <2> QED BY <2>1, <2>2 DEF Init, PayerTypes, FloorTypes
<1>3. OnePayout
  BY DEF Init, OnePayout, AtThePrizes, Idle, NothingPaid
<1>4. OnlyChampionsArePaid
  <2>1. Pool(Cardinality(Entrants)) \in Nat
    BY PoolGrows DEF Entrants
  <2> QED BY <2>1 DEF Init, OnlyChampionsArePaid
<1>5. EntriesArePaidOnce
  <2> SUFFICES ASSUME NEW p \in Players
               PROVE  wallet[p] + BuyIn * ((IF p \in Entrants THEN 1 ELSE 0)
                        + Cardinality(Undecided(p)) + refused[p]) = Funds + prizes[p]
    BY DEF EntriesArePaidOnce
  <2>1. Cardinality(Undecided(p)) = 0 /\ refused[p] = 0 /\ prizes[p] = 0
    BY FS_EmptySet DEF Init, Undecided
  <2>2. p \in Entrants <=> p \in Early
    BY DEF Init, Entrants
  <2>3. wallet[p] = IF p \in Early THEN Funds - BuyIn ELSE Funds
    BY DEF Init
  <2>4. Funds \in Nat /\ BuyIn \in Nat
    BY Amounts
  <2> QED BY <2>1, <2>2, <2>3, <2>4
<1> QED BY <1>1, <1>2, <1>3, <1>4, <1>5, DirectorInit DEF MoneyInv

(* A step that leaves the wallets alone, and enters nobody. *)
LEMMA EntriesKept ==
  ASSUME EntriesArePaidOnce, UNCHANGED <<wallet, request, refused, prizes>>, Entrants' = Entrants
  PROVE  EntriesArePaidOnce'
BY DEF EntriesArePaidOnce, Undecided

(* A step that leaves the payers alone. *)
LEMMA PayoutKept ==
  ASSUME MoneyInv, UNCHANGED <<place, prizes, payer>>, RegTypes',
         Entrants \subseteq Entrants', status = "finished" => status' = "finished"
  PROVE  OnePayout' /\ OnlyChampionsArePaid'
<1> DEFINE pool == Pool(Cardinality(Entrants))
<1>1. pool \in Nat /\ pool' \in Nat /\ pool <= pool'
  BY PoolGrows DEF Entrants
<1> HIDE DEF pool
<1>2. ASSUME NEW x \in Payers, payer[x].pc = "pay" PROVE StillOwed(payer[x].due)'
  <2>1. StillOwed(payer[x].due) /\ payer[x].due \subseteq [who : Players, amount : Nat]
    BY <1>2 DEF MoneyInv, OnePayout, PayerTypes, PayerStates
  <2> QED BY <2>1, <1>1 DEF StillOwed, pool
<1>3. NothingPaid => NothingPaid'
  BY DEF NothingPaid
<1>4. OnePayout'
  BY <1>2, <1>3 DEF MoneyInv, OnePayout, AtThePrizes
<1>5. OnlyChampionsArePaid'
  <2>1. OnlyChampionsArePaid /\ PurseTypes
    BY DEF MoneyInv
  <2> QED BY <1>1, <2>1 DEF OnlyChampionsArePaid, PurseTypes, pool
<1> QED BY <1>4, <1>5

----------------------------------------------------------------------------
(* Registration. *)

(* Whether a request is undecided or not is counted for its player. *)
LEMMA UndecidedCount ==
  ASSUME RequestTypes, NEW p \in Players PROVE IsFiniteSet(Undecided(p)) /\ Cardinality(Undecided(p)) \in Nat
BY FS_Subset, FS_CardinalityType, Identities DEF Undecided

LEMMA OthersUndecided ==
  ASSUME RequestTypes, NEW r \in Requests, NEW pc, Goes(r, pc), NEW p \in Players, p # r[1]
  PROVE  Undecided(p)' = Undecided(p)
BY DEF RequestTypes, Goes, Undecided

LEMMA OneMore ==
  ASSUME NEW S, IsFiniteSet(S), NEW x, x \notin S PROVE Cardinality(S \cup {x}) = Cardinality(S) + 1
BY FS_AddElement

LEMMA OneLess ==
  ASSUME NEW S, IsFiniteSet(S), NEW x \in S PROVE Cardinality(S \ {x}) = Cardinality(S) - 1
BY FS_RemoveElement

LEMMA OneMoreUndecided ==
  ASSUME RequestTypes, NEW r \in Requests, request[r] = "new", Goes(r, "charged"), r[1] \in Players
  PROVE  Cardinality(Undecided(r[1])') = Cardinality(Undecided(r[1])) + 1
<1>1. Undecided(r[1])' = Undecided(r[1]) \cup {r} /\ r \notin Undecided(r[1])
  BY DEF RequestTypes, Goes, Undecided
<1>2. IsFiniteSet(Undecided(r[1]))
  BY UndecidedCount
<1>3. Cardinality(Undecided(r[1]) \cup {r}) = Cardinality(Undecided(r[1])) + 1
  BY <1>1, <1>2, OneMore
<1> QED BY <1>1, <1>3

LEMMA OneLessUndecided ==
  ASSUME RequestTypes, NEW r \in Requests, request[r] \in {"charged", "refund"}, Goes(r, "done"), r[1] \in Players
  PROVE  Cardinality(Undecided(r[1])') = Cardinality(Undecided(r[1])) - 1
<1>1. Undecided(r[1])' = Undecided(r[1]) \ {r} /\ r \in Undecided(r[1])
  BY DEF RequestTypes, Goes, Undecided
<1>2. IsFiniteSet(Undecided(r[1]))
  BY UndecidedCount
<1>3. Cardinality(Undecided(r[1]) \ {r}) = Cardinality(Undecided(r[1])) - 1
  BY <1>1, <1>2, OneLess
<1> QED BY <1>1, <1>3

LEMMA AsManyUndecided ==
  ASSUME RequestTypes, NEW r \in Requests,
         \/ request[r] = "charged" /\ Goes(r, "refund")
         \/ request[r] = "new" /\ Goes(r, "done")
  PROVE  Undecided(r[1])' = Undecided(r[1])
BY DEF RequestTypes, Goes, Undecided

(* The account of one player, apart from the others. *)
LEMMA AccountOf ==
  ASSUME EntriesArePaidOnce, NEW r \in Requests, NEW pc, RequestTypes, Goes(r, pc), r[1] \in Players,
         \A p \in Players \ {r[1]} : wallet'[p] = wallet[p] /\ refused'[p] = refused[p],
         prizes' = prizes, Entrants' \ {r[1]} = Entrants \ {r[1]},
         wallet'[r[1]] + BuyIn * ((IF r[1] \in Entrants' THEN 1 ELSE 0)
            + Cardinality(Undecided(r[1])') + refused'[r[1]]) = Funds + prizes[r[1]]
  PROVE  EntriesArePaidOnce'
<1> SUFFICES ASSUME NEW p \in Players
             PROVE  (wallet[p] + BuyIn * ((IF p \in Entrants THEN 1 ELSE 0)
                        + Cardinality(Undecided(p)) + refused[p]) = Funds + prizes[p])'
  BY DEF EntriesArePaidOnce
<1>1. CASE p = r[1]
  BY <1>1
<1>2. CASE p # r[1]
  <2>1. Undecided(p)' = Undecided(p)
    BY <1>2, OthersUndecided
  <2>2. p \in Entrants' <=> p \in Entrants
    BY <1>2
  <2>3. wallet[p] + BuyIn * ((IF p \in Entrants THEN 1 ELSE 0)
                        + Cardinality(Undecided(p)) + refused[p]) = Funds + prizes[p]
    BY DEF EntriesArePaidOnce
  <2> QED BY <1>2, <2>1, <2>2, <2>3
<1> QED BY <1>1, <1>2

(* The stakes of a player: his entry, what is undecided, refunds that failed. *)
Stakes(p) == (IF p \in Entrants THEN 1 ELSE 0) + Cardinality(Undecided(p)) + refused[p]

LEMMA PlayersRequest == ASSUME NEW r \in Requests PROVE r[1] \in Players
BY Identities

LEMMA StakesOf ==
  ASSUME MoneyInv, NEW p \in Players
  PROVE  Stakes(p) \in Nat /\ wallet[p] \in Nat /\ prizes[p] \in Nat /\ BuyIn \in Nat
         /\ wallet[p] + BuyIn * Stakes(p) = Funds + prizes[p]
<1>1. Cardinality(Undecided(p)) \in Nat /\ refused[p] \in Nat /\ wallet[p] \in Nat /\ prizes[p] \in Nat
  BY UndecidedCount DEF MoneyInv, PurseTypes
<1>2. BuyIn \in Nat
  BY Amounts
<1>3. wallet[p] + BuyIn * Stakes(p) = Funds + prizes[p]
  BY DEF MoneyInv, EntriesArePaidOnce, Stakes
<1> QED BY <1>1, <1>2, <1>3 DEF Stakes

LEMMA OneStake ==
  ASSUME NEW n \in Nat, NEW buyIn \in Nat, NEW w \in Int, NEW total \in Int
  PROVE  w + buyIn * (n + 1) = total <=> (w + buyIn) + buyIn * n = total
<1>1. buyIn * n \in Nat /\ buyIn * (n + 1) = buyIn * n + buyIn
  OBVIOUS
<1>2. \A k \in Nat : w + (k + buyIn) = total <=> (w + buyIn) + k = total
  OBVIOUS
<1> QED BY <1>1, <1>2

LEMMA DebitMoney ==
  ASSUME MoneyInv, NEW r \in Requests, DebitBuyIn(r) PROVE MoneyInv'
<1> DEFINE p == r[1]
<1>1. p \in Players
  BY PlayersRequest
<1>2. UNCHANGED <<event, entries, refused, prizes, start, made, payer, floor>> /\ request[r] = "new"
  BY DEF DebitBuyIn
<1>3. RequestTypes /\ Stakes(p) \in Nat /\ wallet[p] \in Nat
  BY <1>1, StakesOf DEF MoneyInv
<1>4. wallet' \in [Players -> Nat] /\ EntriesArePaidOnce' /\ RequestTypes'
  <2>1. Entrants' = Entrants
    BY <1>2 DEF entries, Entrants
  <2>2. CASE wallet[p] >= BuyIn
    <3>1. wallet' = [wallet EXCEPT ![p] = @ - BuyIn] /\ Goes(r, "charged")
      BY <2>2 DEF DebitBuyIn
    <3>2. wallet' \in [Players -> Nat] /\ wallet'[p] = wallet[p] - BuyIn
      BY <3>1, <2>2, <1>1, StakesOf DEF MoneyInv, PurseTypes
    <3>3. Cardinality(Undecided(p)') = Cardinality(Undecided(p)) + 1
      BY <3>1, <1>1, <1>2, <1>3, OneMoreUndecided
    <3>4. wallet'[p] + BuyIn * Stakes(p)' = Funds + prizes[p]
      <4>1. Stakes(p)' = Stakes(p) + 1
        BY <1>1, <1>2, <1>3, <2>1, <3>3, UndecidedCount DEF Stakes, MoneyInv, PurseTypes
      <4>2. PICK n \in Nat : n = Stakes(p)
        BY <1>3
      <4>3. PICK w \in Int, total \in Int : w + BuyIn = wallet[p] /\ total = Funds + prizes[p]
        <5>1. wallet[p] \in Nat /\ prizes[p] \in Nat /\ BuyIn \in Nat
          BY <1>1, StakesOf
        <5>2. Funds \in Nat
          BY Amounts
        <5>3. /\ wallet[p] - BuyIn \in Int /\ (wallet[p] - BuyIn) + BuyIn = wallet[p]
              /\ Funds + prizes[p] \in Int
          BY <5>1, <5>2
        <5> QED BY <5>3
      <4>4. (w + BuyIn) + BuyIn * n = total
        BY <1>1, <4>2, <4>3, StakesOf
      <4>5. w + BuyIn * (n + 1) = total
        <5>1. BuyIn \in Nat
          BY Amounts
        <5> QED BY <4>4, <5>1, OneStake
      <4>6. wallet'[p] = w
        BY <3>2, <4>3, <1>1, StakesOf
      <4> QED BY <4>1, <4>2, <4>3, <4>5, <4>6
    <3>5. \A q \in Players \ {p} : wallet'[q] = wallet[q] /\ refused'[q] = refused[q]
      BY <3>1, <1>2 DEF MoneyInv, PurseTypes
    <3>6. EntriesArePaidOnce'
      BY <3>1, <3>4, <3>5, <1>1, <1>2, <2>1, AccountOf DEF Stakes, MoneyInv
    <3>7. RequestTypes'
      BY <3>1, <1>3 DEF RequestTypes, Goes
    <3> QED BY <3>2, <3>6, <3>7
  <2>3. CASE ~(wallet[p] >= BuyIn)
    <3>1. Goes(r, "done") /\ wallet' = wallet
      BY <2>3 DEF DebitBuyIn
    <3>2. \A q \in Players : Undecided(q)' = Undecided(q)
      BY <3>1, <1>2, <1>3, AsManyUndecided, OthersUndecided
    <3>3. EntriesArePaidOnce'
      BY <3>1, <3>2, <1>2, <2>1 DEF MoneyInv, EntriesArePaidOnce
    <3>4. RequestTypes'
      BY <3>1, <1>3 DEF RequestTypes, Goes
    <3> QED BY <3>1, <3>3, <3>4 DEF MoneyInv, PurseTypes
  <2> QED BY <2>2, <2>3
<1>5. DirectorInv' /\ RegTypes' /\ PayerTypes' /\ FloorTypes' /\ TodoTypes' /\ PurseTypes' /\ Entrants' = Entrants
  BY <1>2, <1>4 DEF MoneyInv, DirectorInv, Busy, RegTypes, PayerTypes, FloorTypes, TodoTypes,
                    PurseTypes, event, entries, floor, Entrants
<1>6. OnePayout' /\ OnlyChampionsArePaid'
  BY <1>2, <1>5, PayoutKept DEF event, entries
<1> QED BY <1>4, <1>5, <1>6 DEF MoneyInv

LEMMA RegisterMoney ==
  ASSUME MoneyInv, NEW r \in Requests, Register(r) PROVE MoneyInv'
<1> DEFINE p == r[1]
<1>1. p \in Players
  BY PlayersRequest
<1>2. UNCHANGED <<event, at, place, money, start, made, payer, floor>> /\ request[r] = "charged"
  BY DEF Register
<1>3. RequestTypes /\ RegTypes /\ Stakes(p) \in Nat
  BY <1>1, StakesOf DEF MoneyInv
<1>4. /\ RegTypes' /\ RequestTypes' /\ EntriesArePaidOnce'
      /\ Entrants \subseteq Entrants'
  <2>1. CASE reg[p] = "none" /\ reg' = [reg EXCEPT ![p] = "registered"] /\ Goes(r, "done")
    <3>1. Entrants' = Entrants \cup {p} /\ p \notin Entrants /\ RegTypes'
      BY <2>1, <1>1, <1>3 DEF Entrants, RegTypes
    <3>2. Cardinality(Undecided(p)') = Cardinality(Undecided(p)) - 1
      BY <2>1, <1>1, <1>2, <1>3, OneLessUndecided
    <3>3. Stakes(p)' = Stakes(p)
      BY <1>1, <1>2, <1>3, <3>1, <3>2, UndecidedCount DEF Stakes, money, MoneyInv, PurseTypes
    <3>4. wallet'[p] + BuyIn * Stakes(p)' = Funds + prizes[p]
      BY <3>3, <1>1, <1>2, StakesOf DEF money
    <3>5. EntriesArePaidOnce'
      BY <2>1, <3>1, <3>4, <1>1, <1>2, AccountOf DEF Stakes, MoneyInv, money
    <3>6. RequestTypes'
      BY <2>1, <1>3 DEF RequestTypes, Goes
    <3> QED BY <3>1, <3>5, <3>6
  <2>2. CASE reg' = reg /\ Goes(r, "refund")
    <3>1. Entrants' = Entrants /\ RegTypes'
      BY <2>2, <1>3 DEF Entrants, RegTypes
    <3>2. \A q \in Players : Undecided(q)' = Undecided(q)
      BY <2>2, <1>2, <1>3, AsManyUndecided, OthersUndecided
    <3>3. EntriesArePaidOnce'
      BY <3>1, <3>2, <1>2 DEF MoneyInv, EntriesArePaidOnce, money
    <3>4. RequestTypes'
      BY <2>2, <1>3 DEF RequestTypes, Goes
    <3> QED BY <3>1, <3>3, <3>4
  <2> QED BY <2>1, <2>2 DEF Register
<1>5. DirectorInv' /\ PayerTypes' /\ PurseTypes'
  BY <1>2 DEF MoneyInv, DirectorInv, Busy, PayerTypes, PurseTypes, event, money
<1>6. FloorTypes' /\ TodoTypes'
  BY <1>2, <1>4 DEF MoneyInv, FloorTypes, TodoTypes, floor
<1>7. OnePayout' /\ OnlyChampionsArePaid'
  BY <1>2, <1>4, PayoutKept DEF event, money
<1> QED BY <1>4, <1>5, <1>6, <1>7 DEF MoneyInv

LEMMA RefundMoney ==
  ASSUME MoneyInv, NEW r \in Requests, RefundBuyIn(r) PROVE MoneyInv'
<1> DEFINE p == r[1]
<1>1. p \in Players
  BY PlayersRequest
<1>2. UNCHANGED <<event, entries, prizes, start, made, payer, floor>> /\ request[r] = "refund" /\ Goes(r, "done")
  BY DEF RefundBuyIn
<1>3. RequestTypes /\ Stakes(p) \in Nat /\ wallet[p] \in Nat /\ PurseTypes /\ BuyIn \in Nat
  BY <1>1, StakesOf DEF MoneyInv
<1>4. Entrants' = Entrants
  BY <1>2 DEF entries, Entrants
<1>5. Cardinality(Undecided(p)') = Cardinality(Undecided(p)) - 1
  BY <1>1, <1>2, <1>3, OneLessUndecided
<1>6. PurseTypes' /\ EntriesArePaidOnce'
  <2>1. CASE wallet' = [wallet EXCEPT ![p] = @ + BuyIn] /\ refused' = refused
    <3>1. PurseTypes' /\ wallet'[p] = wallet[p] + BuyIn
      BY <2>1, <1>1, <1>2, <1>3 DEF PurseTypes
    <3>2. Stakes(p)' \in Nat /\ Stakes(p) = Stakes(p)' + 1
      <4>1. Cardinality(Undecided(p)') \in Nat
        <5>1. Undecided(p)' \in SUBSET Requests
          BY DEF Undecided
        <5> QED BY <5>1, FS_Subset, FS_CardinalityType, Identities
      <4> QED BY <4>1, <2>1, <1>1, <1>3, <1>4, <1>5, UndecidedCount DEF Stakes, PurseTypes
    <3>3. wallet'[p] + BuyIn * Stakes(p)' = Funds + prizes[p]
      <4>1. PICK n \in Nat : n = Stakes(p)' /\ Stakes(p) = n + 1
        BY <3>2
      <4>2. PICK w \in Int, total \in Int : w = wallet[p] /\ total = Funds + prizes[p]
        <5>1. Funds \in Nat
          BY Amounts
        <5>2. prizes[p] \in Nat
          BY <1>1, StakesOf
        <5> QED BY <1>3, <5>1, <5>2
      <4>3. w + BuyIn * (n + 1) = total
        BY <1>1, <4>1, <4>2, StakesOf
      <4>4. (w + BuyIn) + BuyIn * n = total
        BY <1>3, <4>3, OneStake
      <4> QED BY <3>1, <4>1, <4>2, <4>4
    <3>4. \A q \in Players \ {p} : wallet'[q] = wallet[q] /\ refused'[q] = refused[q]
      BY <2>1, <1>3 DEF PurseTypes
    <3> QED BY <3>1, <3>3, <3>4, <1>1, <1>2, <1>4, AccountOf DEF Stakes, MoneyInv
  <2>2. CASE refused' = [refused EXCEPT ![p] = @ + 1] /\ wallet' = wallet
    <3>1. PurseTypes' /\ refused'[p] = refused[p] + 1
      BY <2>2, <1>1, <1>2, <1>3 DEF PurseTypes
    <3>2. Stakes(p)' = Stakes(p)
      BY <3>1, <1>1, <1>3, <1>4, <1>5, UndecidedCount DEF Stakes, PurseTypes
    <3>3. wallet'[p] + BuyIn * Stakes(p)' = Funds + prizes[p]
      BY <2>2, <3>2, <1>1, StakesOf
    <3>4. \A q \in Players \ {p} : wallet'[q] = wallet[q] /\ refused'[q] = refused[q]
      BY <2>2, <1>3 DEF PurseTypes
    <3> QED BY <3>1, <3>3, <3>4, <1>1, <1>2, <1>4, AccountOf DEF Stakes, MoneyInv
  <2> QED BY <2>1, <2>2 DEF RefundBuyIn
<1>7. RequestTypes'
  BY <1>2, <1>3 DEF RequestTypes, Goes
<1>8. DirectorInv' /\ RegTypes' /\ PayerTypes' /\ FloorTypes' /\ TodoTypes'
  BY <1>2, <1>4 DEF MoneyInv, DirectorInv, Busy, RegTypes, PayerTypes, FloorTypes, TodoTypes, event, entries, floor
<1>9. OnePayout' /\ OnlyChampionsArePaid'
  BY <1>2, <1>4, <1>8, PayoutKept DEF event, entries
<1> QED BY <1>6, <1>7, <1>8, <1>9 DEF MoneyInv

----------------------------------------------------------------------------
(* The start, and the floor. *)

(* A step of these touches no money; it may seat players who have entered, *)
(* and no others are ever seated.                                          *)
LEMMA NoMoneyMoves ==
  ASSUME MoneyInv, DirectorInv', UNCHANGED <<money, request, payer, place>>,
         RegTypes', Entrants' = Entrants, status = "finished" => status' = "finished",
         FloorTypes', TodoTypes'
  PROVE  MoneyInv'
<1>1. PurseTypes' /\ RequestTypes' /\ PayerTypes'
  BY DEF MoneyInv, PurseTypes, RequestTypes, PayerTypes, money
<1>2. EntriesArePaidOnce'
  BY EntriesKept DEF MoneyInv, money
<1>3. OnePayout' /\ OnlyChampionsArePaid'
  BY PayoutKept DEF money
<1> QED BY <1>1, <1>2, <1>3 DEF MoneyInv

LEMMA TableCountType == TableCount(Cardinality(Entrants)) \in Int
<1>1. Cardinality(Entrants) \in Nat
  BY FS_Subset, FS_CardinalityType, Identities DEF Entrants
<1>2. SeatCap \in Nat \ {0}
  BY Bounds
<1> QED BY <1>1, <1>2 DEF TableCount

LEMMA StartMoney ==
  ASSUME MoneyInv, DirectorInv', NEW c \in Calls,
         \/ ClaimForStart(c) \/ CreateTables(c) \/ AssignPlayerTable(c)
         \/ CreateDirector(c) \/ SetDirectorMatch(c) \/ ReleaseStartClaim(c)
  PROVE  MoneyInv'
<1>1. UNCHANGED <<money, request, payer, place, floor>>
  BY DEF ClaimForStart, CreateTables, AssignPlayerTable, CreateDirector, SetDirectorMatch,
         ReleaseStartClaim, entries
<1>2. status = "finished" => status' = "finished"
  BY DEF ClaimForStart, CreateTables, AssignPlayerTable, CreateDirector, SetDirectorMatch,
         ReleaseStartClaim, event
<1>3. RegTypes /\ FloorTypes /\ TodoTypes /\ DirectorInv
  BY DEF MoneyInv
<1>4. RegTypes' /\ Entrants' = Entrants
  <2>1. CASE AssignPlayerTable(c)
    <3>1. PICK p \in start[c].todo : reg' = [reg EXCEPT ![p] = "playing"] \/ reg' = reg
      BY <2>1 DEF AssignPlayerTable
    <3>2. p \in Players /\ reg[p] # "none"
      BY <1>3 DEF TodoTypes, Entrants
    <3> QED BY <1>3, <3>1, <3>2 DEF RegTypes, Entrants
  <2>2. CASE reg' = reg
    BY <1>3, <2>2 DEF RegTypes, Entrants
  <2> QED BY <2>1, <2>2 DEF ClaimForStart, CreateTables, CreateDirector, SetDirectorMatch,
                            ReleaseStartClaim, entries
<1>5. FloorTypes'
  <2>1. made' \in Int /\ made' <= MaxTables
    <3>1. CASE CreateTables(c)
      <4>1. \A k \in 0 .. TableCount(Cardinality(Entrants)) - 1 : k \in Int
        BY TableCountType
      <4> QED BY <3>1, <4>1, <1>3, TableCountType DEF CreateTables, FloorTypes
    <3>2. CASE made' = made
      BY <1>3, <3>2 DEF FloorTypes
    <3> QED BY <3>1, <3>2 DEF ClaimForStart, AssignPlayerTable, CreateDirector, SetDirectorMatch,
                              ReleaseStartClaim
  <2> QED BY <1>1, <1>3, <1>4, <2>1 DEF FloorTypes, floor
<1>6. TodoTypes'
  <2>1. ASSUME NEW pc, ToStart(c, pc) PROVE \A d \in Calls : start'[d].todo \subseteq start[d].todo
    BY <1>3, <2>1 DEF ToStart, DirectorInv, StartStates
  <2>2. CASE AssignPlayerTable(c)
    <3>1. \A d \in Calls : start'[d].todo \subseteq start[d].todo
      <4>1. PICK p \in start[c].todo :
                start' = [start EXCEPT ![c].todo = @ \ {p}, ![c].dealt = @ + 1]
        BY <2>2 DEF AssignPlayerTable
      <4> DEFINE mid == [start EXCEPT ![c].todo = @ \ {p}]
      <4>2. mid \in [Calls -> StartStates] /\ \A d \in Calls : mid[d].todo \subseteq start[d].todo
        BY <1>3 DEF DirectorInv, StartStates
      <4>3. start' = [mid EXCEPT ![c].dealt = @ + 1]
        BY <4>1
      <4> HIDE DEF mid
      <4>4. \A d \in Calls : start'[d].todo = mid[d].todo
        BY <4>2, <4>3 DEF StartStates
      <4> QED BY <4>2, <4>4
    <3> QED BY <1>3, <1>4, <3>1 DEF TodoTypes
  <2>3. ASSUME NEW tables, start' = [start EXCEPT ![c] =
                 [pc |-> "assign", tables |-> tables, todo |-> Entrants, dealt |-> 0]]
        PROVE  TodoTypes'
    BY <1>3, <1>4, <2>3 DEF TodoTypes, DirectorInv
  <2>4. (\E pc \in {"claimed", "release", "install", "up", "failed"} : ToStart(c, pc)) => TodoTypes'
    BY <1>3, <1>4, <2>1 DEF TodoTypes
  <2> QED BY <2>2, <2>3, <2>4 DEF ClaimForStart, CreateTables, CreateDirector, SetDirectorMatch,
                                  ReleaseStartClaim
<1> QED BY <1>1, <1>2, <1>3, <1>4, <1>5, <1>6, NoMoneyMoves

LEMMA FloorMoney ==
  ASSUME MoneyInv, DirectorInv', NEW t \in 1 .. made, NEW p \in Players,
         SeatTransferIn(t, p) \/ HandOver(t, p) \/ SitDown(t, p) \/ StandUp(t, p)
  PROVE  MoneyInv'
<1>1. UNCHANGED <<event, money, request, payer, place, start, made>>
  BY DEF SeatTransferIn, HandOver, SitDown, StandUp, entries
<1>2. RegTypes /\ FloorTypes /\ TodoTypes /\ t \in Tables
  BY Bounds DEF MoneyInv, FloorTypes, Tables
<1>3. seats[t] \subseteq Entrants /\ arriving[t] \subseteq Entrants
  BY <1>2 DEF FloorTypes
<1>4. RegTypes' /\ Entrants' = Entrants
  <2>1. CASE p \in seats[t] /\ reg' = [reg EXCEPT ![p] = "playing"]
    BY <1>2, <1>3, <2>1 DEF RegTypes, Entrants
  <2>2. CASE reg' = reg
    BY <1>2, <2>2 DEF RegTypes, Entrants
  <2> QED BY <2>1, <2>2 DEF SeatTransferIn, HandOver, SitDown, StandUp, entries
<1>5. seats' \in [Tables -> SUBSET Entrants] /\ arriving' \in [Tables -> SUBSET Entrants]
  <2>1. CASE SeatTransferIn(t, p)
    BY <1>2, <1>3, <2>1 DEF SeatTransferIn, FloorTypes
  <2>2. CASE HandOver(t, p)
    <3>1. seats' = [seats EXCEPT ![t] = @ \ {p}] \/ seats' = seats
      BY <2>2 DEF HandOver
    <3>2. arriving' = arriving \/ (p \in seats[t] /\ arriving' = QueuedAt(leaving[t][p], p))
      BY <2>2 DEF HandOver
    <3>3. p \in seats[t] => QueuedAt(leaving[t][p], p) \in [Tables -> SUBSET Entrants]
      BY <1>2, <1>3 DEF QueuedAt, FloorTypes
    <3> QED BY <1>2, <3>1, <3>2, <3>3 DEF FloorTypes
  <2>3. CASE SitDown(t, p)
    BY <1>2, <1>3, <2>3 DEF SitDown, FloorTypes, Entrants
  <2>4. CASE StandUp(t, p)
    BY <1>2, <1>3, <2>4 DEF StandUp, FloorTypes
  <2> QED BY <2>1, <2>2, <2>3, <2>4
<1>6. FloorTypes' /\ TodoTypes'
  BY <1>1, <1>2, <1>4, <1>5 DEF FloorTypes, TodoTypes
<1> QED BY <1>1, <1>4, <1>6, NoMoneyMoves DEF event

----------------------------------------------------------------------------
(* The payout. *)

(* A payer moves on: what the others are doing and what is owed is as it was. *)
LEMMA PayerMoves ==
  ASSUME PayerTypes, NEW x \in Payers, NEW s \in PayerStates, payer' = [payer EXCEPT ![x] = s]
  PROVE  /\ payer' \in [Payers -> PayerStates] /\ payer'[x] = s
         /\ \A y \in Payers \ {x} : payer'[y] = payer[y]
BY DEF PayerTypes

(* The payer steps back from the prizes, or was not near them. *)
LEMMA StepsBack ==
  ASSUME OnePayout, PayerTypes, UNCHANGED <<status, place, prizes, reg>>,
         NEW x \in Payers, NEW s \in PayerStates, payer' = [payer EXCEPT ![x] = s],
         s.pc \notin {"crown", "pay"}
  PROVE  OnePayout'
<1>1. \A y \in Payers \ {x} : payer'[y] = payer[y]
  BY PayerMoves
<1>2. ~AtThePrizes(x)'
  BY PayerMoves DEF AtThePrizes
<1>3. \A y \in Payers : AtThePrizes(y)' => y # x /\ AtThePrizes(y)
  BY <1>1, <1>2 DEF AtThePrizes
<1>4. NothingPaid' <=> NothingPaid
  BY DEF NothingPaid
<1>5. ASSUME NEW y \in Payers, payer'[y].pc = "pay" PROVE StillOwed(payer[y].due)'
  <2>1. payer'[y] = payer[y] /\ StillOwed(payer[y].due)
    BY <1>1, <1>3, <1>5 DEF AtThePrizes, OnePayout
  <2> QED BY <2>1 DEF StillOwed, Entrants
<1>6. ASSUME NEW y \in Payers, payer'[y].pc = "crown" PROVE NothingPaid'
  BY <1>1, <1>3, <1>4, <1>6 DEF AtThePrizes, OnePayout
<1> QED BY <1>3, <1>4, <1>5, <1>6 DEF OnePayout

IdleOrDone == {Idle, [Idle EXCEPT !.pc = "done"]}

LEMMA IdleOrDoneType == \A s \in IdleOrDone : s \in PayerStates /\ s.pc \notin {"crown", "pay"}
BY DEF IdleOrDone, Idle, PayerStates

LEMMA Leaves ==
  ASSUME NEW x \in Payers, Leave(x) PROVE \E s \in IdleOrDone : payer' = [payer EXCEPT ![x] = s]
BY DEF Leave, IdleOrDone

(* A step of a payer that pays nothing. *)
LEMMA NothingIsPaid ==
  ASSUME MoneyInv, UNCHANGED <<entries, money, request, start, made, floor>>,
         DirectorInv', payer' \in [Payers -> PayerStates], OnePayout'
  PROVE  MoneyInv'
<1>1. RegTypes' /\ PurseTypes' /\ RequestTypes' /\ PayerTypes' /\ FloorTypes' /\ TodoTypes' /\ Entrants' = Entrants
  BY DEF MoneyInv, RegTypes, PurseTypes, RequestTypes, PayerTypes, FloorTypes, TodoTypes,
         entries, money, floor, Entrants
<1>2. EntriesArePaidOnce'
  BY <1>1, EntriesKept DEF MoneyInv, money
<1>3. OnlyChampionsArePaid'
  BY <1>1 DEF MoneyInv, OnlyChampionsArePaid, money, entries
<1> QED BY <1>1, <1>2, <1>3 DEF MoneyInv

LEMMA LookMoney ==
  ASSUME MoneyInv, DirectorInv', NEW x \in Payers, LookWhoPlays(x) PROVE MoneyInv'
<1> DEFINE s == [payer[x] EXCEPT !.pc = "claim", !.playing = Cardinality(Playing)]
<1>1. payer' = [payer EXCEPT ![x] = s]
  BY DEF LookWhoPlays
<1>2. s \in PayerStates /\ s.pc = "claim"
  <2>1. Cardinality(Playing) \in Nat
    BY FS_Subset, FS_CardinalityType, Identities DEF Playing
  <2> QED BY <2>1 DEF MoneyInv, PayerTypes, PayerStates
<1>3. UNCHANGED <<event, entries, money, request, start, made, floor>> /\ PayerTypes /\ OnePayout
  BY DEF LookWhoPlays, MoneyInv
<1> HIDE DEF s
<1>4. OnePayout' /\ payer' \in [Payers -> PayerStates]
  BY <1>1, <1>2, <1>3, StepsBack, PayerMoves DEF event, entries, money
<1> QED BY <1>3, <1>4, NothingIsPaid

LEMMA FinishMoney ==
  ASSUME MoneyInv, DirectorInv', NEW x \in Payers, FinishOnce(x) PROVE MoneyInv'
<1>1. UNCHANGED <<entries, money, request, start, made, floor>> /\ PayerTypes /\ OnePayout
  BY DEF FinishOnce, MoneyInv
<1>2. CASE status = "finished"
  <2>1. status' = status /\ Leave(x)
    BY <1>2 DEF FinishOnce
  <2>2. PICK s \in IdleOrDone : payer' = [payer EXCEPT ![x] = s]
    BY <2>1, Leaves
  <2>3. OnePayout' /\ payer' \in [Payers -> PayerStates]
    BY <1>1, <2>1, <2>2, StepsBack, PayerMoves, IdleOrDoneType DEF entries, money
  <2> QED BY <1>1, <2>3, NothingIsPaid
<1>3. CASE status # "finished"
  <2> DEFINE s == [payer[x] EXCEPT !.pc = "crown"]
  <2>1. status' = "finished" /\ payer' = [payer EXCEPT ![x] = s]
    BY <1>3 DEF FinishOnce, PayerAt
  <2>2. s \in PayerStates /\ s.pc = "crown"
    BY <1>1 DEF PayerTypes, PayerStates
  <2> HIDE DEF s
  <2>3. payer' \in [Payers -> PayerStates] /\ payer'[x].pc = "crown"
        /\ \A y \in Payers \ {x} : payer'[y] = payer[y]
    BY <1>1, <2>1, <2>2, PayerMoves
  <2>4. \A y \in Payers : AtThePrizes(y)' => y = x
    BY <1>1, <1>3, <2>3 DEF OnePayout, AtThePrizes
  <2>5. NothingPaid'
    BY <1>1, <1>3 DEF OnePayout, NothingPaid, money
  <2>6. \A y \in Payers : payer'[y].pc # "pay"
    BY <2>3, <2>4 DEF AtThePrizes
  <2>7. OnePayout'
    BY <2>1, <2>4, <2>5, <2>6 DEF OnePayout
  <2> QED BY <1>1, <2>3, <2>7, NothingIsPaid
<1> QED BY <1>2, <1>3

(* What is due next, or nothing more. *)
LEMMA Due ==
  ASSUME PayerTypes, NEW x \in Payers, NEW due \in SUBSET [who : Players, amount : Nat], StillDue(x, due)
  PROVE  /\ payer' \in [Payers -> PayerStates]
         /\ \A y \in Payers \ {x} : payer'[y] = payer[y]
         /\ payer'[x].pc # "crown" /\ (payer'[x].pc = "pay" => payer'[x].due = due)
<1>1. CASE due = {}
  <2>1. PICK s \in IdleOrDone : payer' = [payer EXCEPT ![x] = s]
    BY <1>1, Leaves DEF StillDue
  <2> QED BY <2>1, IdleOrDoneType, PayerMoves
<1>2. CASE due # {}
  <2> DEFINE s == [Idle EXCEPT !.pc = "pay", !.due = due]
  <2>1. payer' = [payer EXCEPT ![x] = s]
    BY <1>2 DEF StillDue
  <2>2. s \in PayerStates /\ s.pc = "pay" /\ s.due = due
    BY DEF Idle, PayerStates
  <2> HIDE DEF s
  <2> QED BY <2>1, <2>2, PayerMoves
<1> QED BY <1>1, <1>2

(* The same when a call has failed on the way. *)
LEMMA DueAfterFault ==
  ASSUME PayerTypes, NEW x \in Payers, NEW due \in SUBSET [who : Players, amount : Nat],
         payer' = [payer EXCEPT ![x] = Owing(x, due)]
  PROVE  /\ payer' \in [Payers -> PayerStates]
         /\ \A y \in Payers \ {x} : payer'[y] = payer[y]
         /\ payer'[x].pc # "crown" /\ (payer'[x].pc = "pay" => payer'[x].due = due)
<1>1. PICK s : s = Owing(x, due)
  OBVIOUS
<1>2. s \in PayerStates /\ s.pc # "crown" /\ (s.pc = "pay" => s.due = due)
  BY <1>1 DEF Owing, Idle, PayerStates
<1>3. payer' = [payer EXCEPT ![x] = s]
  BY <1>1
<1> QED BY <1>2, <1>3, PayerMoves

(* The one at the prizes goes on with what is due. *)
LEMMA GoesOn ==
  ASSUME OnePayout, NEW x \in Payers, AtThePrizes(x), status' = status,
         \A y \in Payers \ {x} : payer'[y] = payer[y],
         payer'[x].pc # "crown", payer'[x].pc = "pay" => StillOwed(payer[x].due)'
  PROVE  OnePayout'
<1>1. status = "finished" /\ \A y \in Payers \ {x} : ~AtThePrizes(y)
  BY DEF OnePayout
<1>2. \A y \in Payers \ {x} : ~AtThePrizes(y)'
  BY <1>1 DEF AtThePrizes
<1>3. \A y \in Payers : payer'[y].pc # "crown"
  BY <1>2 DEF AtThePrizes
<1>4. \A y \in Payers : payer'[y].pc = "pay" => y = x
  BY <1>2 DEF AtThePrizes
<1> QED BY <1>1, <1>2, <1>3, <1>4 DEF OnePayout

LEMMA CrownMoney ==
  ASSUME MoneyInv, DirectorInv', NEW x \in Payers, SetFinishPlace(x) PROVE MoneyInv'
<1>1. UNCHANGED <<event, reg, at, money, request, start, made, floor>> /\ payer[x].pc = "crown"
  BY DEF SetFinishPlace
<1>2. PayerTypes /\ OnePayout /\ NothingPaid
  BY <1>1 DEF MoneyInv, OnePayout
<1>3. place' \in [Players -> {0, 1}]
  BY <1>2 DEF SetFinishPlace, PayerTypes
<1> DEFINE pool == Pool(Cardinality(Entrants))
<1>4. pool \in Nat /\ pool' = pool /\ Pool(0) \in Nat /\ Pool(0) <= pool
  <2>1. Cardinality({}) = 0
    BY FS_EmptySet
  <2> QED BY <1>1, <2>1, PoolGrows DEF Entrants
<1>5. PICK found \in Nat : /\ found <= pool
                          /\ \/ StillDue(x, Prizes(place', found))
                             \/ payer' = [payer EXCEPT ![x] = Owing(x, Prizes(place', found))]
  <2>1. \E found \in {0, pool, Pool(0)} :
          \/ StillDue(x, Prizes(place', found))
          \/ payer' = [payer EXCEPT ![x] = Owing(x, Prizes(place', found))]
    BY DEF SetFinishPlace
  <2> HIDE DEF pool
  <2> QED BY <1>4, <2>1
<1> HIDE DEF pool
<1> DEFINE due == Prizes(place', found)
<1>6. /\ due \in SUBSET [who : Players, amount : Nat]
      /\ \A d \in due : place'[d.who] = 1 /\ d.amount <= pool /\ \A e \in due : e.who = d.who => e = d
  <2>1. \A n \in Nat : n <= found => n <= pool
    BY <1>4, <1>5
  <2> QED BY <1>3, <2>1, PrizesFromThePool
<1>7. StillDue(x, due) \/ payer' = [payer EXCEPT ![x] = Owing(x, due)]
  BY <1>5
<1> HIDE DEF due
<1>8. /\ payer' \in [Payers -> PayerStates] /\ \A y \in Payers \ {x} : payer'[y] = payer[y]
      /\ payer'[x].pc # "crown" /\ (payer'[x].pc = "pay" => payer'[x].due = due)
  BY <1>2, <1>6, <1>7, Due, DueAfterFault
<1>9. NothingPaid'
  BY <1>1, <1>2 DEF NothingPaid, money
<1>10. \A d \in due : d.who \in Players
  BY <1>6
<1>11. payer'[x].pc = "pay" => StillOwed(payer[x].due)'
  BY <1>4, <1>6, <1>8, <1>9, <1>10 DEF StillOwed, pool, NothingPaid
<1>12. OnePayout'
  BY <1>1, <1>2, <1>8, <1>11, GoesOn DEF AtThePrizes, event
<1>13. RegTypes' /\ PurseTypes' /\ RequestTypes' /\ FloorTypes' /\ TodoTypes' /\ Entrants' = Entrants
  BY <1>1 DEF MoneyInv, RegTypes, PurseTypes, RequestTypes, FloorTypes, TodoTypes, money, floor, Entrants
<1>14. EntriesArePaidOnce'
  BY <1>1, <1>13, EntriesKept DEF MoneyInv, money
<1>15. OnlyChampionsArePaid'
  BY <1>4, <1>9 DEF OnlyChampionsArePaid, NothingPaid, pool
<1> QED BY <1>3, <1>8, <1>12, <1>13, <1>14, <1>15 DEF MoneyInv, PayerTypes

(* One prize is paid: the one it is due to has had none. *)
LEMMA PrizeMoney ==
  ASSUME MoneyInv, NEW x \in Payers, payer[x].pc = "pay", NEW d \in payer[x].due,
         wallet' = [wallet EXCEPT ![d.who] = @ + d.amount],
         prizes' = [prizes EXCEPT ![d.who] = @ + d.amount],
         UNCHANGED <<reg, place, request, refused>>
  PROVE  /\ PurseTypes' /\ EntriesArePaidOnce' /\ OnlyChampionsArePaid'
         /\ \A rest : rest = payer[x].due \ {d} => StillOwed(rest)'
<1> DEFINE pool == Pool(Cardinality(Entrants)) who == d.who amount == d.amount due == payer[x].due
<1>1. /\ PurseTypes /\ PayerTypes /\ StillOwed(due) /\ OnlyChampionsArePaid
      /\ due \subseteq [who : Players, amount : Nat]
  BY DEF MoneyInv, OnePayout, PayerTypes, PayerStates
<1>2. who \in Players /\ amount \in Nat
  BY <1>1
<1>3. place[who] = 1 /\ amount <= pool /\ prizes[who] = 0 /\ \A e \in due : e.who = who => e = d
  BY <1>1 DEF StillOwed
<1>4. pool \in Nat /\ pool' = pool /\ Entrants' = Entrants
  BY PoolGrows DEF Entrants
<1>5. ASSUME NEW e \in due \ {d} PROVE e.who \in Players \ {who}
  BY <1>1, <1>3
<1> HIDE DEF pool, who, amount
<1>6. /\ PurseTypes' /\ wallet'[who] = wallet[who] + amount /\ prizes'[who] = amount
      /\ \A p \in Players \ {who} : wallet'[p] = wallet[p] /\ prizes'[p] = prizes[p]
  BY <1>1, <1>2, <1>3 DEF PurseTypes, who, amount
<1>7. EntriesArePaidOnce'
  <2> SUFFICES ASSUME NEW p \in Players PROVE wallet'[p] + BuyIn * Stakes(p) = Funds + prizes'[p]
    BY <1>4 DEF EntriesArePaidOnce, Stakes, Undecided
  <2>1. /\ wallet[p] + BuyIn * Stakes(p) = Funds + prizes[p]
        /\ wallet[p] \in Nat /\ BuyIn * Stakes(p) \in Nat /\ Funds \in Nat
    BY StakesOf, Amounts
  <2> QED BY <1>2, <1>3, <1>6, <2>1
<1>8. OnlyChampionsArePaid'
  BY <1>1, <1>2, <1>3, <1>4, <1>6 DEF OnlyChampionsArePaid, pool
<1>9. ASSUME NEW rest, rest = due \ {d} PROVE StillOwed(rest)'
  BY <1>1, <1>4, <1>5, <1>6, <1>9 DEF StillOwed, pool
<1> QED BY <1>6, <1>7, <1>8, <1>9

LEMMA PayMoney ==
  ASSUME MoneyInv, DirectorInv', NEW x \in Payers, PayWinner(x) PROVE MoneyInv'
<1>1. UNCHANGED <<event, entries, refused, request, start, made, floor>> /\ payer[x].pc = "pay"
  BY DEF PayWinner
<1>2. PayerTypes /\ OnePayout /\ payer[x].due \in SUBSET [who : Players, amount : Nat]
  BY DEF MoneyInv, PayerTypes, PayerStates
<1>3. RegTypes' /\ RequestTypes' /\ FloorTypes' /\ TodoTypes' /\ place' \in [Players -> {0, 1}]
  BY <1>1 DEF MoneyInv, RegTypes, RequestTypes, FloorTypes, TodoTypes, PayerTypes, floor, entries, Entrants
<1>4. PICK d \in payer[x].due :
        \/ /\ wallet' = [wallet EXCEPT ![d.who] = @ + d.amount]
           /\ prizes' = [prizes EXCEPT ![d.who] = @ + d.amount]
           /\ StillDue(x, payer[x].due \ {d})
        \/ /\ UNCHANGED <<wallet, prizes, known>>
           /\ payer' = [payer EXCEPT ![x] =
                          IF x \in Calls
                          THEN IF payer[x].due = {d} THEN Idle ELSE [payer[x] EXCEPT !.due = @ \ {d}]
                          ELSE [Idle EXCEPT !.pc = "done"]]
  BY DEF PayWinner
<1>5. ASSUME wallet' = [wallet EXCEPT ![d.who] = @ + d.amount],
             prizes' = [prizes EXCEPT ![d.who] = @ + d.amount],
             StillDue(x, payer[x].due \ {d})
      PROVE  MoneyInv'
  <2>1. PICK rest \in SUBSET [who : Players, amount : Nat] : rest = payer[x].due \ {d}
    BY <1>2
  <2>2. PurseTypes' /\ EntriesArePaidOnce' /\ OnlyChampionsArePaid' /\ StillOwed(rest)'
    BY <1>1, <1>5, <2>1, PrizeMoney DEF entries
  <2>3. /\ payer' \in [Payers -> PayerStates] /\ \A y \in Payers \ {x} : payer'[y] = payer[y]
        /\ payer'[x].pc # "crown" /\ (payer'[x].pc = "pay" => payer'[x].due = rest)
    BY <1>2, <1>5, <2>1, Due
  <2>4. payer'[x].pc = "pay" => StillOwed(payer[x].due)'
    BY <2>2, <2>3 DEF StillOwed
  <2>5. OnePayout'
    BY <1>1, <1>2, <2>3, <2>4, GoesOn DEF AtThePrizes, event
  <2> QED BY <1>3, <2>2, <2>3, <2>5 DEF MoneyInv, PayerTypes
<1>6. ASSUME UNCHANGED <<wallet, prizes>>, NEW s \in IdleOrDone, payer' = [payer EXCEPT ![x] = s]
      PROVE  MoneyInv'
  <2>1. OnePayout' /\ payer' \in [Payers -> PayerStates]
    BY <1>1, <1>2, <1>6, StepsBack, PayerMoves, IdleOrDoneType DEF event, entries
  <2> QED BY <1>1, <1>6, <2>1, NothingIsPaid DEF money
<1>7. ASSUME UNCHANGED <<wallet, prizes>>,
             NEW s, s = [payer[x] EXCEPT !.due = @ \ {d}], payer' = [payer EXCEPT ![x] = s]
      PROVE  MoneyInv'
  <2>1. s \in PayerStates /\ s.pc = "pay" /\ s.due = payer[x].due \ {d}
    BY <1>1, <1>2, <1>7 DEF PayerTypes, PayerStates
  <2>2. payer' = [payer EXCEPT ![x] = s]
    BY <1>7
  <2>3. payer' \in [Payers -> PayerStates] /\ payer'[x] = s /\ \A y \in Payers \ {x} : payer'[y] = payer[y]
    BY <1>2, <2>1, <2>2, PayerMoves
  <2>4. StillOwed(payer[x].due)'
    <3>1. StillOwed(payer[x].due) /\ payer'[x].due \subseteq payer[x].due
      BY <1>1, <1>2, <2>1, <2>3 DEF OnePayout
    <3> QED BY <3>1, <1>1, <1>7 DEF StillOwed, entries, Entrants
  <2>5. OnePayout'
    BY <1>1, <1>2, <2>1, <2>3, <2>4, GoesOn DEF AtThePrizes, event
  <2> QED BY <1>1, <1>7, <2>3, <2>5, NothingIsPaid DEF money
<1>8. CASE /\ UNCHANGED <<wallet, prizes, known>>
           /\ payer' = [payer EXCEPT ![x] =
                          IF x \in Calls
                          THEN IF payer[x].due = {d} THEN Idle ELSE [payer[x] EXCEPT !.due = @ \ {d}]
                          ELSE [Idle EXCEPT !.pc = "done"]]
  <2> DEFINE less == [payer[x] EXCEPT !.due = @ \ {d}]
             done == [Idle EXCEPT !.pc = "done"]
  <2>1. \/ payer' = [payer EXCEPT ![x] = Idle]
        \/ payer' = [payer EXCEPT ![x] = less]
        \/ payer' = [payer EXCEPT ![x] = done]
    BY <1>8
  <2>2. Idle \in IdleOrDone /\ done \in IdleOrDone
    BY DEF IdleOrDone
  <2> QED BY <1>6, <1>7, <1>8, <2>1, <2>2
<1> QED BY <1>4, <1>5, <1>8

----------------------------------------------------------------------------
LEMMA MoneyStep == MoneyInv /\ [Next]_vars => MoneyInv'
<1> SUFFICES ASSUME MoneyInv, [Next]_vars PROVE MoneyInv'
  OBVIOUS
<1>1. DirectorInv'
  BY DirectorStep DEF MoneyInv
<1>2. CASE UNCHANGED vars
  <2>1. UNCHANGED <<entries, money, request, start, made, floor, payer, event>>
    BY <1>2 DEF vars
  <2>2. payer' \in [Payers -> PayerStates] /\ OnePayout'
    BY <2>1 DEF MoneyInv, PayerTypes, OnePayout, AtThePrizes, NothingPaid, StillOwed, entries, money, event, Entrants
  <2> QED BY <1>1, <2>1, <2>2, NothingIsPaid
<1>3. ASSUME NEW c \in Calls, NobodyHasWon(c) \/ Rebalance(c) PROVE MoneyInv'
  <2>1. UNCHANGED <<event, entries, money, request, start, made, payer, seats, arriving>>
    BY <1>3 DEF NobodyHasWon, Rebalance, floor
  <2>2. RegTypes' /\ FloorTypes' /\ TodoTypes' /\ Entrants' = Entrants
    BY <2>1 DEF MoneyInv, RegTypes, FloorTypes, TodoTypes, entries, Entrants
  <2> QED BY <1>1, <2>1, <2>2, NoMoneyMoves DEF event, entries
<1> QED
  BY <1>1, <1>2, <1>3, DebitMoney, RegisterMoney, RefundMoney, StartMoney, LookMoney, FinishMoney,
     CrownMoney, PayMoney, FloorMoney DEF Next

(* An entry is paid for exactly once, whatever a double click, an error or *)
(* a duplicate does; and whoever runs the payout, and however often, only  *)
(* champions are paid, and none more than the pool (TournamentRegister,    *)
(* FinishOnce, checkFinish, TournamentFinalize).                           *)
THEOREM TournamentMoney == Spec => []MoneyIsAccounted
<1>1. MoneyInv => MoneyIsAccounted
  BY DEF MoneyInv, MoneyIsAccounted
<1> QED BY <1>1, MoneyInit, MoneyStep, PTL DEF Spec

----------------------------------------------------------------------------
(* The types.  A call that hands out tables has a row of them, one after   *)
(* the other, all made; a director knows tables of its own row only, and   *)
(* none before it is created; a player is told to move to another table.   *)

Statuses == status \in {"registering", "starting", "running", "finished"}
Row(c) ==
  /\ start[c].tables \in SUBSET (1 .. made) /\ start[c].dealt \in Nat
  /\ start[c].pc = "assign" => \E lo, hi \in 1 .. made : lo <= hi /\ start[c].tables = lo .. hi
  /\ known[c] \subseteq start[c].tables
  /\ start[c].pc \notin {"install", "up"} => known[c] = {}
Rows    == known \in [Calls -> SUBSET Int] /\ \A c \in Calls : Row(c)
Counted == made \in 0 .. MaxTables /\ faults \in 0 .. MaxFaults /\ sits \in [Players -> Nat]
Placed  == at \in [Players -> 0 .. made]
Moving  == /\ leaving \in [Tables -> [Players -> 0 .. made]]
           /\ \A t \in Tables, p \in Players : leaving[t][p] # t
Capped  == \A t \in Tables : Cardinality(seats[t]) <= SeatCap

FloorInv == Statuses /\ Rows /\ Counted /\ Placed /\ Moving /\ Capped

LEMMA FaultBound == MaxFaults \in Nat
BY TournamentAssumption

LEMMA FloorInit == Init => FloorInv
<1> SUFFICES ASSUME Init PROVE FloorInv
  OBVIOUS
<1>1. MaxTables \in Nat /\ MaxFaults \in Nat /\ SeatCap \in Nat
  BY Bounds, FaultBound
<1>2. Statuses /\ Counted /\ Placed
  BY <1>1 DEF Init, Statuses, Counted, Placed
<1>3. Rows
  <2>1. \A c \in Calls : start[c].pc = "new" /\ start[c].tables = {} /\ start[c].dealt = 0
    BY DEF Init
  <2>2. known \in [Calls -> SUBSET Int] /\ \A c \in Calls : known[c] = {}
    BY DEF Init
  <2> QED BY <2>1, <2>2 DEF Rows, Row
<1>4. Moving
  BY <1>1 DEF Init, Moving, Tables
<1>5. Capped
  BY <1>1, FS_EmptySet DEF Init, Capped
<1> QED BY <1>2, <1>3, <1>4, <1>5 DEF FloorInv

(* Each step has one fault at most, and not after the last. *)
OneFault == faults' = faults \/ (faults < MaxFaults /\ faults' = faults + 1)

LEMMA LeaveFault == ASSUME NEW x, Leave(x) PROVE OneFault
BY DEF Leave, PruneEmptyTables, Fine, Fault, OneFault

LEMMA StillDueFault == ASSUME NEW x, NEW due, StillDue(x, due) PROVE OneFault
BY LeaveFault DEF StillDue, Fine, OneFault

LEMMA FaultsInBounds == [Next]_vars /\ faults \in 0 .. MaxFaults => faults' \in 0 .. MaxFaults
<1> SUFFICES ASSUME [Next]_vars, faults \in 0 .. MaxFaults PROVE faults' \in 0 .. MaxFaults
  OBVIOUS
<1>1. SUFFICES OneFault
  BY FaultBound DEF OneFault
<1>2. ASSUME NEW r \in Requests, DebitBuyIn(r) \/ Register(r) \/ RefundBuyIn(r) PROVE OneFault
  BY <1>2 DEF DebitBuyIn, Register, RefundBuyIn, floor, Fine, Fault, OneFault
<1>3. ASSUME NEW c \in Calls,
             \/ ClaimForStart(c) \/ CreateTables(c) \/ AssignPlayerTable(c) \/ CreateDirector(c)
             \/ SetDirectorMatch(c) \/ ReleaseStartClaim(c)
      PROVE  OneFault
  BY <1>3 DEF ClaimForStart, CreateTables, AssignPlayerTable, CreateDirector, SetDirectorMatch,
              ReleaseStartClaim, Fine, Fault, OneFault
<1>4. ASSUME NEW c \in Calls, NobodyHasWon(c) \/ Rebalance(c) PROVE OneFault
  BY <1>4 DEF NobodyHasWon, PruneEmptyTables, Rebalance, Fine, Fault, OneFault
<1>5. ASSUME NEW x \in Payers, LookWhoPlays(x) \/ FinishOnce(x) \/ SetFinishPlace(x) \/ PayWinner(x)
      PROVE  OneFault
  <2>1. CASE FinishOnce(x)
    BY <2>1, LeaveFault DEF FinishOnce, Fine, OneFault
  <2>2. CASE LookWhoPlays(x)
    BY <2>2 DEF LookWhoPlays, OneFault
  <2>3. CASE SetFinishPlace(x)
    BY <2>3, StillDueFault DEF SetFinishPlace, Fault, OneFault
  <2>4. CASE PayWinner(x)
    BY <2>4, StillDueFault DEF PayWinner, Fault, OneFault
  <2> QED BY <1>5, <2>1, <2>2, <2>3, <2>4
<1>6. ASSUME NEW t, NEW p, SeatTransferIn(t, p) \/ HandOver(t, p) \/ SitDown(t, p) \/ StandUp(t, p)
      PROVE  OneFault
  BY <1>6 DEF SeatTransferIn, HandOver, SitDown, StandUp, Fine, Fault, OneFault
<1>7. CASE UNCHANGED vars
  BY <1>7 DEF vars, OneFault
<1> QED BY <1>2, <1>3, <1>4, <1>5, <1>6, <1>7 DEF Next

(* A step that makes no table and seats nobody. *)
LEMMA FloorKept ==
  ASSUME FloorInv, UNCHANGED <<at, floor, start, made>>, faults' \in 0 .. MaxFaults,
         Statuses', known' \in [Calls -> SUBSET Int], \A c \in Calls : known'[c] \subseteq known[c]
  PROVE  FloorInv'
<1>1. Counted' /\ Placed' /\ Moving' /\ Capped'
  BY DEF FloorInv, Counted, Placed, Moving, Capped, floor
<1>2. Rows'
  BY DEF FloorInv, Rows, Row
<1> QED BY <1>1, <1>2 DEF FloorInv

LEMMA KnownKept ==
  ASSUME FloorInv, known' = known
  PROVE  known' \in [Calls -> SUBSET Int] /\ \A c \in Calls : known'[c] \subseteq known[c]
BY DEF FloorInv, Rows

LEMMA Pruned ==
  ASSUME FloorInv, NEW c \in Calls, PruneEmptyTables(c)
  PROVE  known' \in [Calls -> SUBSET Int] /\ \A d \in Calls : known'[d] \subseteq known[d]
<1> DEFINE kept == {t \in known[c] : AtTable(t) # {}}
<1>1. PICK less : less \subseteq kept /\ known' = [known EXCEPT ![c] = less]
  BY DEF PruneEmptyTables
<1>2. known \in [Calls -> SUBSET Int] /\ less \subseteq known[c]
  BY <1>1 DEF FloorInv, Rows
<1> HIDE DEF kept
<1> QED BY <1>1, <1>2

LEMMA LeavesTables ==
  ASSUME FloorInv, NEW x \in Payers, Leave(x)
  PROVE  known' \in [Calls -> SUBSET Int] /\ \A c \in Calls : known'[c] \subseteq known[c]
BY Pruned, KnownKept DEF Leave

LEMMA StillDueTables ==
  ASSUME FloorInv, NEW x \in Payers, NEW due, StillDue(x, due)
  PROVE  known' \in [Calls -> SUBSET Int] /\ \A c \in Calls : known'[c] \subseteq known[c]
BY LeavesTables, KnownKept DEF StillDue

----------------------------------------------------------------------------
(* The start. *)

(* One call's row changes, and tables are only ever added. *)
LEMMA OneRow ==
  ASSUME Rows, NEW c \in Calls, made \in Nat, made' \in Nat, made <= made',
         known' \in [Calls -> SUBSET Int], Row(c)',
         \A d \in Calls \ {c} : start'[d] = start[d] /\ known'[d] = known[d]
  PROVE  Rows'
<1> SUFFICES ASSUME NEW d \in Calls \ {c} PROVE Row(d)'
  BY DEF Rows
<1>1. Row(d) /\ start'[d] = start[d] /\ known'[d] = known[d]
  BY DEF Rows
<1>2. 1 .. made \subseteq 1 .. made'
  OBVIOUS
<1> QED BY <1>1, <1>2 DEF Row

(* A call that moves on keeps its row. *)
LEMMA KeepsItsRow ==
  ASSUME FloorInv, DirectorInv, NEW c \in Calls, NEW pc \in {"claimed", "install", "release", "up", "failed"},
         ToStart(c, pc), made' \in Nat, made <= made', known' \in [Calls -> SUBSET Int],
         known'[c] \subseteq start[c].tables, pc \in {"install", "up"} \/ known'[c] = {},
         \A d \in Calls \ {c} : known'[d] = known[d]
  PROVE  Rows'
<1>1. Rows /\ Row(c) /\ made \in Nat
  BY DEF FloorInv, Rows, Counted
<1>2. start'[c].pc = pc /\ \A d \in Calls \ {c} : start'[d] = start[d]
  BY MovedOn
<1>3. start'[c].tables = start[c].tables /\ start'[c].dealt = start[c].dealt
  BY DEF DirectorInv, ToStart, StartStates
<1>4. 1 .. made \subseteq 1 .. made'
  BY <1>1
<1>5. Row(c)'
  BY <1>1, <1>2, <1>3, <1>4 DEF Row
<1> QED BY <1>1, <1>2, <1>5, OneRow

(* More tables, the rest of the floor as it was. *)
LEMMA MoreTables ==
  ASSUME FloorInv, UNCHANGED floor, made' \in made .. MaxTables, faults' \in 0 .. MaxFaults
  PROVE  Counted' /\ Moving' /\ Capped' /\ (UNCHANGED at => Placed')
<1>1. made \in Nat /\ MaxTables \in Nat
  BY Bounds DEF FloorInv, Counted
<1>2. 0 .. made \subseteq 0 .. made' /\ made' \in 0 .. MaxTables
  BY <1>1
<1>3. Counted'
  BY <1>2 DEF FloorInv, Counted, floor
<1>4. Moving'
  BY <1>2 DEF FloorInv, Moving, floor
<1>5. Capped'
  BY DEF FloorInv, Capped, floor
<1>6. UNCHANGED at => Placed'
  BY <1>2 DEF FloorInv, Placed
<1> QED BY <1>3, <1>4, <1>5, <1>6

LEMMA RoundUp ==
  ASSUME NEW m \in Nat \ {0}, NEW cap \in Nat \ {0}
  PROVE  (m + cap - 1) \div cap \in Nat \ {0}
<1> DEFINE b == m + cap - 1
<1>1. b \in Nat /\ b >= cap
  OBVIOUS
<1> HIDE DEF b
<1>2. b \div cap \in Nat \ {0}
  BY <1>1
<1> QED BY <1>2 DEF b

LEMMA TablesForEntrants ==
  Cardinality(Entrants) >= 2 => TableCount(Cardinality(Entrants)) \in Nat \ {0}
<1>1. Cardinality(Entrants) \in Nat
  BY FS_Subset, FS_CardinalityType, Identities DEF Entrants
<1>2. SeatCap \in Nat \ {0}
  BY Bounds
<1> QED BY <1>1, <1>2, RoundUp DEF TableCount

LEMMA CreateTablesFloor ==
  ASSUME FloorInv, DirectorInv, NEW c \in Calls, CreateTables(c), faults' \in 0 .. MaxFaults
  PROVE  FloorInv'
<1>1. start[c].pc = "claimed" /\ UNCHANGED <<status, at, known, floor>>
  BY DEF CreateTables, event, entries
<1>2. made \in Nat /\ MaxTables \in Nat /\ Row(c) /\ Rows /\ known[c] = {}
  BY <1>1, Bounds DEF FloorInv, Counted, Rows, Row
<1>3. known' \in [Calls -> SUBSET Int] /\ known'[c] = {} /\ \A d \in Calls : known'[d] = known[d]
  BY <1>1, <1>2 DEF Rows
<1>4. PICK n \in Int : n = TableCount(Cardinality(Entrants)) /\ (Cardinality(Entrants) >= 2 => n \in Nat \ {0})
  BY TableCountType, TablesForEntrants
<1>5. ASSUME ToStart(c, "release"), made' \in made .. MaxTables PROVE FloorInv'
  <2>1. Rows'
    BY <1>2, <1>3, <1>5, KeepsItsRow
  <2>2. Counted' /\ Moving' /\ Capped' /\ Placed'
    BY <1>1, <1>5, MoreTables
  <2> QED BY <1>1, <2>1, <2>2 DEF FloorInv, Statuses
<1>6. ASSUME Cardinality(Entrants) >= 2, made + n <= MaxTables, made' = made + n,
             start' = [start EXCEPT ![c] = [pc |-> "assign", tables |-> made + 1 .. made + n,
                                            todo |-> Entrants, dealt |-> 0]]
      PROVE  FloorInv'
  <2>1. PICK lo \in 1 .. made', hi \in 1 .. made' : lo = made + 1 /\ hi = made + n /\ lo <= hi
    BY <1>2, <1>4, <1>6
  <2>2. /\ start'[c] = [pc |-> "assign", tables |-> lo .. hi, todo |-> Entrants, dealt |-> 0]
        /\ \A d \in Calls \ {c} : start'[d] = start[d]
    <3> DEFINE row == [pc |-> "assign", tables |-> lo .. hi, todo |-> Entrants, dealt |-> 0]
    <3>1. start' = [start EXCEPT ![c] = row]
      BY <1>6, <2>1
    <3> HIDE DEF row
    <3>2. start'[c] = row /\ \A d \in Calls \ {c} : start'[d] = start[d]
      BY <3>1 DEF DirectorInv
    <3> QED BY <3>2 DEF row
  <2>3. lo .. hi \in SUBSET (1 .. made')
    <3>1. made' \in Int
      BY <1>2, <1>4, <1>6
    <3> QED BY <2>1, <3>1
  <2>4. Row(c)'
    BY <1>3, <2>1, <2>2, <2>3 DEF Row
  <2>5. made' \in Nat /\ made <= made' /\ made' \in made .. MaxTables
    BY <1>2, <1>4, <1>6
  <2>6. Rows'
    BY <1>2, <1>3, <2>2, <2>4, <2>5, OneRow
  <2>7. Counted' /\ Moving' /\ Capped' /\ Placed'
    BY <1>1, <2>5, MoreTables
  <2> QED BY <1>1, <2>6, <2>7 DEF FloorInv, Statuses
<1>7. CASE ToStart(c, "release") /\ UNCHANGED made
  BY <1>2, <1>5, <1>7 DEF FloorInv, Counted
<1>8. ASSUME ToStart(c, "release"), NEW k \in 0 .. n - 1, made + k <= MaxTables, made' = made + k
      PROVE  FloorInv'
  <2>1. made' \in made .. MaxTables
    BY <1>2, <1>8
  <2> QED BY <1>5, <1>8, <2>1
<1> QED BY <1>4, <1>6, <1>7, <1>8 DEF CreateTables

LEMMA NextTableIsMade ==
  ASSUME FloorInv, NEW c \in Calls, start[c].pc = "assign" PROVE NextTable(start[c]) \in 1 .. made
<1>1. made \in Nat /\ start[c].dealt \in Nat
  BY DEF FloorInv, Counted, Rows, Row
<1>2. PICK lo \in 1 .. made, hi \in 1 .. made : lo <= hi /\ start[c].tables = lo .. hi
  BY DEF FloorInv, Rows, Row
<1>3. PICK n \in Nat \ {0} : n = hi - lo + 1
  BY <1>1, <1>2
<1>4. Cardinality(start[c].tables) = n
  <2>1. lo \in Int /\ hi \in Int /\ ~(lo > hi)
    BY <1>1, <1>2
  <2> QED BY <1>2, <1>3, <2>1, FS_Interval
<1>5. Min(start[c].tables) = lo
  <2>1. lo \in lo .. hi /\ \A y \in lo .. hi : lo <= y
    BY <1>1, <1>2
  <2>2. \A z \in lo .. hi : (\A y \in lo .. hi : z <= y) => z = lo
    BY <1>1, <1>2
  <2> QED BY <1>2, <2>1, <2>2 DEF Min
<1>6. PICK k \in 0 .. n - 1 : k = start[c].dealt % n
  BY <1>1, <1>3
<1> QED BY <1>1, <1>2, <1>3, <1>4, <1>5, <1>6 DEF NextTable

LEMMA AssignFloor ==
  ASSUME FloorInv, MoneyInv, NEW c \in Calls, AssignPlayerTable(c), faults' \in 0 .. MaxFaults
  PROVE  FloorInv'
<1>1. start[c].pc = "assign" /\ UNCHANGED <<status, made, known, floor>> /\ DirectorInv
  BY DEF AssignPlayerTable, event, MoneyInv
<1>2. made \in Nat /\ made' \in made .. MaxTables /\ Rows /\ Row(c)
  BY <1>1 DEF FloorInv, Counted, Rows
<1>3. PICK p \in start[c].todo :
        /\ at' = [at EXCEPT ![p] = NextTable(start[c])] \/ at' = at
        /\ start' = [start EXCEPT ![c].todo = @ \ {p}, ![c].dealt = @ + 1]
  BY DEF AssignPlayerTable
<1>4. Placed'
  <2>1. NextTable(start[c]) \in 0 .. made
    BY <1>1, <1>2, NextTableIsMade
  <2> QED BY <1>1, <1>3, <2>1 DEF FloorInv, Placed
<1>5. Counted' /\ Moving' /\ Capped'
  BY <1>1, <1>2, MoreTables
<1>6. Rows'
  <2>1. /\ start'[c].pc = start[c].pc /\ start'[c].tables = start[c].tables
        /\ start'[c].dealt = start[c].dealt + 1
        /\ \A d \in Calls \ {c} : start'[d] = start[d]
    <3> DEFINE mid == [start EXCEPT ![c].todo = @ \ {p}]
    <3>1. /\ mid \in [Calls -> StartStates] /\ \A d \in Calls \ {c} : mid[d] = start[d]
          /\ mid[c].pc = start[c].pc /\ mid[c].tables = start[c].tables /\ mid[c].dealt = start[c].dealt
      BY <1>1 DEF DirectorInv, StartStates
    <3>2. start' = [mid EXCEPT ![c].dealt = @ + 1]
      BY <1>3
    <3> HIDE DEF mid
    <3> QED BY <3>1, <3>2 DEF StartStates
  <2>2. Row(c)'
    BY <1>1, <1>2, <2>1 DEF Row
  <2>3. known' \in [Calls -> SUBSET Int] /\ \A d \in Calls : known'[d] = known[d]
    BY <1>1, <1>2 DEF Rows
  <2> QED BY <1>1, <1>2, <2>1, <2>2, <2>3, OneRow
<1> QED BY <1>1, <1>4, <1>5, <1>6 DEF FloorInv, Statuses

LEMMA StartFloor ==
  ASSUME FloorInv, DirectorInv, NEW c \in Calls, faults' \in 0 .. MaxFaults,
         ClaimForStart(c) \/ CreateDirector(c) \/ SetDirectorMatch(c) \/ ReleaseStartClaim(c)
  PROVE  FloorInv'
<1>1. UNCHANGED <<at, made, floor>> /\ made \in Nat /\ made' \in made .. MaxTables /\ Rows /\ Row(c)
  BY DEF ClaimForStart, CreateDirector, SetDirectorMatch, ReleaseStartClaim, entries, FloorInv, Counted, Rows
<1>2. Statuses'
  BY DEF ClaimForStart, CreateDirector, SetDirectorMatch, ReleaseStartClaim, FloorInv, Statuses, event
<1>3. Counted' /\ Moving' /\ Capped' /\ Placed'
  BY <1>1, MoreTables
<1>4. known' = known => known' \in [Calls -> SUBSET Int] /\ known'[c] \subseteq start[c].tables
                        /\ \A d \in Calls \ {c} : known'[d] = known[d]
  BY <1>1 DEF Rows, Row
<1>5. CASE CreateDirector(c) /\ known' = [known EXCEPT ![c] = start[c].tables] /\ ToStart(c, "install")
  <2>1. known' \in [Calls -> SUBSET Int] /\ known'[c] \subseteq start[c].tables
        /\ \A d \in Calls \ {c} : known'[d] = known[d]
    BY <1>1, <1>5 DEF Rows, Row
  <2> QED BY <1>1, <1>2, <1>3, <1>5, <2>1, KeepsItsRow DEF FloorInv
<1>6. CASE known' = known /\ SetDirectorMatch(c)
  <2>1. ToStart(c, "up")
    BY <1>6 DEF SetDirectorMatch
  <2> QED BY <1>1, <1>2, <1>3, <1>4, <1>6, <2>1, KeepsItsRow DEF FloorInv
<1>7. CASE known' = known /\ known[c] = {}
           /\ \E pc \in {"claimed", "release", "failed"} : ToStart(c, pc)
  BY <1>1, <1>2, <1>3, <1>4, <1>7, KeepsItsRow DEF FloorInv
<1>8. start[c].pc \notin {"install", "up"} => known[c] = {}
  BY <1>1 DEF Row
<1> QED BY <1>5, <1>6, <1>7, <1>8 DEF ClaimForStart, CreateDirector, SetDirectorMatch, ReleaseStartClaim

----------------------------------------------------------------------------
(* The floor. *)

LEMMA SomeCap ==
  ASSUME NEW t \in 1 .. made, FloorInv
  PROVE  t \in Tables /\ SeatCap \in Nat /\ made \in Nat /\ MaxTables \in Nat
<1>1. made \in 0 .. MaxTables /\ MaxTables \in Nat /\ SeatCap \in Nat
  BY Bounds DEF FloorInv, Counted
<1> QED BY <1>1 DEF Tables

(* One seat is taken below the cap, or given up. *)
LEMMA SeatChanges ==
  ASSUME FloorInv, MoneyInv, NEW t \in Tables, NEW p \in Players,
         \/ seats' = [seats EXCEPT ![t] = @ \ {p}]
         \/ Cardinality(seats[t]) < SeatCap /\ seats' = [seats EXCEPT ![t] = @ \cup {p}]
         \/ seats' = seats
  PROVE  Capped'
<1>1. seats \in [Tables -> SUBSET Entrants] /\ SeatCap \in Nat
  BY Bounds DEF MoneyInv, FloorTypes
<1>2. IsFiniteSet(seats[t])
  BY <1>1, FS_Subset, Identities DEF Entrants
<1>3. PICK n \in Nat : n = Cardinality(seats[t]) /\ n <= SeatCap
  BY <1>2, FS_CardinalityType DEF FloorInv, Capped
<1>4. CASE seats' = [seats EXCEPT ![t] = @ \ {p}]
  <2>1. Cardinality(seats[t] \ {p}) <= SeatCap
    <3>1. Cardinality(seats[t] \ {p}) = IF p \in seats[t] THEN n - 1 ELSE n
      BY <1>2, <1>3, FS_RemoveElement
    <3> QED BY <1>1, <1>3, <3>1
  <2> QED BY <1>1, <1>4, <2>1 DEF FloorInv, Capped
<1>5. CASE Cardinality(seats[t]) < SeatCap /\ seats' = [seats EXCEPT ![t] = @ \cup {p}]
  <2>1. Cardinality(seats[t] \cup {p}) <= SeatCap
    <3>1. Cardinality(seats[t] \cup {p}) = IF p \in seats[t] THEN n ELSE n + 1
      BY <1>2, <1>3, FS_AddElement
    <3> QED BY <1>1, <1>3, <1>5, <3>1
  <2> QED BY <1>1, <1>5, <2>1 DEF FloorInv, Capped
<1> QED BY <1>4, <1>5 DEF FloorInv, Capped

LEMMA SeatingFloor ==
  ASSUME FloorInv, MoneyInv, NEW t \in 1 .. made, NEW p \in Players, faults' \in 0 .. MaxFaults,
         SeatTransferIn(t, p) \/ HandOver(t, p) \/ SitDown(t, p) \/ StandUp(t, p)
  PROVE  FloorInv'
<1>1. UNCHANGED <<status, made, known, start>> /\ t \in Tables
  BY SomeCap DEF SeatTransferIn, HandOver, SitDown, StandUp, event
<1>2. Statuses' /\ Rows'
  BY <1>1 DEF FloorInv, Statuses, Rows, Row
<1>3. Capped'
  <2>1. \/ seats' = [seats EXCEPT ![t] = @ \ {p}]
        \/ Cardinality(seats[t]) < SeatCap /\ seats' = [seats EXCEPT ![t] = @ \cup {p}]
        \/ seats' = seats
    BY DEF SeatTransferIn, HandOver, SitDown, StandUp
  <2> QED BY <1>1, <2>1, SeatChanges
<1>4. Counted'
  <2>1. sits' = sits \/ sits' = [sits EXCEPT ![p] = @ + 1]
    BY DEF SeatTransferIn, HandOver, SitDown, StandUp
  <2> QED BY <1>1, <2>1 DEF FloorInv, Counted
<1>5. Placed'
  <2>1. at' = at \/ at' = [at EXCEPT ![p] = leaving[t][p]]
    BY DEF SeatTransferIn, HandOver, SitDown, StandUp, entries
  <2>2. leaving[t][p] \in 0 .. made
    BY <1>1 DEF FloorInv, Moving
  <2> QED BY <1>1, <2>1, <2>2 DEF FloorInv, Placed
<1>6. Moving'
  <2>1. leaving' = leaving \/ leaving' = [leaving EXCEPT ![t][p] = 0]
    BY DEF SeatTransferIn, HandOver, SitDown, StandUp
  <2>2. 0 \in 0 .. made /\ 0 # t
    BY SomeCap
  <2>3. CASE leaving' = [leaving EXCEPT ![t][p] = 0]
    <3> DEFINE row == [leaving[t] EXCEPT ![p] = 0]
    <3>1. row \in [Players -> 0 .. made] /\ \A q \in Players : row[q] # t
      BY <1>1, <2>2 DEF FloorInv, Moving
    <3>2. leaving' = [leaving EXCEPT ![t] = row]
      BY <2>3
    <3> HIDE DEF row
    <3> QED BY <1>1, <3>1, <3>2 DEF FloorInv, Moving
  <2> QED BY <1>1, <2>1, <2>3 DEF FloorInv, Moving
<1> QED BY <1>2, <1>3, <1>4, <1>5, <1>6 DEF FloorInv

(* The table that players are to move to is one the director knows, and    *)
(* not the one that they leave.                                            *)
LEMMA MergeTarget ==
  ASSUME NEW others \in SUBSET Nat, others # {}, IsFiniteSet(others),
         NEW count, \A t \in others : count[t] \in Nat
  PROVE  Min({t \in others : \A u \in others : count[t] <= count[u]}) \in others
<1> DEFINE counts == {count[t] : t \in others}
           least  == {t \in others : \A u \in others : count[t] <= count[u]}
<1>1. counts \in SUBSET Nat /\ \E z : z \in counts
  OBVIOUS
<1>2. PICK k \in counts : \A y \in counts : ~(y < k)
  <2> HIDE DEF counts
  <2> QED BY <1>1, LeastOf
<1>3. PICK t \in others : count[t] = k
  OBVIOUS
<1>4. t \in least
  <2>1. ASSUME NEW u \in others PROVE count[t] <= count[u]
    <3>1. count[u] \in counts /\ count[u] \in Nat /\ count[t] \in Nat
      OBVIOUS
    <3>2. ~(count[u] < count[t])
      BY <3>1, <1>2, <1>3
    <3> QED BY <3>1, <3>2
  <2> QED BY <2>1
<1>5. least \in SUBSET Nat
  OBVIOUS
<1>6. PICK m \in least : \A y \in least : ~(y < m)
  <2> HIDE DEF least
  <2> QED BY <1>4, <1>5, LeastOf
<1>7. Min(least) \in least
  <2> HIDE DEF least
  <2>1. \A y \in least : m <= y
    BY <1>5, <1>6
  <2> QED BY <2>1, <1>6 DEF Min
<1> QED BY <1>7

(* What Rebalance does when some table's players could not be counted. *)
RebalanceWith(c, uncounted) ==
  LET count == [t \in known[c] |-> IF t \in uncounted THEN 0 ELSE Cardinality(AtTable(t))]
      small == {t \in known[c] : count[t] <= BreakTableAtOrBelow}
      from  == Min(small)
      target == Min({t \in known[c] \ {from} :
                       \A u \in known[c] \ {from} : count[t] <= count[u]})
  IN /\ small # {}
     /\ \E asked : leaving' = [leaving EXCEPT ![from] =
                       [p \in Players |-> IF p \in asked THEN target ELSE @[p]]]

LEMMA RebalanceFloor ==
  ASSUME FloorInv, NEW c \in Calls, Rebalance(c), faults' \in 0 .. MaxFaults
  PROVE  FloorInv'
<1>0. PICK uncounted \in {{}} \cup {{t} : t \in known[c]} :
        RebalanceWith(c, uncounted)
  BY DEF Rebalance, RebalanceWith
<1> DEFINE count == [t \in known[c] |-> IF t \in uncounted THEN 0 ELSE Cardinality(AtTable(t))]
           small == {t \in known[c] : count[t] <= BreakTableAtOrBelow}
           from  == Min(small)
           others == known[c] \ {from}
           target == Min({t \in others : \A u \in others : count[t] <= count[u]})
<1>1. /\ UNCHANGED <<status, at, start, made, known, seats, sits>>
      /\ Cardinality(known[c]) >= 2 /\ small # {}
  BY <1>0 DEF Rebalance, RebalanceWith, event, entries
<1>2. made \in Nat /\ MaxTables \in Nat /\ made <= MaxTables /\ known[c] \subseteq 1 .. made
  BY Bounds DEF FloorInv, Counted, Rows, Row
<1>3. IsFiniteSet(known[c])
  <2>1. IsFiniteSet(1 .. made)
    BY <1>2, FS_Interval
  <2> QED BY <1>2, <2>1, FS_Subset
<1>4. from \in known[c]
  <2>1. small \in SUBSET Nat /\ small \subseteq known[c]
    BY <1>2
  <2> HIDE DEF small
  <2>2. PICK m \in small : \A y \in small : ~(y < m)
    BY <1>1, <2>1, LeastOf
  <2>3. \A y \in small : m <= y
    BY <2>1, <2>2
  <2>4. Min(small) \in small
    BY <2>2, <2>3 DEF Min
  <2> QED BY <2>1, <2>4
<1> HIDE DEF from, small
<1>5. others # {} /\ IsFiniteSet(others) /\ others \in SUBSET Nat
  <2>1. IsFiniteSet(others) /\ Cardinality(others) = Cardinality(known[c]) - 1
    BY <1>3, <1>4, FS_RemoveElement
  <2>2. Cardinality(known[c]) \in Nat
    BY <1>3, FS_CardinalityType
  <2>3. Cardinality(others) # 0
    BY <1>1, <2>1, <2>2
  <2>4. others # {}
    BY <2>3, FS_EmptySet
  <2> QED BY <1>2, <2>1, <2>4
<1>6. \A t \in others : count[t] \in Nat
  <2>1. \A t : Cardinality(AtTable(t)) \in Nat
    BY FS_Subset, FS_CardinalityType, Identities DEF AtTable, Playing
  <2> QED BY <2>1
<1>7. target \in others
  <2> HIDE DEF count, others
  <2> QED BY <1>5, <1>6, MergeTarget
<1>8. target \in 0 .. made /\ target # from /\ from \in Tables
  BY <1>2, <1>4, <1>7 DEF Tables
<1>9. PICK asked : leaving' = [leaving EXCEPT ![from] =
                       [p \in Players |-> IF p \in asked THEN target ELSE @[p]]]
  BY <1>0 DEF RebalanceWith, from, small
<1> HIDE DEF target
<1>10. Moving'
  <2> DEFINE row == [p \in Players |-> IF p \in asked THEN target ELSE leaving[from][p]]
  <2>1. row \in [Players -> 0 .. made] /\ \A q \in Players : row[q] # from
    BY <1>8 DEF FloorInv, Moving
  <2>2. leaving' = [leaving EXCEPT ![from] = row]
    BY <1>9
  <2> HIDE DEF row
  <2> QED BY <1>1, <1>8, <2>1, <2>2 DEF FloorInv, Moving
<1> QED BY <1>1, <1>10 DEF FloorInv, Statuses, Rows, Row, Counted, Placed, Capped

----------------------------------------------------------------------------
LEMMA FloorStep == MoneyInv /\ FloorInv /\ [Next]_vars => FloorInv'
<1> SUFFICES ASSUME MoneyInv, FloorInv, [Next]_vars PROVE FloorInv'
  OBVIOUS
<1>1. faults' \in 0 .. MaxFaults /\ DirectorInv
  BY FaultsInBounds DEF FloorInv, Counted, MoneyInv
<1>2. ASSUME NEW r \in Requests, DebitBuyIn(r) \/ Register(r) \/ RefundBuyIn(r) PROVE FloorInv'
  <2>1. UNCHANGED <<at, floor, start, made, known, status>>
    BY <1>2 DEF DebitBuyIn, Register, RefundBuyIn, entries, event
  <2> QED BY <1>1, <2>1, FloorKept, KnownKept DEF FloorInv, Statuses
<1>3. ASSUME NEW c \in Calls, NobodyHasWon(c) PROVE FloorInv'
  <2>1. UNCHANGED <<at, floor, start, made, status>> /\ PruneEmptyTables(c)
    BY <1>3 DEF NobodyHasWon, entries, event
  <2> QED BY <1>1, <2>1, FloorKept, Pruned DEF FloorInv, Statuses
<1>4. ASSUME NEW x \in Payers, LookWhoPlays(x) \/ FinishOnce(x) \/ SetFinishPlace(x) \/ PayWinner(x)
      PROVE  FloorInv'
  <2>1. UNCHANGED <<at, floor, start, made>>
    BY <1>4 DEF LookWhoPlays, FinishOnce, SetFinishPlace, PayWinner, entries
  <2>2. Statuses'
    BY <1>4 DEF LookWhoPlays, FinishOnce, SetFinishPlace, PayWinner, event, FloorInv, Statuses
  <2>3. known' = known \/ Leave(x) \/ \E due : StillDue(x, due)
    BY <1>4 DEF LookWhoPlays, FinishOnce, SetFinishPlace, PayWinner
  <2>4. known' \in [Calls -> SUBSET Int] /\ \A c \in Calls : known'[c] \subseteq known[c]
    BY <2>3, KnownKept, LeavesTables, StillDueTables
  <2> QED BY <1>1, <2>1, <2>2, <2>4, FloorKept
<1>5. CASE UNCHANGED vars
  <2>1. UNCHANGED <<at, floor, start, made, known, status>>
    BY <1>5 DEF vars, entries, event
  <2> QED BY <1>1, <2>1, FloorKept, KnownKept DEF FloorInv, Statuses
<1> QED
  BY <1>1, <1>2, <1>3, <1>4, <1>5, CreateTablesFloor, AssignFloor, StartFloor, SeatingFloor,
     RebalanceFloor DEF Next

LEMMA InvStep == MoneyInv /\ FloorInv /\ [Next]_vars => MoneyInv' /\ FloorInv'
BY MoneyStep, FloorStep

(* Nobody who has not entered is seated, moved or given a table; no table  *)
(* seats more than its cap; and players are at, and go to, tables that     *)
(* there are (SeatTransferIn, CreateTables, AssignPlayerTable, Rebalance,  *)
(* HandOver).                                                              *)
THEOREM TournamentTypes == Spec => []TypeOK
<1>1. MoneyInv /\ FloorInv => TypeOK
  <2> SUFFICES ASSUME MoneyInv, FloorInv PROVE TypeOK
    OBVIOUS
  <2>1. /\ status \in {"registering", "starting", "running", "finished"}
        /\ director \in Calls \cup {None}
    BY DEF MoneyInv, DirectorInv, FloorInv, Statuses
  <2>2. /\ reg \in [Players -> {"none", "registered", "playing"}]
        /\ at \in [Players -> 0 .. made] /\ place \in [Players -> {0, 1}]
        /\ wallet \in [Players -> Nat]
        /\ request \in [Requests -> {"new", "charged", "refund", "done"}]
    BY DEF MoneyInv, RegTypes, PurseTypes, RequestTypes, PayerTypes, FloorInv, Placed
  <2>3. ASSUME NEW c \in Calls
        PROVE  /\ start[c].pc \in {"new", "claimed", "assign", "install", "release", "up", "failed"}
               /\ start[c].todo \subseteq Entrants /\ start[c].tables \subseteq 1 .. made
               /\ known[c] \subseteq start[c].tables
    <3>1. start[c] \in StartStates /\ Row(c) /\ start[c].todo \subseteq Entrants
      BY DEF MoneyInv, DirectorInv, TodoTypes, FloorInv, Rows
    <3> QED BY <3>1 DEF StartStates, Row
  <2>4. made \in 0 .. MaxTables /\ faults \in 0 .. MaxFaults
    BY DEF FloorInv, Counted
  <2>5. \A x \in Payers : payer[x].pc \in {"idle", "claim", "crown", "pay", "done"}
    BY DEF MoneyInv, PayerTypes, PayerStates
  <2>6. \A t \in Tables :
          /\ seats[t] \cup arriving[t] \subseteq Entrants /\ Cardinality(seats[t]) <= SeatCap
          /\ \A p \in Players : leaving[t][p] \in 0 .. made
    BY DEF MoneyInv, FloorTypes, FloorInv, Capped, Moving
  <2> QED BY <2>1, <2>2, <2>3, <2>4, <2>5, <2>6 DEF TypeOK
<1> QED BY <1>1, MoneyInit, FloorInit, InvStep, PTL DEF Spec

----------------------------------------------------------------------------
(* The stacks. *)

SeatedAt(p) == {t \in Tables : p \in seats[t]}
ComingTo(p) == {t \in Tables : p \in arriving[t]}

LEMMA StacksAre ==
  ASSUME FloorInv, NEW p \in Players
  PROVE  /\ IsFiniteSet(SeatedAt(p)) /\ Cardinality(SeatedAt(p)) \in Nat
         /\ IsFiniteSet(ComingTo(p)) /\ Cardinality(ComingTo(p)) \in Nat
         /\ Stacks(p) = Cardinality(SeatedAt(p)) + Cardinality(ComingTo(p))
<1>1. IsFiniteSet(Tables)
  <2>1. 1 \in Int /\ MaxTables \in Int
    BY Bounds
  <2> QED BY <2>1, FS_Interval DEF Tables
<1>2. SeatedAt(p) \in SUBSET Tables /\ ComingTo(p) \in SUBSET Tables
  BY DEF SeatedAt, ComingTo
<1> QED BY <1>1, <1>2, FS_Subset, FS_CardinalityType DEF Stacks, SeatedAt, ComingTo

(* Players taken off a table, or put on one, each apart from the others. *)
LEMMA TakenOff ==
  ASSUME NEW f \in [Tables -> SUBSET Players], NEW t \in Tables, NEW p, NEW g,
         g = [f EXCEPT ![t] = @ \ {p}]
  PROVE  /\ {u \in Tables : p \in g[u]} = {u \in Tables : p \in f[u]} \ {t}
         /\ \A q : q # p => {u \in Tables : q \in g[u]} = {u \in Tables : q \in f[u]}
OBVIOUS

LEMMA PutOn ==
  ASSUME NEW f \in [Tables -> SUBSET Players], NEW t \in Tables, NEW p, NEW g,
         g = [f EXCEPT ![t] = @ \cup {p}]
  PROVE  /\ {u \in Tables : p \in g[u]} = {u \in Tables : p \in f[u]} \cup {t}
         /\ \A q : q # p => {u \in Tables : q \in g[u]} = {u \in Tables : q \in f[u]}
OBVIOUS

LEMMA SetLoses ==
  ASSUME NEW S, IsFiniteSet(S), NEW t
  PROVE  /\ Cardinality(S) \in Nat /\ Cardinality(S \ {t}) \in Nat
         /\ Cardinality(S \ {t}) <= Cardinality(S)
         /\ t \in S => Cardinality(S) >= 1 /\ Cardinality(S \ {t}) = Cardinality(S) - 1
<1>1. Cardinality(S) \in Nat /\ IsFiniteSet(S \ {t}) /\ Cardinality(S \ {t}) \in Nat
  BY FS_CardinalityType, FS_RemoveElement
<1>2. Cardinality(S \ {t}) = IF t \in S THEN Cardinality(S) - 1 ELSE Cardinality(S)
  BY FS_RemoveElement
<1> QED BY <1>1, <1>2

LEMMA SetGains ==
  ASSUME NEW S, IsFiniteSet(S), NEW t
  PROVE  /\ Cardinality(S \cup {t}) \in Nat /\ Cardinality(S \cup {t}) >= Cardinality(S)
         /\ \/ Cardinality(S \cup {t}) = Cardinality(S) /\ Cardinality(S) >= 1
            \/ Cardinality(S \cup {t}) = Cardinality(S) + 1
<1>1. Cardinality(S \cup {t}) = IF t \in S THEN Cardinality(S) ELSE Cardinality(S) + 1
  BY FS_AddElement
<1>2. Cardinality(S) \in Nat /\ (t \in S => Cardinality(S) >= 1)
  BY SetLoses
<1> QED BY <1>1, <1>2

MovedWhole(p) ==
  /\ Stacks(p)' > Stacks(p) => faults' > faults \/ sits'[p] > sits[p]
  /\ Stacks(p)' < Stacks(p) =>
       \/ Stacks(p) > 1
       \/ \E t \in Tables : StandUp(t, p) \/ (p \in arriving[t] /\ KeptForNobody(t))

(* A player none of whose tables change. *)
LEMMA NotMoved ==
  ASSUME FloorInv, FloorInv', NEW p \in Players,
         SeatedAt(p)' = SeatedAt(p), ComingTo(p)' = ComingTo(p)
  PROVE  MovedWhole(p)
<1>1. Stacks(p)' = Cardinality(SeatedAt(p)') + Cardinality(ComingTo(p)')
  BY DEF Stacks, SeatedAt, ComingTo
<1>2. Stacks(p)' = Stacks(p) /\ Stacks(p) \in Nat
  BY <1>1, StacksAre
<1> QED BY <1>2 DEF MovedWhole

LEMMA SeatsOfPlayers ==
  MoneyInv => seats \in [Tables -> SUBSET Players] /\ arriving \in [Tables -> SUBSET Players]
BY DEF MoneyInv, FloorTypes, Entrants

LEMMA SeatTransferInWhole ==
  ASSUME MoneyInv, FloorInv, FloorInv', NEW t \in Tables, NEW q \in Players, SeatTransferIn(t, q),
         NEW p \in Players
  PROVE  MovedWhole(p)
<1>1. q \in arriving[t] /\ arriving' = [arriving EXCEPT ![t] = @ \ {q}]
  BY DEF SeatTransferIn
<1>2. /\ ComingTo(q)' = ComingTo(q) \ {t} /\ t \in ComingTo(q)
      /\ (p # q => ComingTo(p)' = ComingTo(p))
  BY <1>1, SeatsOfPlayers, TakenOff DEF ComingTo
<1>3. Cardinality(ComingTo(q)') = Cardinality(ComingTo(q)) - 1 /\ Cardinality(ComingTo(q)) >= 1
  BY <1>2, StacksAre, SetLoses
<1>4. CASE p # q
  <2>1. SeatedAt(p)' = SeatedAt(p)
    BY <1>4, SeatsOfPlayers, PutOn DEF SeatTransferIn, SeatedAt
  <2> QED BY <1>2, <1>4, <2>1, NotMoved
<1>5. CASE p = q /\ Cardinality(seats[t]) < SeatCap
  <2>1. seats' = [seats EXCEPT ![t] = @ \cup {q}]
    BY <1>5 DEF SeatTransferIn
  <2>2. SeatedAt(q)' = SeatedAt(q) \cup {t}
    BY <2>1, SeatsOfPlayers, PutOn DEF SeatedAt
  <2>3. \/ Cardinality(SeatedAt(q)') = Cardinality(SeatedAt(q)) /\ Cardinality(SeatedAt(q)) >= 1
        \/ Cardinality(SeatedAt(q)') = Cardinality(SeatedAt(q)) + 1
    BY <2>2, StacksAre, SetGains
  <2>4. Stacks(q)' = Cardinality(SeatedAt(q)') + Cardinality(ComingTo(q)')
    BY DEF Stacks, SeatedAt, ComingTo
  <2>5. Stacks(q)' = Stacks(q) \/ (Stacks(q)' = Stacks(q) - 1 /\ Stacks(q) > 1)
    BY <1>3, <2>3, <2>4, StacksAre
  <2> QED BY <1>5, <2>5, StacksAre DEF MovedWhole
<1>6. CASE p = q /\ ~(Cardinality(seats[t]) < SeatCap)
  <2>1. SeatedAt(q)' = SeatedAt(q)
    BY <1>6 DEF SeatTransferIn, SeatedAt
  <2>2. Stacks(q)' = Cardinality(SeatedAt(q)') + Cardinality(ComingTo(q)')
    BY DEF Stacks, SeatedAt, ComingTo
  <2>3. ~(Stacks(q)' > Stacks(q))
    BY <1>3, <2>1, <2>2, StacksAre
  <2>4. Cardinality(seats[t]) >= SeatCap
    <3>1. Cardinality(seats[t]) \in Nat
      BY SeatsOfPlayers, FS_Subset, FS_CardinalityType, Identities
    <3> QED BY <1>6, <3>1, Bounds
  <2> QED BY <1>1, <1>6, <2>3, <2>4 DEF MovedWhole, KeptForNobody
<1> QED BY <1>4, <1>5, <1>6

LEMMA SitDownWhole ==
  ASSUME MoneyInv, FloorInv, FloorInv', NEW t \in Tables, NEW q \in Players, SitDown(t, q),
         NEW p \in Players
  PROVE  MovedWhole(p)
<1>1. /\ seats' = [seats EXCEPT ![t] = @ \cup {q}] /\ arriving' = arriving
      /\ sits' = [sits EXCEPT ![q] = @ + 1]
  BY DEF SitDown
<1>2. ComingTo(p)' = ComingTo(p) /\ SeatedAt(q)' = SeatedAt(q) \cup {t}
  BY <1>1, SeatsOfPlayers, PutOn DEF ComingTo, SeatedAt
<1>3. CASE p # q
  <2>1. SeatedAt(p)' = SeatedAt(p)
    BY <1>1, <1>3, SeatsOfPlayers, PutOn DEF SeatedAt
  <2> QED BY <1>2, <2>1, NotMoved
<1>4. CASE p = q
  <2>1. Cardinality(SeatedAt(q)') >= Cardinality(SeatedAt(q))
    BY <1>2, StacksAre, SetGains
  <2>2. Stacks(q)' = Cardinality(SeatedAt(q)') + Cardinality(ComingTo(q)')
    BY DEF Stacks, SeatedAt, ComingTo
  <2>3. ~(Stacks(q)' < Stacks(q))
    <3>1. Cardinality(SeatedAt(q)') \in Nat
      BY <1>2, StacksAre, SetGains
    <3> QED BY <1>2, <1>4, <2>1, <2>2, <3>1, StacksAre
  <2>4. sits'[q] > sits[q]
    BY <1>1 DEF FloorInv, Counted
  <2> QED BY <1>4, <2>3, <2>4 DEF MovedWhole
<1> QED BY <1>3, <1>4

LEMMA StandUpWhole ==
  ASSUME MoneyInv, FloorInv, FloorInv', NEW t \in Tables, NEW q \in Players, StandUp(t, q),
         NEW p \in Players
  PROVE  MovedWhole(p)
<1>1. seats' = [seats EXCEPT ![t] = @ \ {q}] /\ arriving' = arriving
  BY DEF StandUp
<1>2. ComingTo(p)' = ComingTo(p) /\ SeatedAt(q)' = SeatedAt(q) \ {t}
  BY <1>1, SeatsOfPlayers, TakenOff DEF ComingTo, SeatedAt
<1>3. CASE p # q
  <2>1. SeatedAt(p)' = SeatedAt(p)
    BY <1>1, <1>3, SeatsOfPlayers, TakenOff DEF SeatedAt
  <2> QED BY <1>2, <2>1, NotMoved
<1>4. CASE p = q
  <2>1. Cardinality(SeatedAt(q)') <= Cardinality(SeatedAt(q)) /\ Cardinality(SeatedAt(q)') \in Nat
    BY <1>2, StacksAre, SetLoses
  <2>2. Stacks(q)' = Cardinality(SeatedAt(q)') + Cardinality(ComingTo(q)')
    BY DEF Stacks, SeatedAt, ComingTo
  <2>3. ~(Stacks(q)' > Stacks(q))
    BY <1>2, <1>4, <2>1, <2>2, StacksAre
  <2> QED BY <1>4, <2>3 DEF MovedWhole
<1> QED BY <1>3, <1>4

(* The stack of a player who is handed over is at one of the two tables;   *)
(* it is at both when the other accepted and the answer was lost.          *)
LEMMA HandOverWhole ==
  ASSUME MoneyInv, FloorInv, FloorInv', NEW t \in Tables, NEW q \in Players, HandOver(t, q),
         NEW p \in Players
  PROVE  MovedWhole(p)
<1> DEFINE d == leaving[t][q]
<1>1. d # 0 /\ d # t
  BY DEF HandOver, FloorInv, Moving
<1>2. d \in Tables
  <2>1. d \in 0 .. made /\ made \in 0 .. MaxTables /\ MaxTables \in Nat
    BY Bounds DEF FloorInv, Moving, Counted
  <2> HIDE DEF d
  <2> QED BY <1>1, <2>1 DEF Tables
<1>3. seats \in [Tables -> SUBSET Players] /\ arriving \in [Tables -> SUBSET Players]
  BY SeatsOfPlayers
<1>4. PICK queued : queued = QueuedAt(d, q)
  OBVIOUS
<1>5. \/ queued = arriving /\ (q \in seats[d] \/ ~Accepts(d, q))
      \/ queued = [arriving EXCEPT ![d] = @ \cup {q}]
  BY <1>2, <1>3, <1>4 DEF QueuedAt
<1> HIDE DEF d
<1>6. /\ \A r : r # q => {u \in Tables : r \in queued[u]} = ComingTo(r)
      /\ \/ {u \in Tables : q \in queued[u]} = ComingTo(q) /\ (q \in seats[d] \/ ~Accepts(d, q))
         \/ {u \in Tables : q \in queued[u]} = ComingTo(q) \cup {d}
  <2>1. CASE queued = arriving /\ (q \in seats[d] \/ ~Accepts(d, q))
    BY <2>1 DEF ComingTo
  <2>2. CASE queued = [arriving EXCEPT ![d] = @ \cup {q}]
    BY <1>2, <1>3, <2>2, PutOn DEF ComingTo
  <2> QED BY <1>5, <2>1, <2>2
<1>7. Stacks(p)' = Cardinality(SeatedAt(p)') + Cardinality(ComingTo(p)')
  BY DEF Stacks, SeatedAt, ComingTo
<1>8. CASE UNCHANGED <<seats, arriving>>
  <2>1. SeatedAt(p)' = SeatedAt(p) /\ ComingTo(p)' = ComingTo(p)
    BY <1>8 DEF SeatedAt, ComingTo
  <2> QED BY <2>1, NotMoved
<1>9. CASE q \in seats[t] /\ Accepts(d, q) /\ arriving' = queued /\ seats' = [seats EXCEPT ![t] = @ \ {q}]
  <2>1. /\ SeatedAt(q)' = SeatedAt(q) \ {t} /\ t \in SeatedAt(q)
        /\ (p # q => SeatedAt(p)' = SeatedAt(p))
    BY <1>3, <1>9, TakenOff DEF SeatedAt
  <2>2. \/ ComingTo(q)' = ComingTo(q) /\ q \in seats[d]
        \/ ComingTo(q)' = ComingTo(q) \cup {d}
    BY <1>6, <1>9 DEF ComingTo
  <2>3. CASE p # q
    <3>1. ComingTo(p)' = ComingTo(p)
      BY <1>6, <1>9, <2>3 DEF ComingTo
    <3> QED BY <2>1, <2>3, <3>1, NotMoved
  <2>4. CASE p = q
    <3> DEFINE s == Cardinality(SeatedAt(q)) c == Cardinality(ComingTo(q))
    <3>1. s \in Nat /\ c \in Nat /\ Stacks(q) = s + c
      BY StacksAre
    <3>2. Cardinality(SeatedAt(q)') = s - 1 /\ s >= 1
      BY <2>1, StacksAre, SetLoses
    <3>3. CASE ComingTo(q)' = ComingTo(q) /\ q \in seats[d]
      <4>1. d \in SeatedAt(q) \ {t}
        BY <1>1, <1>2, <3>3 DEF SeatedAt
      <4>2. Cardinality(SeatedAt(q) \ {t}) >= 1
        <5>1. IsFiniteSet(SeatedAt(q) \ {t})
          BY StacksAre, FS_RemoveElement
        <5> QED BY <4>1, <5>1, SetLoses
      <4>3. s > 1
        BY <2>1, <3>1, <3>2, <4>2
      <4>4. Stacks(q) > 1 /\ ~(Stacks(q)' > Stacks(q))
        BY <1>7, <2>4, <3>1, <3>2, <3>3, <4>3
      <4> QED BY <2>4, <4>4 DEF MovedWhole
    <3>4. CASE ComingTo(q)' = ComingTo(q) \cup {d}
      <4>1. \/ Cardinality(ComingTo(q)') = c /\ c >= 1
            \/ Cardinality(ComingTo(q)') = c + 1
        BY <3>4, StacksAre, SetGains
      <4>2. Stacks(q)' = Stacks(q) \/ (Stacks(q)' = Stacks(q) - 1 /\ Stacks(q) > 1)
        BY <1>7, <2>4, <3>1, <3>2, <4>1
      <4> QED BY <2>4, <3>1, <4>2 DEF MovedWhole
    <3> QED BY <2>2, <3>3, <3>4
  <2> QED BY <2>3, <2>4
<1>10. CASE seats' = seats /\ Fault /\ arriving' = queued
  <2>1. SeatedAt(p)' = SeatedAt(p) /\ faults' > faults
    BY <1>10 DEF SeatedAt, Fault, FloorInv, Counted
  <2>2. ComingTo(p)' = ComingTo(p) \/ ComingTo(p)' = ComingTo(p) \cup {d}
    BY <1>6, <1>10 DEF ComingTo
  <2>3. Cardinality(ComingTo(p)') >= Cardinality(ComingTo(p)) /\ Cardinality(ComingTo(p)') \in Nat
    <3>1. CASE ComingTo(p)' = ComingTo(p)
      BY <3>1, StacksAre
    <3>2. CASE ComingTo(p)' = ComingTo(p) \cup {d}
      BY <3>2, StacksAre, SetGains
    <3> QED BY <2>2, <3>1, <3>2
  <2>4. ~(Stacks(p)' < Stacks(p))
    BY <1>7, <2>1, <2>3, StacksAre
  <2> QED BY <2>1, <2>4 DEF MovedWhole
<1> QED BY <1>4, <1>8, <1>9, <1>10 DEF HandOver, d

LEMMA MovedWholeStep ==
  MoneyInv /\ FloorInv /\ FloorInv' /\ [Next]_vars =>
    UNCHANGED <<seats, arriving>> \/ \A p \in Players : MovedWhole(p)
<1> SUFFICES ASSUME MoneyInv, FloorInv, FloorInv', [Next]_vars
             PROVE  UNCHANGED <<seats, arriving>> \/ \A p \in Players : MovedWhole(p)
  OBVIOUS
<1>1. ASSUME NEW t \in 1 .. made, NEW q \in Players,
             SeatTransferIn(t, q) \/ HandOver(t, q) \/ SitDown(t, q) \/ StandUp(t, q),
             NEW p \in Players
      PROVE  MovedWhole(p)
  BY <1>1, SomeCap, SeatTransferInWhole, HandOverWhole, SitDownWhole, StandUpWhole
<1>2. ASSUME NEW r \in Requests, DebitBuyIn(r) \/ Register(r) \/ RefundBuyIn(r)
      PROVE  UNCHANGED <<seats, arriving>>
  BY <1>2 DEF DebitBuyIn, Register, RefundBuyIn, floor
<1>3. ASSUME NEW c \in Calls,
             \/ ClaimForStart(c) \/ CreateTables(c) \/ AssignPlayerTable(c) \/ CreateDirector(c)
             \/ SetDirectorMatch(c) \/ ReleaseStartClaim(c) \/ NobodyHasWon(c) \/ Rebalance(c)
      PROVE  UNCHANGED <<seats, arriving>>
  BY <1>3 DEF ClaimForStart, CreateTables, AssignPlayerTable, CreateDirector, SetDirectorMatch,
              ReleaseStartClaim, NobodyHasWon, Rebalance, floor
<1>4. ASSUME NEW x \in Payers, LookWhoPlays(x) \/ FinishOnce(x) \/ SetFinishPlace(x) \/ PayWinner(x)
      PROVE  UNCHANGED <<seats, arriving>>
  BY <1>4 DEF LookWhoPlays, FinishOnce, SetFinishPlace, PayWinner, floor
<1>5. CASE UNCHANGED vars
  BY <1>5 DEF vars, floor
<1> QED BY <1>1, <1>2, <1>3, <1>4, <1>5 DEF Next

(* Moving a player between tables neither loses nor doubles his stack: he  *)
(* has more only when he sits down himself or an answer is lost, less only *)
(* when he stands up, had two, or finds the seat kept for him taken        *)
(* (processPendingSeatTransfers, tournament_seat_in, SeatTransferIn).      *)
THEOREM StacksMoveWhole == Spec => StacksAreMovedWhole
<1>1. MoneyInv /\ FloorInv /\ MoneyInv' /\ FloorInv' /\ [Next]_vars =>
        [\A p \in Players :
           /\ Stacks(p)' > Stacks(p) => faults' > faults \/ sits'[p] > sits[p]
           /\ Stacks(p)' < Stacks(p) =>
                \/ Stacks(p) > 1
                \/ \E t \in Tables : StandUp(t, p) \/ (p \in arriving[t] /\ KeptForNobody(t))
          ]_<<seats, arriving>>
  BY MovedWholeStep DEF MovedWhole
<1> QED BY <1>1, MoneyInit, FloorInit, InvStep, PTL DEF Spec, StacksAreMovedWhole
================================================================================
