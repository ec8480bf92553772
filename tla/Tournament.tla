------------------------------ MODULE Tournament ------------------------------
(***************************************************************************)
(* A tournament from registration to the prizes: entries bought over the   *)
(* RPC layer, the claims that let one caller start it and one pay it out,  *)
(* the director match and its list of tables, and the seats that the       *)
(* director has moved from table to table.  Every step of an RPC, of the   *)
(* director or of a table that touches the database or another match is a  *)
(* step here, and any of them may be the last its process takes.           *)
(*                                                                         *)
(* No hand is played: a tournament table does not deal by itself           *)
(* (handler.go:592) and refuses to be told to outside the betting phase    *)
(* (handler.go:919), so stacks are whole and nobody is eliminated.         *)
(***************************************************************************)
EXTENDS Integers, Sequences, FiniteSets, FiniteSetsExt

CONSTANTS
  Players,
  Early,                   \* the entrants there are when we begin to look
  Requests,                \* registration requests: who, and a number
  Calls, Finalizers,       \* requests to start, requests to finalize
  BuyIn, PerEntryRake, Guarantee, Funds,   \* money; Funds of each player
  None,                    \* no director
  Ladder,                  \* prize tiers: sequence of [from, to, bps]
  SeatCap, MaxSeats,       \* seats of a table: configured, physical
  MaxSeatDifference, BreakTableAtOrBelow,  \* the balancing rule
  SitsWhile,                               \* bound: statuses in which players take seats
  MaxTables, MaxSits, MaxFaults            \* bounds: tables, seats a player takes, things that fail

Tables == 1 .. MaxTables

ASSUME TournamentAssumption ==
  /\ Early \subseteq Players /\ Requests \subseteq Players \X Nat
  /\ IsFiniteSet(Players) /\ IsFiniteSet(Requests)
  /\ Calls \cap Finalizers = {} /\ None \notin Calls
  /\ {BuyIn, PerEntryRake, Guarantee, Funds} \subseteq Nat /\ PerEntryRake <= BuyIn /\ BuyIn <= Funds
  /\ SeatCap \in 2 .. MaxSeats /\ MaxSeats \in Nat
  /\ {MaxSeatDifference, BreakTableAtOrBelow, MaxTables, MaxSits, MaxFaults} \subseteq Nat

(* As TournamentStart checks it. *)
ASSUME LadderAssumption == Ladder \in Seq([from : Nat \ {0}, to : Nat, bps : {b \in Nat : b <= 10000}])

VARIABLES
  status, director,        \* poker_tournament: status, director_match_id (or None)
  reg, at, place,          \* poker_tournament_registration: status, match_id, finish_place
  wallet,                  \* players' wallets
  request,                 \* where each registration request has got to
  start,                   \* the same for each StartTournament
  made,                    \* table matches created
  known,                   \* TableMatches of the director each call has created, numbered as made
  payer,                   \* where each director and each TournamentFinalize is with the prizes
  seats,                   \* players seated at a table
  arriving, leaving,       \* PendingSeatIn, PendingSeatOut
  sits, faults,            \* counts
  refused, prizes          \* history: refunds that failed, prizes credited
event   == <<status, director>>
entries == <<reg, at, place>>
money   == <<wallet, refused, prizes>>
floor   == <<seats, arriving, leaving, sits>>
vars == <<event, entries, money, request, start, made, known, payer, floor, faults>>

Payers == Calls \cup Finalizers
Entrants == {p \in Players : reg[p] # "none"}
Playing  == {p \in Players : reg[p] = "playing"}
AtTable(t) == {p \in Playing : at[p] = t}
Up == {c \in Calls : start[c].pc \in {"install", "up"}}      \* directors that have been created

Fault == faults < MaxFaults /\ faults' = faults + 1
Fine  == UNCHANGED faults

Idle == [pc |-> "idle", playing |-> 0, due |-> {}]

Init ==
  /\ status = "registering" /\ director = None
  /\ reg = [p \in Players |-> IF p \in Early THEN "registered" ELSE "none"] /\ at = [p \in Players |-> 0]
  /\ place = [p \in Players |-> 0]
  /\ wallet = [p \in Players |-> IF p \in Early THEN Funds - BuyIn ELSE Funds]
  /\ request = [r \in Requests |-> "new"]
  /\ start = [c \in Calls |-> [pc |-> "new", tables |-> {}, todo |-> {}, dealt |-> 0]]
  /\ made = 0 /\ known = [c \in Calls |-> {}]
  /\ payer = [x \in Payers |-> Idle]
  /\ seats = [t \in Tables |-> {}] /\ arriving = [t \in Tables |-> {}]
  /\ leaving = [t \in Tables |-> [p \in Players |-> 0]]
  /\ sits = [p \in Players |-> 0] /\ faults = 0
  /\ refused = [p \in Players |-> 0] /\ prizes = [p \in Players |-> 0]

----------------------------------------------------------------------------
(* TournamentRegister: take the buy-in, enter the player, and give the     *)
(* money back if that was refused.                                         *)

Goes(r, pc) == request' = [request EXCEPT ![r] = pc]

(* The buy-in of an open tournament; late registration may still be open. *)
DebitBuyIn(r) ==
  /\ request[r] = "new" /\ status # "finished"
  /\ LET p == r[1] IN
     IF wallet[p] >= BuyIn
     THEN /\ wallet' = [wallet EXCEPT ![p] = @ - BuyIn]
          /\ Goes(r, "charged")
     ELSE Goes(r, "done") /\ UNCHANGED wallet
  /\ UNCHANGED <<event, entries, refused, prizes, start, made, known, payer, floor, faults>>

(* Mutant: a second entry of the same player is not refused. *)
RegisterAgain(r) ==
  /\ request[r] = "charged"
  /\ \/ Fine /\ Goes(r, "done") /\ reg' = [reg EXCEPT ![r[1]] = "registered"]
     \/ Fault /\ Goes(r, "refund") /\ UNCHANGED reg
  /\ UNCHANGED <<event, at, place, money, start, made, known, payer, floor>>

Register(r) ==
  /\ request[r] = "charged"
  /\ LET p == r[1] IN
     \/ /\ reg[p] = "none" /\ Fine
        /\ reg' = [reg EXCEPT ![p] = "registered"]
        /\ Goes(r, "done")
     \/ reg[p] # "none" /\ Fine /\ Goes(r, "refund") /\ UNCHANGED reg
     \/ Fault /\ Goes(r, "refund") /\ UNCHANGED reg
  /\ UNCHANGED <<event, at, place, money, start, made, known, payer, floor>>

RefundBuyIn(r) ==
  /\ request[r] = "refund"
  /\ LET p == r[1] IN
     \/ wallet' = [wallet EXCEPT ![p] = @ + BuyIn] /\ Fine /\ UNCHANGED refused
     \/ Fault /\ refused' = [refused EXCEPT ![p] = @ + 1] /\ UNCHANGED wallet
  /\ Goes(r, "done")
  /\ UNCHANGED <<event, entries, prizes, start, made, known, payer, floor>>

----------------------------------------------------------------------------
(* StartTournament. *)

ToStart(c, pc) == start' = [start EXCEPT ![c].pc = pc]

(* Mutant: a tournament is started whatever its status. *)
StartAnyway(c) ==
  /\ start[c].pc = "new"
  /\ status' = "starting" /\ ToStart(c, "claimed")
  /\ UNCHANGED <<director, entries, money, request, made, known, payer, floor, faults>>

(* A claim that is refused leaves everything as it was. *)
ClaimForStart(c) ==
  /\ start[c].pc = "new" /\ status = "registering"
  /\ status' = "starting" /\ ToStart(c, "claimed")
  /\ UNCHANGED <<director, entries, money, request, made, known, payer, floor, faults>>

TableCount(n) == (n + SeatCap - 1) \div SeatCap

(* ListRegistered, then one match after another; AddTableMatch keeps those *)
(* a failure leaves behind.                                                *)
CreateTables(c) ==
  /\ start[c].pc = "claimed"
  /\ LET players == Entrants
         n == TableCount(Cardinality(players))
     IN \/ /\ Cardinality(players) < 2
           /\ ToStart(c, "release") /\ Fine /\ UNCHANGED made
        \/ /\ Cardinality(players) >= 2 /\ made + n <= MaxTables
           /\ made' = made + n
           /\ start' = [start EXCEPT ![c] = [pc |-> "assign", tables |-> made + 1 .. made + n,
                                            todo |-> players, dealt |-> 0]]
           /\ Fine
        \/ /\ Cardinality(players) >= 2 /\ Fault
           /\ \E k \in 0 .. n - 1 : made + k <= MaxTables /\ made' = made + k
           /\ ToStart(c, "release")
  /\ UNCHANGED <<event, entries, money, request, known, payer, floor>>

(* Round the tables; what AssignPlayerTable answers is not looked at. *)
NextTable(s) == Min(s.tables) + (s.dealt % Cardinality(s.tables))

AssignPlayerTable(c) ==
  /\ start[c].pc = "assign"
  /\ \E p \in start[c].todo :
       /\ \/ /\ at' = [at EXCEPT ![p] = NextTable(start[c])]
             /\ reg' = [reg EXCEPT ![p] = "playing"]
             /\ Fine
          \/ Fault /\ UNCHANGED <<at, reg>>
       /\ start' = [start EXCEPT ![c].todo = @ \ {p}, ![c].dealt = @ + 1]
  /\ UNCHANGED <<event, place, money, request, made, known, payer, floor>>

CreateDirector(c) ==
  /\ start[c].pc = "assign" /\ start[c].todo = {}
  /\ \/ known' = [known EXCEPT ![c] = start[c].tables] /\ ToStart(c, "install") /\ Fine
     \/ Fault /\ ToStart(c, "release") /\ UNCHANGED known
  /\ UNCHANGED <<event, entries, money, request, made, payer, floor>>

(* An error leaves the claim where it is. *)
SetDirectorMatch(c) ==
  /\ start[c].pc = "install"
  /\ \/ /\ Fine
        /\ IF status = "starting" THEN status' = "running" /\ director' = c ELSE UNCHANGED event
     \/ Fault /\ UNCHANGED event
  /\ ToStart(c, "up")
  /\ UNCHANGED <<entries, money, request, made, known, payer, floor>>

ReleaseStartClaim(c) ==
  /\ start[c].pc = "release"
  /\ \/ Fine /\ status' = IF status = "starting" THEN "registering" ELSE status
     \/ Fault /\ UNCHANGED status
  /\ ToStart(c, "failed")
  /\ UNCHANGED <<director, entries, money, request, made, known, payer, floor>>

----------------------------------------------------------------------------
(* The prizes.  A director looks once a second whether one player is left; *)
(* TournamentFinalize asks the same once.  Both pay only on the claim.     *)

Pool(n) == Max({n * (BuyIn - PerEntryRake), Guarantee})

PerPlace(i, pool) == ((pool * Ladder[i].bps) \div 10000) \div (Ladder[i].to + 1 - Ladder[i].from)

(* The first tier that has something for the place. *)
Tiers(n, pool) == {i \in DOMAIN Ladder : n \in Ladder[i].from .. Ladder[i].to /\ PerPlace(i, pool) > 0}
Prizes(places, pool) ==
  {[who |-> p, amount |-> PerPlace(Min(Tiers(places[p], pool)), pool)] :
     p \in {q \in Players : places[q] > 0 /\ Tiers(places[q], pool) # {}}}

PayerAt(x, pc) == payer' = [payer EXCEPT ![x].pc = pc]

(* pruneEmptyTables: a count that fails reads as zero. *)
PruneEmptyTables(c) ==
  LET kept == {t \in known[c] : AtTable(t) # {}}
  IN \/ known' = [known EXCEPT ![c] = kept] /\ Fine
     \/ Fault /\ \E t \in kept : known' = [known EXCEPT ![c] = kept \ {t}]

(* The end of a director's second, or of the RPC. *)
Leave(x) ==
  IF x \in Calls
  THEN payer' = [payer EXCEPT ![x] = Idle] /\ PruneEmptyTables(x)
  ELSE payer' = [payer EXCEPT ![x] = [Idle EXCEPT !.pc = "done"]] /\ UNCHANGED <<known, faults>>

LookWhoPlays(x) ==
  /\ payer[x].pc = "idle" /\ Cardinality(Playing) <= 1
  /\ IF x \in Calls THEN x \in Up ELSE status # "finished"
  /\ payer' = [payer EXCEPT ![x].pc = "claim", ![x].playing = Cardinality(Playing)]
  /\ UNCHANGED <<event, entries, money, request, start, made, known, floor, faults>>

(* A second in which more than one is playing. *)
NobodyHasWon(c) ==
  /\ c \in Up /\ payer[c].pc = "idle" /\ Cardinality(Playing) > 1
  /\ PruneEmptyTables(c)
  /\ UNCHANGED <<event, entries, money, request, start, made, payer, floor>>

(* Mutant: both payers pay. *)
FinishAgain(x) ==
  /\ payer[x].pc = "claim"
  /\ status' = "finished" /\ PayerAt(x, "crown") /\ Fine /\ UNCHANGED known
  /\ UNCHANGED <<director, entries, money, request, start, made, floor>>

FinishOnce(x) ==
  /\ payer[x].pc = "claim"
  /\ IF status # "finished"
     THEN status' = "finished" /\ PayerAt(x, "crown") /\ Fine /\ UNCHANGED known
     ELSE Leave(x) /\ UNCHANGED status
  /\ UNCHANGED <<director, entries, money, request, start, made, floor>>

StillDue(x, due) ==
  IF due = {} THEN Leave(x)
  ELSE payer' = [payer EXCEPT ![x] = [Idle EXCEPT !.pc = "pay", !.due = due]] /\ Fine /\ UNCHANGED known

Champions(x) == IF x \in Calls \/ payer[x].playing = 1 THEN Playing ELSE {}
Owing(x, due) ==
  IF due # {} THEN [Idle EXCEPT !.pc = "pay", !.due = due]
  ELSE IF x \in Calls THEN Idle ELSE [Idle EXCEPT !.pc = "done"]

(* SetFinishPlace for whoever is still playing when the list is read, then *)
(* the pool of the entries there are and who is due what.  When a call     *)
(* fails, some champion or all of them have no place, nobody is due        *)
(* anything (no pool), or a director counts no entries and goes on.        *)
SetFinishPlace(x) ==
  /\ payer[x].pc = "crown"
  /\ LET pool == Pool(Cardinality(Entrants))
         Crown(champions) == place' = [p \in Players |-> IF p \in champions THEN 1 ELSE place[p]]
     IN \/ Crown(Champions(x)) /\ StillDue(x, Prizes(place', pool))
        \/ /\ Fault /\ UNCHANGED known
           /\ \E missed \in {{}, Champions(x)} \cup {{p} : p \in Champions(x)} : Crown(Champions(x) \ missed)
           /\ \E found \in {0, pool} \cup (IF x \in Calls THEN {Pool(0)} ELSE {}) :
                payer' = [payer EXCEPT ![x] = Owing(x, Prizes(place', found))]
  /\ UNCHANGED <<event, reg, at, money, request, start, made, floor>>

(* The director goes on after a payment that failed, the RPC gives up. *)
PayWinner(x) ==
  /\ payer[x].pc = "pay"
  /\ \E d \in payer[x].due :
       \/ /\ wallet' = [wallet EXCEPT ![d.who] = @ + d.amount]
          /\ prizes' = [prizes EXCEPT ![d.who] = @ + d.amount]
          /\ StillDue(x, payer[x].due \ {d})
       \/ /\ Fault
          /\ UNCHANGED <<wallet, prizes, known>>
          /\ payer' = [payer EXCEPT ![x] =
                         IF x \in Calls
                         THEN IF payer[x].due = {d} THEN Idle ELSE [payer[x] EXCEPT !.due = @ \ {d}]
                         ELSE [Idle EXCEPT !.pc = "done"]]
  /\ UNCHANGED <<event, entries, refused, request, start, made, floor>>

----------------------------------------------------------------------------
(* TournamentBalance asks the recorded director to break a table up, the   *)
(* first that is small enough.  A count that fails reads as zero, a signal *)
(* that fails is forgotten.                                                *)
Rebalance(c) ==
  /\ director = c /\ payer[c].pc = "idle" /\ Cardinality(known[c]) >= 2
  /\ \E uncounted \in {{}} \cup {{t} : t \in known[c]} :
     LET count  == [t \in known[c] |-> IF t \in uncounted THEN 0 ELSE Cardinality(AtTable(t))]
         small  == {t \in known[c] : count[t] <= BreakTableAtOrBelow}
         from   == Min(small)
         others == known[c] \ {from}
         pickMergeTarget == Min({t \in others : \A u \in others : count[t] <= count[u]})
         moved  == AtTable(from)
         Ask(asked) == leaving' = [leaving EXCEPT ![from] =
                         [p \in Players |-> IF p \in asked THEN pickMergeTarget ELSE @[p]]]
     IN /\ \E t, u \in known[c] : count[t] - count[u] > MaxSeatDifference
        /\ small # {}
        /\ \/ uncounted = {} /\ Ask(moved) /\ Fine
           \/ uncounted # {} /\ Ask(moved) /\ Fault
           \/ uncounted = {} /\ Fault /\ \E p \in moved : Ask(moved \ {p})
  /\ UNCHANGED <<event, entries, money, request, start, made, known, payer, seats, arriving, sits>>

Full(t) == Cardinality(seats[t]) >= MaxSeats

(* Mutant: a player is put on a seat beyond the cap. *)
SeatBeyondTheCap(t, p) ==
  /\ p \in arriving[t] /\ (p \in seats[t] \/ ~Full(t))
  /\ arriving' = [arriving EXCEPT ![t] = @ \ {p}]
  /\ seats' = [seats EXCEPT ![t] = @ \cup {p}]
  /\ UNCHANGED <<event, entries, money, request, start, made, known, payer, leaving, sits, faults>>

(* What a table does first between hands: processPendingSeatIn.  A table   *)
(* with fewer seats than the physical number has an empty seat always, but *)
(* SeatTransferIn refuses one beyond the cap and the player is dropped.    *)
SeatTransferIn(t, p) ==
  /\ p \in arriving[t] /\ (p \in seats[t] \/ ~Full(t))
  /\ arriving' = [arriving EXCEPT ![t] = @ \ {p}]
  /\ IF Cardinality(seats[t]) < SeatCap
     THEN seats' = [seats EXCEPT ![t] = @ \cup {p}]
     ELSE UNCHANGED seats
  /\ UNCHANGED <<event, entries, money, request, start, made, known, payer, leaving, sits, faults>>

(* The receiving table's answer to tournament_seat_in. *)
Queued(d, p)  == p \in seats[d] \cup arriving[d]
HasRoom(d) == Cardinality(seats[d]) + Cardinality(arriving[d]) < SeatCap
Accepts(d, p) == Queued(d, p) \/ HasRoom(d)
QueuedAt(d, p) == [arriving EXCEPT ![d] = IF p \notin seats[d] /\ Accepts(d, p) THEN @ \cup {p} ELSE @]

(* Mutant: the player is stood up whatever the other table answers. *)
HandOverUnasked(t, p) ==
  /\ leaving[t][p] # 0 /\ p \in seats[t] /\ \A q \in arriving[t] : q \notin seats[t] /\ Full(t)
  /\ arriving' = QueuedAt(leaving[t][p], p)
  /\ leaving' = [leaving EXCEPT ![t][p] = 0]
  /\ seats' = [seats EXCEPT ![t] = @ \ {p}]
  /\ UNCHANGED <<event, entries, money, request, start, made, known, payer, sits, faults>>

(* Then processPendingSeatTransfers, a player at a time.                   *)
HandOver(t, p) ==
  LET d == leaving[t][p] IN
  /\ d # 0 /\ \A q \in arriving[t] : q \notin seats[t] /\ Full(t)
  /\ leaving' = [leaving EXCEPT ![t][p] = 0]
  /\ \/ /\ p \notin seats[t] \/ ~Accepts(d, p)
        /\ Fine /\ UNCHANGED <<seats, arriving, reg, at>>
     \/ /\ p \in seats[t] /\ Accepts(d, p)
        /\ arriving' = QueuedAt(d, p)
        /\ seats' = [seats EXCEPT ![t] = @ \ {p}]
        /\ \/ Fine /\ at' = [at EXCEPT ![p] = d] /\ reg' = [reg EXCEPT ![p] = "playing"]
           \/ Fault /\ UNCHANGED <<reg, at>>
     \/ /\ p \in seats[t] /\ Fault        \* no answer: the signal may have arrived or not
        /\ arriving' \in {arriving, QueuedAt(d, p)}
        /\ UNCHANGED <<seats, reg, at>>
  /\ UNCHANGED <<event, place, money, request, start, made, known, payer, sits>>

(* OpSitDown asks for an entry in the tournament, not for this table, and  *)
(* does not look at the seats kept for others.                             *)
SitDown(t, p) ==
  /\ status \in SitsWhile /\ t <= made /\ reg[p] # "none" /\ p \notin seats[t]
  /\ Cardinality(seats[t]) < SeatCap
  /\ sits[p] < MaxSits /\ sits' = [sits EXCEPT ![p] = @ + 1]
  /\ seats' = [seats EXCEPT ![t] = @ \cup {p}]
  /\ UNCHANGED <<event, entries, money, request, start, made, known, payer, arriving, leaving, faults>>

StandUp(t, p) ==
  /\ p \in seats[t]
  /\ seats' = [seats EXCEPT ![t] = @ \ {p}]
  /\ UNCHANGED <<event, entries, money, request, start, made, known, payer, arriving, leaving, sits, faults>>

----------------------------------------------------------------------------
Next ==
  \/ \E r \in Requests : DebitBuyIn(r) \/ Register(r) \/ RefundBuyIn(r)
  \/ \E c \in Calls : \/ ClaimForStart(c) \/ CreateTables(c) \/ AssignPlayerTable(c)
                      \/ CreateDirector(c) \/ SetDirectorMatch(c) \/ ReleaseStartClaim(c)
                      \/ NobodyHasWon(c) \/ Rebalance(c)
  \/ \E x \in Payers : \/ LookWhoPlays(x) \/ FinishOnce(x) \/ SetFinishPlace(x)
                       \/ PayWinner(x)
  \/ \E t \in 1 .. made, p \in Players : \/ SeatTransferIn(t, p) \/ HandOver(t, p)
                                         \/ SitDown(t, p) \/ StandUp(t, p)

Spec == Init /\ [][Next]_vars

----------------------------------------------------------------------------
TypeOK ==
  /\ status \in {"registering", "starting", "running", "finished"}
  /\ director \in Calls \cup {None}
  /\ reg \in [Players -> {"none", "registered", "playing"}]
  /\ at \in [Players -> 0 .. made] /\ place \in [Players -> {0, 1}]
  /\ wallet \in [Players -> Nat]
  /\ request \in [Requests -> {"new", "charged", "refund", "done"}]
  /\ \A c \in Calls :
       /\ start[c].pc \in {"new", "claimed", "assign", "install", "release", "up", "failed"}
       /\ start[c].todo \subseteq Entrants /\ start[c].tables \subseteq 1 .. made
       /\ known[c] \subseteq start[c].tables
  /\ made \in 0 .. MaxTables
  /\ \A x \in Payers : payer[x].pc \in {"idle", "claim", "crown", "pay", "done"}
  /\ \A t \in Tables :
       /\ seats[t] \cup arriving[t] \subseteq Entrants /\ Cardinality(seats[t]) <= SeatCap
       /\ \A p \in Players : leaving[t][p] \in 0 .. made
  /\ faults \in 0 .. MaxFaults

(* An entry is paid for exactly once, whatever a double click, an error or *)
(* a duplicate does: what has left a player's wallet is his one entry, a   *)
(* buy-in still to be decided on, or a refund that the log says has failed.*)
Undecided(p) == {r \in Requests : r[1] = p /\ request[r] \in {"charged", "refund"}}
EntriesArePaidOnce ==
  \A p \in Players :
    wallet[p] + BuyIn * ( (IF p \in Entrants THEN 1 ELSE 0)
                          + Cardinality(Undecided(p)) + refused[p] ) = Funds + prizes[p]

(* Whoever runs the payout, and however often, only champions are paid,    *)
(* and none more than the pool of the entries.                             *)
OnlyChampionsArePaid ==
  \A p \in Players : prizes[p] <= IF place[p] = 1 THEN Pool(Cardinality(Entrants)) ELSE 0

MoneyIsAccounted == EntriesArePaidOnce /\ OnlyChampionsArePaid

(* However often a start is asked for, retried or fails half-way, there is *)
(* one director, and it is the one the tournament names.                   *)
OneDirector == Cardinality(Up) <= 1 /\ (director # None => Up = {director})

(* The stacks a player has: seated, and on the way to a table. *)
Stacks(p) == Cardinality({t \in Tables : p \in seats[t]}) + Cardinality({t \in Tables : p \in arriving[t]})
KeptForNobody(t) == Cardinality(seats[t]) >= SeatCap

(* Moving a player neither loses nor doubles his stack.  It is more only   *)
(* when he sits down himself or an answer between tables is lost, less     *)
(* only when he stands up, had two, or finds the seat kept for him taken.  *)
StacksAreMovedWhole ==
  [][\A p \in Players :
       /\ Stacks(p)' > Stacks(p) => faults' > faults \/ sits'[p] > sits[p]
       /\ Stacks(p)' < Stacks(p) =>
            \/ Stacks(p) > 1
            \/ \E t \in Tables : StandUp(t, p) \/ (p \in arriving[t] /\ KeptForNobody(t))
    ]_<<seats, arriving>>
================================================================================
