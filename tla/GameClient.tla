----------------------------- MODULE GameClient -----------------------------
(***************************************************************************)
(* One player's page and the match he plays in, joined by a socket: two    *)
(* queues of messages.  The page shows an action bar when it is prompted,  *)
(* hides it the moment the player acts, and puts it back when the move is  *)
(* refused; a move may also be queued before the turn.  The match passes   *)
(* the turn when it accepts a move or when the clock runs out, and ignores *)
(* a move that repeats the nonce it last accepted.  The page may be        *)
(* reloaded, and the match learns late that the old socket is gone.        *)
(*                                                                         *)
(* Only the player's turns are counted; what the other seats do between    *)
(* them, the cards and the amounts are left to Betting and Hand.           *)
(***************************************************************************)
EXTENDS Naturals, Sequences

CONSTANTS
  MaxHands, MaxTurns, MaxSessions,   \* bounds of the exploration
  MaxDown, MaxUp,                    \* messages under way before more are sent
  Buttons, Queued                    \* the moves and pre-actions this player uses

ASSUME GameClientAssumption ==
  /\ {MaxHands, MaxTurns, MaxDown, MaxUp} \subseteq Nat
  /\ MaxSessions \in Nat \ {0}
  /\ Buttons \subseteq {"fold", "check", "call", "raise"}
  /\ Queued \subseteq {"check_fold", "call_any", "fold"}

VARIABLES
  server,   \* what the match knows of the player's part in the game
  down, up, \* match to page, page to match
  page,     \* GameProvider and preAction
  outcome   \* how each of the player's turns was ended
vars == <<server, down, up, page, outcome>>

Moves == {"fold", "check", "call", "raise"}
PreActions == {"check_fold", "call_any", "fold"}

Hands == 0..MaxHands
Turns == 0..MaxTurns
Sessions == 0..MaxSessions

(* OpActionRequired: the turn it is for, whether there is a bet to call,   *)
(* and whether the time bank may still be spent.                           *)
NoPrompt == [id |-> 0, turn |-> 0, facing |-> FALSE, bank |-> FALSE]
ValidMoves(prompt) ==
  {"fold", "raise"} \cup (IF prompt.facing THEN {"call"} ELSE {"check"})

(* Every change is followed by a snapshot, which tells the page whether    *)
(* the player is in a hand; a message and its snapshot are taken as one.   *)
InHand(s) == s.betting /\ s.live
Snapshot(s) ==
  [op |-> "snapshot", prompt |-> NoPrompt, hand |-> s.hand, active |-> InHand(s)]
SessionKey(s) == [Snapshot(s) EXCEPT !.op = "key"]
DealPrivate(s) == [Snapshot(s) EXCEPT !.op = "deal"]
ActionRequired(s) == [Snapshot(s) EXCEPT !.op = "prompt", !.prompt = s.asked]
ActionFailed(s) == [Snapshot(s) EXCEPT !.op = "action_failed"]
OtherError(s) == [Snapshot(s) EXCEPT !.op = "error"]

Undecided == [by |-> "nobody", nonce |-> 0, prompted |-> 0]

NewPage(session) ==
  [session |-> session, joined |-> FALSE, active |-> FALSE,
   bar |-> NoPrompt, cleared |-> NoPrompt, nonce |-> 0, pre |-> "none",
   importing |-> FALSE, keyed |-> FALSE,
   decrypting |-> {}, behind |-> {}, cards |-> 0, blind |-> 0]

Init ==
  /\ server = [betting |-> FALSE, hand |-> 0, live |-> FALSE, seated |-> TRUE,
               turn |-> 0, clock |-> FALSE, asked |-> NoPrompt, askedIn |-> 0,
               dealtIn |-> 0, bank |-> TRUE, last |-> 0, present |-> 0, gone |-> {}]
  /\ down = <<>> /\ up = <<>>
  /\ page = NewPage(1)
  /\ outcome = [t \in 1..MaxTurns |-> Undecided]

----------------------------------------------------------------------------
(* The match. *)

(* A message to the player reaches the page if its socket is the presence. *)
Deliver(s, msgs) ==
  IF s.present = page.session /\ page.joined THEN down \o msgs ELSE down

(* broadcastActionRequired: only a present player is sent the prompt.      *)
Prompted(s) ==
  [s EXCEPT !.asked = [id |-> s.asked.id + 1, turn |-> s.turn,
                       facing |-> s.asked.facing, bank |-> s.bank],
            !.askedIn = s.present]

(* Where the hand goes after a step: on to others, to the player, or over. *)
Continuations(s) ==
  {[s EXCEPT !.clock = FALSE, !.asked.facing = FALSE, !.betting = b] : b \in BOOLEAN}
  \cup IF s.live /\ s.turn < MaxTurns
       THEN {Prompted([s EXCEPT !.clock = TRUE, !.turn = @ + 1, !.asked.facing = f]) :
               f \in BOOLEAN}
       ELSE {}
Announced(s) == <<IF s.clock THEN ActionRequired(s) ELSE Snapshot(s)>>

(* dealPrivateCards skips who is absent, and waits for nobody's page. *)
StartHand ==
  /\ ~server.betting /\ server.hand < MaxHands
  /\ Len(down) < MaxDown
  /\ LET s == [server EXCEPT !.betting = TRUE, !.hand = @ + 1, !.live = server.seated,
                             !.dealtIn = IF server.seated THEN server.present ELSE 0]
     IN \E next \in {n \in Continuations(s) : n.betting} :
          /\ server' = next
          /\ down' = Deliver(next,
               (IF s.live THEN <<DealPrivate(s)>> ELSE <<>>) \o Announced(next))
  /\ UNCHANGED <<up, page, outcome>>

(* The other players act. *)
OthersAct ==
  /\ server.betting /\ ~server.clock
  /\ Len(down) < MaxDown
  /\ \E next \in Continuations(server) \ {server} :
       /\ server' = next
       /\ down' = Deliver(next, Announced(next))
  /\ UNCHANGED <<up, page, outcome>>

(* The turn ends with a fold or not, and the hand goes on. *)
EndTurn(s, folds, how) ==
  /\ outcome' = [outcome EXCEPT ![s.turn] = how]
  /\ \E next \in Continuations([s EXCEPT !.live = ~folds]) :
       /\ server' = next
       /\ down' = Deliver(next, Announced(next))

(* The clock acts for the player, or the host folds his hand. *)
ClockRunsOut ==
  /\ server.clock
  /\ Len(down) < MaxDown
  /\ \E folds \in BOOLEAN :
       /\ server.asked.facing => folds
       /\ EndTurn(server, folds, [Undecided EXCEPT !.by = "clock"])
  /\ UNCHANGED <<up, page>>

Accepts(msg) == server.clock /\ msg.move \in ValidMoves(server.asked)

(* Mutant: the nonce of an accepted move is not remembered. *)
OnActionForgetful(msg) ==
  \/ /\ ~server.betting
     /\ down' = Deliver(server, <<OtherError(server)>>)
     /\ UNCHANGED <<server, outcome>>
  \/ /\ server.betting /\ Accepts(msg)
     /\ EndTurn(server, msg.move = "fold",
                [by |-> "player", nonce |-> msg.nonce, prompted |-> msg.turn])
  \/ /\ server.betting /\ (~Accepts(msg) \/ msg.move = "raise")
     /\ down' = Deliver(server, <<ActionFailed(server)>>)
     /\ UNCHANGED <<server, outcome>>

(* A move: refused outside betting, dropped without a word if it repeats   *)
(* the nonce last accepted, and applied if it is the player's turn and the *)
(* move is legal; a raise may be of a wrong size.                          *)
OnAction(msg) ==
  \/ /\ ~server.betting
     /\ down' = Deliver(server, <<OtherError(server)>>)
     /\ UNCHANGED <<server, outcome>>
  \/ /\ server.betting /\ (~server.seated \/ msg.nonce = server.last)
     /\ UNCHANGED <<server, down, outcome>>
  \/ /\ server.betting /\ server.seated /\ msg.nonce # server.last /\ Accepts(msg)
     /\ EndTurn([server EXCEPT !.last = msg.nonce], msg.move = "fold",
                [by |-> "player", nonce |-> msg.nonce, prompted |-> msg.turn])
  \/ /\ server.betting /\ server.seated /\ msg.nonce # server.last
     /\ ~Accepts(msg) \/ msg.move = "raise"
     /\ down' = Deliver(server, <<ActionFailed(server)>>)
     /\ UNCHANGED <<server, outcome>>

(* The time bank is spent at once and the player is prompted again.  Until *)
(* the tick that gave him the turn has ended its clock is not armed, and   *)
(* he is refused as if it were not his turn; ticks are not told apart, so  *)
(* a refusal is possible at any time.                                      *)
OnUseTimeBank ==
  \/ /\ server.betting /\ server.clock /\ server.bank
     /\ server' = Prompted([server EXCEPT !.bank = FALSE])
     /\ down' = Deliver(server', Announced(server'))
     /\ UNCHANGED outcome
  \/ /\ down' = Deliver(server, <<OtherError(server)>>)
     /\ UNCHANGED <<server, outcome>>

(* Nobody leaves with live cards. *)
Unseated(s) == [s EXCEPT !.seated = FALSE, !.live = FALSE]
OnStandUp ==
  /\ IF server.seated /\ ~InHand(server)
     THEN /\ server' = Unseated(server)
          /\ down' = Deliver(server, <<Snapshot(server')>>)
     ELSE /\ UNCHANGED server
          /\ down' = IF server.seated THEN Deliver(server, <<OtherError(server)>>) ELSE down
  /\ UNCHANGED outcome

(* MatchLoop takes a message; without a presence it is ignored. *)
Receive ==
  /\ up # <<>>
  /\ Len(down) < MaxDown
  /\ up' = Tail(up)
  /\ IF server.present = 0 THEN UNCHANGED <<server, down, outcome>>
     ELSE CASE Head(up).op = "action" -> OnAction(Head(up))
            [] Head(up).op = "bank"   -> OnUseTimeBank
            [] Head(up).op = "leave"  -> OnStandUp
  /\ UNCHANGED page

(* MatchLeave of a socket that has gone: the presence is looked up by the  *)
(* player, whichever socket it belongs to by now.                          *)
MatchLeave ==
  /\ \E old \in server.gone :
       server' = [(IF InHand(server) THEN server ELSE Unseated(server))
                    EXCEPT !.gone = @ \ {old}, !.present = 0]
  /\ UNCHANGED <<down, up, page, outcome>>

----------------------------------------------------------------------------
(* The page: what the player does. *)

Send(op, move) == [op |-> op, move |-> move, nonce |-> page.nonce, turn |-> page.bar.turn]
Actions(moves) == [i \in DOMAIN moves |-> Send("action", moves[i])]

(* isMyTurn: the prompt stays until it is answered, or another comes.      *)
IsMyTurn == page.bar # NoPrompt

(* joinRoom, with the match's answer: key and snapshot. *)
JoinRoom ==
  /\ ~page.joined /\ page.session \notin server.gone
  /\ page' = [page EXCEPT !.joined = TRUE, !.bar = NoPrompt, !.cards = 0]
  /\ server' = [server EXCEPT !.present = page.session]
  /\ down' = <<SessionKey(server)>>
  /\ UNCHANGED <<up, outcome>>

(* The page goes away, with all it knew, and another is opened. *)
Reload ==
  /\ page.session < MaxSessions
  /\ page' = NewPage(page.session + 1)
  /\ down' = <<>>
  /\ server' = [server EXCEPT !.gone = @ \cup (IF page.joined THEN {page.session} ELSE {})]
  /\ UNCHANGED <<up, outcome>>

(* sendAction.  The bar is hidden only when the page is drawn again, so a  *)
(* second tap, or a key, may follow with the same nonce.                   *)
Act(moves) ==
  /\ up' = up \o Actions(moves)
  /\ page' = [page EXCEPT !.cleared = page.bar, !.bar = NoPrompt, !.pre = "none"]
  /\ UNCHANGED <<server, down, outcome>>

Tap ==
  /\ IsMyTurn /\ page.pre = "none"
  /\ Len(up) < MaxUp
  /\ \E m \in ValidMoves(page.bar) \cap Buttons : Act(<<m>>) \/ Act(<<m, m>>)

(* Pre-actions are offered when it is not the player's turn. *)
TogglePreAction ==
  /\ page.active /\ ~IsMyTurn
  /\ \E p \in Queued :
       page' = [page EXCEPT !.pre = IF @ = p THEN "none" ELSE p]
  /\ UNCHANGED <<server, down, up, outcome>>

(* Mutant: what was queued is sent as it is. *)
MoveForUntranslated(pre, prompt) == pre

(* The effect of ActionBar fires what was queued. *)
MoveFor(pre, prompt) ==
  CASE pre = "fold"       -> "fold"
    [] pre = "check_fold" -> IF prompt.facing THEN "fold" ELSE "check"
    [] pre = "call_any"   -> IF prompt.facing THEN "call" ELSE "check"
FirePreAction ==
  /\ IsMyTurn /\ page.pre # "none"
  /\ Act(<<MoveFor(page.pre, page.bar)>>)

UseTimeBank ==
  /\ IsMyTurn /\ page.bar.bank
  /\ Len(up) < MaxUp /\ \A i \in DOMAIN up : up[i].op # "bank"
  /\ up' = Append(up, Send("bank", "none"))
  /\ UNCHANGED <<server, down, page, outcome>>

(* Exit Table: the cards are put away whatever the match will say. *)
StandUp ==
  /\ page.joined /\ page.blind # server.hand
  /\ Len(up) < MaxUp
  /\ up' = Append(up, Send("leave", "none"))
  /\ page' = [page EXCEPT !.cards = 0, !.blind = server.hand]
  /\ UNCHANGED <<server, down, outcome>>

----------------------------------------------------------------------------
(* The page: messages from the match (onmatchdata), and the results of the *)
(* cryptography it starts.                                                 *)

(* Mutant: a new prompt leaves the answered one to be restored. *)
OnActionRequiredKeeping(msg) ==
  [page EXCEPT !.nonce = msg.prompt.id, !.bar = msg.prompt]

OnActionRequired(msg) ==
  [page EXCEPT !.nonce = msg.prompt.id, !.bar = msg.prompt, !.cleared = NoPrompt]

(* Mutant: an error is shown and nothing is restored. *)
OnActionFailedQuietly == page

OnActionFailed ==
  IF page.cleared # NoPrompt
  THEN [page EXCEPT !.bar = page.cleared, !.cleared = NoPrompt]
  ELSE page

(* Cards that come before the key are lost to the page.  Every deal starts *)
(* a decryption of its own and cancels none; those it leaves behind it are *)
(* kept in a history field.                                                *)
OnDealPrivate(msg) ==
  IF page.keyed
  THEN [page EXCEPT !.decrypting = @ \cup {msg.hand}, !.behind = page.decrypting]
  ELSE [page EXCEPT !.blind = msg.hand]

OnMatchData ==
  /\ down # <<>>
  /\ down' = Tail(down)
  /\ LET msg == Head(down) IN
       page' = [CASE msg.op = "key"           -> [page EXCEPT !.importing = TRUE]
                  [] msg.op = "deal"          -> OnDealPrivate(msg)
                  [] msg.op = "prompt"        -> OnActionRequired(msg)
                  [] msg.op = "action_failed" -> OnActionFailed
                  [] msg.op \in {"snapshot", "error"} -> page
                EXCEPT !.active = msg.active]
  /\ UNCHANGED <<server, up, outcome>>

ImportSessionKey ==
  /\ page.importing
  /\ page' = [page EXCEPT !.importing = FALSE, !.keyed = TRUE]
  /\ UNCHANGED <<server, down, up, outcome>>

(* Mutant: cards that lie open are not replaced. *)
DecryptCardsOnce ==
  /\ \E hand \in page.decrypting :
       page' = [page EXCEPT !.cards = IF @ = 0 THEN hand ELSE @, !.decrypting = @ \ {hand}]
  /\ UNCHANGED <<server, down, up, outcome>>

(* Decryptions end in any order, and the last to end shows its cards,      *)
(* whichever hand they are of.                                             *)
DecryptCards ==
  /\ \E hand \in page.decrypting :
       page' = [page EXCEPT !.cards = hand, !.decrypting = @ \ {hand}]
  /\ UNCHANGED <<server, down, up, outcome>>

Next ==
  \/ StartHand \/ OthersAct \/ ClockRunsOut \/ Receive \/ MatchLeave
  \/ JoinRoom \/ Reload \/ Tap \/ TogglePreAction \/ FirePreAction
  \/ UseTimeBank \/ StandUp
  \/ OnMatchData \/ ImportSessionKey \/ DecryptCards

Spec == Init /\ [][Next]_vars

----------------------------------------------------------------------------
(* Correctness. *)

Prompts == [id : Nat, turn : Turns, facing : BOOLEAN, bank : BOOLEAN]
ServerStates ==
  [betting : BOOLEAN, hand : Hands, live : BOOLEAN, seated : BOOLEAN, turn : Turns,
   clock : BOOLEAN, asked : Prompts, askedIn : Sessions, dealtIn : Sessions,
   bank : BOOLEAN, last : Nat, present : Sessions, gone : SUBSET Sessions]
DownMessages ==
  [op : {"key", "deal", "prompt", "action_failed", "error", "snapshot"},
   prompt : Prompts, hand : Hands, active : BOOLEAN]
UpMessages ==
  [op : {"action", "bank", "leave"}, move : Moves \cup {"none"}, nonce : Nat, turn : Turns]
PageStates ==
  [session : Sessions, joined : BOOLEAN, active : BOOLEAN, bar : Prompts, cleared : Prompts,
   nonce : Nat, pre : PreActions \cup {"none"}, importing : BOOLEAN, keyed : BOOLEAN,
   decrypting : SUBSET Hands, behind : SUBSET Hands, cards : Hands, blind : Hands]
Outcomes == [by : {"nobody", "player", "clock"}, nonce : Nat, prompted : Turns]

(* The match, the page and the messages between them have their types. *)
TypeOK ==
  /\ server \in ServerStates
  /\ down \in Seq(DownMessages)
  /\ up \in Seq(UpMessages)
  /\ page \in PageStates
  /\ outcome \in [1..MaxTurns -> Outcomes]

ByPlayer(t) == outcome[t].by = "player"

(* A move is applied once: however often the player taps while the bar is  *)
(* up, or the page sends, no two of his turns are ended by moves with the  *)
(* same nonce ("a client retry / double-tap must not apply twice").        *)
AppliedOnce ==
  \A t, u \in 1..MaxTurns :
    t # u /\ ByPlayer(t) /\ ByPlayer(u) => outcome[t].nonce # outcome[u].nonce

(* A move is not bound to the turn it answers, so it can end a later turn; *)
(* but never an earlier one, and only when the clock ended the turn it was *)
(* meant for, or that turn was answered under another nonce, after the     *)
(* time bank had been spent.                                               *)
LateOnlyAfterTheClock ==
  \A t \in 1..MaxTurns : ByPlayer(t) =>
    LET meant == outcome[t].prompted IN
      /\ meant \in 1..t
      /\ meant < t => \/ outcome[meant].by = "clock"
                      \/ ByPlayer(meant) /\ outcome[meant].nonce # outcome[t].nonce

AllDelivered == down = <<>> /\ up = <<>>
Connected == page.joined /\ server.present = page.session

(* The player is never left without the bar: when his turn was announced   *)
(* to this page and nothing is under way any more, in either direction,    *)
(* the bar shows the latest prompt of that turn, whatever he has sent and  *)
(* had refused, dropped or overtaken before.                               *)
BarIsUpOnMyTurn ==
  AllDelivered /\ Connected /\ server.clock /\ server.askedIn = page.session
    => page.bar = server.asked

(* The cards on view are those of the hand, or were overtaken: when all is *)
(* delivered and decrypted, a player in a hand that was dealt to this page *)
(* sees its cards, unless they came before the key or he asked to leave in *)
(* it; or those of a hand whose decryption was still running when this     *)
(* hand's cards came, which nothing keeps from ending after theirs.        *)
OnlyOvertakenCardsAreStale ==
  AllDelivered /\ Connected /\ InHand(server) /\ server.dealtIn = page.session
    /\ page.decrypting = {} /\ page.blind # server.hand
      => page.cards \in {server.hand} \cup page.behind
==============================================================================
