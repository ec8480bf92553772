-------------------------- MODULE GameClientProofs --------------------------
(***************************************************************************)
(* The player's page and the match, for every number of hands, turns and   *)
(* connections, and of messages under way: the types, a move applied once, *)
(* a late move only where the clock or the time bank came first, and that  *)
(* the bar and the cards are right once everything has been delivered.     *)
(***************************************************************************)
EXTENDS GameClient, SequenceTheorems, TLAPS

----------------------------------------------------------------------------
(* Queues: which messages are under way, and which is ahead of which. *)

Among(q) == {q[i] : i \in DOMAIN q}
Ahead(q, m, n) == \E i, j \in DOMAIN q : i < j /\ q[i] = m /\ q[j] = n

LEMMA AmongTyped ==
  ASSUME NEW S, NEW q \in Seq(S)
  PROVE  Among(q) \subseteq S
BY LenProperties DEF Among

LEMMA AheadAmong ==
  ASSUME NEW q, NEW m, NEW n, Ahead(q, m, n)
  PROVE  m \in Among(q) /\ n \in Among(q)
BY DEF Among, Ahead

LEMMA EmptyQueue ==
  /\ Among(<<>>) = {}
  /\ \A S : <<>> \in Seq(S)
BY DEF Among

LEMMA QueueOfOne ==
  ASSUME NEW S, NEW e \in S
  PROVE  /\ <<e>> \in Seq(S)
         /\ Among(<<e>>) = {e}
         /\ \A m, n : ~Ahead(<<e>>, m, n)
         /\ <<e>> = Append(<<>>, e)
<1>1. <<e>> \in Seq(S) /\ DOMAIN <<e>> = {1} /\ <<e>>[1] = e
  OBVIOUS
<1>2. <<e>> = Append(<<>>, e)
  BY AppendIsConcat, ConcatEmptySeq, EmptySeq, <1>1
<1> QED BY <1>1, <1>2 DEF Among, Ahead

LEMMA Appended ==
  ASSUME NEW S, NEW q \in Seq(S), NEW e \in S
  PROVE  /\ Append(q, e) \in Seq(S)
         /\ Append(q, e) # <<>>
         /\ Among(Append(q, e)) = Among(q) \cup {e}
         /\ \A m, n : Ahead(Append(q, e), m, n) => Ahead(q, m, n) \/ (m \in Among(q) /\ n = e)
         /\ q \o <<e>> = Append(q, e)
<1>1. /\ Append(q, e) \in Seq(S) /\ Append(q, e) # <<>> /\ Len(Append(q, e)) = Len(q) + 1
      /\ \A i \in 1..Len(q) : Append(q, e)[i] = q[i]
      /\ Append(q, e)[Len(q) + 1] = e
  BY AppendProperties
<1>2. /\ Len(q) \in Nat /\ DOMAIN q = 1..Len(q)
      /\ DOMAIN Append(q, e) = 1..(Len(q) + 1)
  BY <1>1, LenProperties
<1>3. Among(Append(q, e)) = Among(q) \cup {e}
  <2>1. ASSUME NEW i \in DOMAIN Append(q, e)
        PROVE  Append(q, e)[i] \in Among(q) \cup {e}
    BY <1>1, <1>2 DEF Among
  <2>2. ASSUME NEW i \in DOMAIN q
        PROVE  i \in DOMAIN Append(q, e) /\ Append(q, e)[i] = q[i]
    BY <1>1, <1>2
  <2>3. Len(q) + 1 \in DOMAIN Append(q, e)
    BY <1>2
  <2> QED BY <1>1, <2>1, <2>2, <2>3 DEF Among
<1>4. ASSUME NEW m, NEW n, Ahead(Append(q, e), m, n)
      PROVE  Ahead(q, m, n) \/ (m \in Among(q) /\ n = e)
  <2>1. PICK i \in 1..(Len(q) + 1), j \in 1..(Len(q) + 1) :
              i < j /\ Append(q, e)[i] = m /\ Append(q, e)[j] = n
    BY <1>2, <1>4 DEF Ahead
  <2>2. i \in 1..Len(q) /\ q[i] = m
    BY <1>1, <1>2, <2>1
  <2>3. CASE j = Len(q) + 1
    BY <1>1, <1>2, <2>1, <2>2, <2>3 DEF Among
  <2>4. CASE j # Len(q) + 1
    <3>1. i \in DOMAIN q /\ j \in DOMAIN q /\ i < j /\ q[i] = m /\ q[j] = n
      BY <1>1, <1>2, <2>1, <2>2, <2>4
    <3> QED BY <3>1 DEF Ahead
  <2> QED BY <2>3, <2>4
<1>5. q \o <<e>> = Append(q, e)
  BY AppendIsConcat
<1> QED BY <1>1, <1>3, <1>4, <1>5

LEMMA Taken ==
  ASSUME NEW S, NEW q \in Seq(S), q # <<>>
  PROVE  /\ Head(q) \in S
         /\ Tail(q) \in Seq(S)
         /\ Among(q) = Among(Tail(q)) \cup {Head(q)}
         /\ \A m, n : Ahead(Tail(q), m, n) => Ahead(q, m, n)
         /\ \A n \in Among(Tail(q)) : Ahead(q, Head(q), n)
<1>1. /\ Head(q) \in S /\ Tail(q) \in Seq(S) /\ Len(Tail(q)) = Len(q) - 1
      /\ \A i \in 1..Len(Tail(q)) : Tail(q)[i] = q[i + 1]
  BY HeadTailProperties
<1>2. /\ Len(q) \in Nat \ {0} /\ DOMAIN q = 1..Len(q) /\ Head(q) = q[1]
      /\ DOMAIN Tail(q) = 1..(Len(q) - 1)
  BY <1>1, LenProperties, EmptySeq
<1>3. /\ \A i \in DOMAIN Tail(q) : i + 1 \in DOMAIN q /\ Tail(q)[i] = q[i + 1] /\ 1 < i + 1
      /\ 1 \in DOMAIN q
      /\ \A j \in DOMAIN q : j # 1 => j - 1 \in DOMAIN Tail(q) /\ Tail(q)[j - 1] = q[j]
  BY <1>1, <1>2
<1>4. Among(q) = Among(Tail(q)) \cup {Head(q)}
  <2>1. ASSUME NEW j \in DOMAIN q
        PROVE  q[j] \in Among(Tail(q)) \cup {Head(q)}
    <3>1. CASE j = 1
      BY <1>2, <3>1
    <3>2. CASE j # 1
      <4>1. j - 1 \in DOMAIN Tail(q) /\ Tail(q)[j - 1] = q[j]
        BY <1>3, <3>2
      <4> QED BY <4>1 DEF Among
    <3> QED BY <3>1, <3>2
  <2>2. Among(Tail(q)) \subseteq Among(q)
    BY <1>3 DEF Among
  <2>3. Head(q) \in Among(q)
    BY <1>2, <1>3 DEF Among
  <2> QED BY <2>1, <2>2, <2>3 DEF Among
<1>5. ASSUME NEW m, NEW n, Ahead(Tail(q), m, n)
      PROVE  Ahead(q, m, n)
  <2>1. PICK i \in 1..(Len(q) - 1), j \in 1..(Len(q) - 1) :
              i < j /\ Tail(q)[i] = m /\ Tail(q)[j] = n
    BY <1>2, <1>5 DEF Ahead
  <2>2. i + 1 < j + 1 /\ q[i + 1] = m /\ q[j + 1] = n /\ {i + 1, j + 1} \subseteq DOMAIN q
    BY <1>2, <1>3, <2>1
  <2> QED BY <2>2 DEF Ahead
<1>6. \A n \in Among(Tail(q)) : Ahead(q, Head(q), n)
  BY <1>2, <1>3 DEF Among, Ahead
<1> QED BY <1>1, <1>4, <1>5, <1>6

----------------------------------------------------------------------------
(* The conversation.  Nonces and turns only grow along it: an action that  *)
(* is under way is no older than the one last accepted, a prompt under way *)
(* is newer than all the page has seen and sent.                           *)

Typed(s, d, u, p) ==
  /\ s \in ServerStates
  /\ d \in Seq(DownMessages)
  /\ u \in Seq(UpMessages)
  /\ p \in PageStates

IsAction(m) == m.op = "action"
IsPrompt(m) == m.op = "prompt"
IsDeal(m) == m.op = "deal"

(* The page holds a prompt that it may still answer, or answer again. *)
Answering(p) == p.bar # NoPrompt \/ p.cleared # NoPrompt

TurnReached(s, t) == 1 <= t /\ t <= s.turn

Sent(s, u, p) ==
  /\ \A m \in Among(u) : IsAction(m) =>
       /\ s.last <= m.nonce /\ m.nonce <= s.asked.id
       /\ TurnReached(s, m.turn)
       /\ Answering(p) => m.nonce <= p.nonce
  /\ \A m, n : Ahead(u, m, n) /\ IsAction(m) /\ IsAction(n) => m.nonce <= n.nonce

Shown(s, p) ==
  /\ p.nonce <= s.asked.id
  /\ Answering(p) => s.last <= p.nonce
  /\ p.bar # NoPrompt => TurnReached(s, p.bar.turn)
  /\ p.cleared # NoPrompt => TurnReached(s, p.cleared.turn)

Coming(s, d, u, p) ==
  /\ \A m \in Among(d) : IsPrompt(m) =>
       /\ p.nonce < m.prompt.id /\ m.prompt.id <= s.asked.id /\ s.last < m.prompt.id
       /\ TurnReached(s, m.prompt.turn)
       /\ \A k \in Among(u) : IsAction(k) => k.nonce < m.prompt.id
  /\ \A m, n : Ahead(d, m, n) /\ IsPrompt(m) /\ IsPrompt(n) => m.prompt.id < n.prompt.id

DealsComing(s, d) ==
  /\ \A m \in Among(d) : IsDeal(m) => m.hand <= s.hand
  /\ \A m, n : Ahead(d, m, n) /\ IsDeal(m) /\ IsDeal(n) => m.hand < n.hand

Dialogue(s, d, u, p) ==
  Sent(s, u, p) /\ Shown(s, p) /\ Coming(s, d, u, p) /\ DealsComing(s, d)

(* A later state of the match, in which no other move has been accepted. *)
Later(s, n) ==
  /\ n.last = s.last
  /\ s.asked.id <= n.asked.id /\ s.turn <= n.turn /\ s.hand <= n.hand

----------------------------------------------------------------------------
(* What the fields hold. *)

LEMMA ServerFields ==
  ASSUME NEW s \in ServerStates
  PROVE  /\ s.hand \in Nat /\ s.turn \in Nat /\ s.last \in Nat
         /\ s.asked.id \in Nat /\ s.asked.turn \in Nat
         /\ s.asked \in Prompts
         /\ s.present \in Nat /\ s.askedIn \in Nat /\ s.dealtIn \in Nat
         /\ s.hand \in Hands /\ s.turn \in Turns
         /\ {s.present, s.askedIn, s.dealtIn} \subseteq Sessions
         /\ s.betting \in BOOLEAN /\ s.live \in BOOLEAN /\ s.seated \in BOOLEAN
         /\ s.clock \in BOOLEAN /\ s.bank \in BOOLEAN
         /\ s.gone \subseteq Sessions
BY GameClientAssumption DEF ServerStates, Prompts, Hands, Turns, Sessions

LEMMA DownFields ==
  ASSUME NEW m \in DownMessages
  PROVE  /\ m.prompt.id \in Nat /\ m.prompt.turn \in Nat /\ m.hand \in Nat
         /\ m.prompt \in Prompts /\ m.hand \in Hands /\ m.active \in BOOLEAN
BY GameClientAssumption DEF DownMessages, Prompts, Hands, Turns

LEMMA UpFields ==
  ASSUME NEW m \in UpMessages
  PROVE  m.nonce \in Nat /\ m.turn \in Nat /\ m.turn \in Turns
BY GameClientAssumption DEF UpMessages, Turns

LEMMA PageFields ==
  ASSUME NEW p \in PageStates
  PROVE  /\ p.nonce \in Nat /\ p.bar.turn \in Nat /\ p.cleared.turn \in Nat
         /\ p.bar \in Prompts /\ p.cleared \in Prompts
         /\ p.session \in Nat /\ p.session \in Sessions
         /\ p.decrypting \in SUBSET Hands /\ p.behind \in SUBSET Hands
         /\ p.cards \in Nat /\ p.blind \in Nat
         /\ p.joined \in BOOLEAN
BY GameClientAssumption DEF PageStates, Prompts, Hands, Turns, Sessions

LEMMA NothingPrompted == NoPrompt \in Prompts /\ NoPrompt.id = 0
BY GameClientAssumption DEF NoPrompt, Prompts, Turns

LEMMA NumbersUnderWay ==
  ASSUME NEW s, NEW d, NEW u, NEW p, Typed(s, d, u, p)
  PROVE  /\ \A m \in Among(d) : m.prompt.id \in Nat /\ m.prompt.turn \in Nat /\ m.hand \in Nat
         /\ \A m \in Among(u) : m.nonce \in Nat /\ m.turn \in Nat
         /\ p.nonce \in Nat /\ p.bar.turn \in Nat /\ p.cleared.turn \in Nat
         /\ s.hand \in Nat /\ s.turn \in Nat /\ s.last \in Nat /\ s.asked.id \in Nat
<1>1. Among(d) \subseteq DownMessages /\ Among(u) \subseteq UpMessages
  BY AmongTyped DEF Typed
<1> QED BY <1>1, ServerFields, DownFields, UpFields, PageFields DEF Typed

----------------------------------------------------------------------------
(* How a dialogue goes on. *)

LEMMA MatchGoesOn ==
  ASSUME NEW s, NEW d, NEW u, NEW p, Typed(s, d, u, p), Dialogue(s, d, u, p),
         NEW n \in ServerStates, Later(s, n)
  PROVE  Dialogue(n, d, u, p)
<1>1. /\ s.last \in Nat /\ s.asked.id \in Nat /\ s.turn \in Nat /\ s.hand \in Nat
      /\ n.last = s.last /\ n.asked.id \in Nat /\ n.turn \in Nat /\ n.hand \in Nat
      /\ s.asked.id <= n.asked.id /\ s.turn <= n.turn /\ s.hand <= n.hand
  BY ServerFields DEF Typed, Later
<1>2. \A t \in Nat : TurnReached(s, t) => TurnReached(n, t)
  BY <1>1 DEF TurnReached
<1>3. Sent(n, u, p)
  BY <1>1, <1>2, NumbersUnderWay DEF Dialogue, Sent
<1>4. Shown(n, p)
  BY <1>1, <1>2, NumbersUnderWay DEF Dialogue, Shown
<1>5. Coming(n, d, u, p)
  BY <1>1, <1>2, NumbersUnderWay DEF Dialogue, Coming
<1>6. DealsComing(n, d)
  BY <1>1, NumbersUnderWay DEF Dialogue, DealsComing
<1> QED BY <1>3, <1>4, <1>5, <1>6 DEF Dialogue

(* The match takes a message, whatever it is. *)
LEMMA MessageTaken ==
  ASSUME NEW s, NEW d, NEW u, NEW p, Typed(s, d, u, p), Dialogue(s, d, u, p), u # <<>>
  PROVE  Dialogue(s, d, Tail(u), p)
<1>1. /\ Among(Tail(u)) \subseteq Among(u)
      /\ \A m, n : Ahead(Tail(u), m, n) => Ahead(u, m, n)
  BY Taken DEF Typed
<1> QED BY <1>1 DEF Dialogue, Sent, Coming

(* It accepts the move it has taken. *)
LEMMA MoveAccepted ==
  ASSUME NEW s, NEW d, NEW u, NEW p, Typed(s, d, u, p), Dialogue(s, d, u, p),
         u # <<>>, IsAction(Head(u)),
         NEW n \in ServerStates, n.last = Head(u).nonce,
         n.asked.id = s.asked.id, n.turn = s.turn, n.hand = s.hand
  PROVE  Dialogue(n, d, Tail(u), p)
<1>1. Dialogue(s, d, Tail(u), p)
  BY MessageTaken
<1>2. /\ Head(u) \in Among(u) /\ Among(Tail(u)) \subseteq Among(u)
      /\ \A k \in Among(Tail(u)) : Ahead(u, Head(u), k)
  BY Taken DEF Typed
<1>3. \A t : TurnReached(s, t) <=> TurnReached(n, t)
  BY DEF TurnReached
<1>4. \A k \in Among(Tail(u)) : IsAction(k) => n.last <= k.nonce
  BY <1>2 DEF Dialogue, Sent
<1>5. Sent(n, Tail(u), p)
  BY <1>1, <1>3, <1>4 DEF Dialogue, Sent
<1>6. Shown(n, p)
  <2>1. Answering(p) => n.last <= p.nonce
    BY <1>2 DEF Dialogue, Sent
  <2> QED BY <1>3, <2>1 DEF Dialogue, Shown
<1>7. Coming(n, d, Tail(u), p)
  <2>1. \A m \in Among(d) : IsPrompt(m) => n.last < m.prompt.id
    BY <1>2 DEF Dialogue, Coming
  <2> QED BY <1>1, <1>3, <2>1 DEF Dialogue, Coming
<1>8. DealsComing(n, d)
  BY DEF Dialogue, DealsComing
<1> QED BY <1>5, <1>6, <1>7, <1>8 DEF Dialogue

(* It says something that is neither a prompt nor cards. *)
LEMMA ToldOther ==
  ASSUME NEW s, NEW d, NEW u, NEW p, Typed(s, d, u, p), Dialogue(s, d, u, p),
         NEW m \in DownMessages, ~IsPrompt(m), ~IsDeal(m)
  PROVE  Dialogue(s, Append(d, m), u, p)
<1>1. /\ Among(Append(d, m)) = Among(d) \cup {m}
      /\ \A x, y : Ahead(Append(d, m), x, y) => Ahead(d, x, y) \/ y = m
  BY Appended DEF Typed
<1>2. Coming(s, Append(d, m), u, p)
  BY <1>1 DEF Dialogue, Coming
<1>3. DealsComing(s, Append(d, m))
  BY <1>1 DEF Dialogue, DealsComing
<1> QED BY <1>2, <1>3 DEF Dialogue

(* It prompts the player anew. *)
LEMMA ToldPrompt ==
  ASSUME NEW s, NEW d, NEW u, NEW p, Typed(s, d, u, p), Dialogue(s, d, u, p),
         s.last <= s.asked.id,
         NEW n \in ServerStates, Later(s, n), s.asked.id < n.asked.id,
         NEW m \in DownMessages, IsPrompt(m), m.prompt.id = n.asked.id,
         TurnReached(n, m.prompt.turn)
  PROVE  Dialogue(n, Append(d, m), u, p)
<1>1. /\ Among(Append(d, m)) = Among(d) \cup {m}
      /\ \A x, y : Ahead(Append(d, m), x, y)
                     => Ahead(d, x, y) \/ (x \in Among(d) /\ y = m)
  BY Appended DEF Typed
<1>2. Dialogue(n, d, u, p)
  BY MatchGoesOn
<1>3. n.last = s.last
  BY DEF Later
<1>4. n.asked.id \in Nat /\ s.asked.id \in Nat /\ s.last \in Nat /\ p.nonce \in Nat
  BY ServerFields, PageFields DEF Typed
<1>5. \A x \in Among(d) : IsPrompt(x) => x.prompt.id < m.prompt.id
  BY <1>4, NumbersUnderWay DEF Dialogue, Coming
<1>6. \A k \in Among(u) : IsAction(k) => k.nonce < m.prompt.id
  BY <1>4, NumbersUnderWay DEF Dialogue, Sent
<1>7. /\ p.nonce < m.prompt.id /\ m.prompt.id <= n.asked.id /\ n.last < m.prompt.id
  BY <1>3, <1>4 DEF Dialogue, Shown
<1>8. Coming(n, Append(d, m), u, p)
  <2>1. \A x, y : Ahead(Append(d, m), x, y) /\ IsPrompt(x) /\ IsPrompt(y)
                    => x.prompt.id < y.prompt.id
    BY <1>1, <1>2, <1>5 DEF Dialogue, Coming
  <2>2. \A x \in Among(Append(d, m)) : IsPrompt(x) =>
          /\ p.nonce < x.prompt.id /\ x.prompt.id <= n.asked.id /\ n.last < x.prompt.id
          /\ TurnReached(n, x.prompt.turn)
          /\ \A k \in Among(u) : IsAction(k) => k.nonce < x.prompt.id
    <3>1. ASSUME NEW x \in Among(d), IsPrompt(x)
          PROVE  /\ p.nonce < x.prompt.id /\ x.prompt.id <= n.asked.id
                 /\ n.last < x.prompt.id /\ TurnReached(n, x.prompt.turn)
                 /\ \A k \in Among(u) : IsAction(k) => k.nonce < x.prompt.id
      BY <1>2, <3>1 DEF Dialogue, Coming
    <3> QED BY <1>1, <1>6, <1>7, <3>1
  <2> QED BY <2>1, <2>2 DEF Coming
<1>9. DealsComing(n, Append(d, m))
  <2>1. ~IsDeal(m)
    BY DEF IsPrompt, IsDeal
  <2> QED BY <1>1, <1>2, <2>1 DEF Dialogue, DealsComing
<1> QED BY <1>2, <1>8, <1>9 DEF Dialogue

(* It deals the cards of a new hand. *)
LEMMA ToldDeal ==
  ASSUME NEW s, NEW d, NEW u, NEW p, Typed(s, d, u, p), Dialogue(s, d, u, p),
         NEW n \in ServerStates, Later(s, n), s.hand < n.hand,
         NEW m \in DownMessages, IsDeal(m), m.hand = n.hand
  PROVE  Dialogue(n, Append(d, m), u, p)
<1>1. /\ Among(Append(d, m)) = Among(d) \cup {m}
      /\ \A x, y : Ahead(Append(d, m), x, y)
                     => Ahead(d, x, y) \/ (x \in Among(d) /\ y = m)
  BY Appended DEF Typed
<1>2. Dialogue(n, d, u, p)
  BY MatchGoesOn
<1>3. n.hand \in Nat /\ s.hand \in Nat
  BY ServerFields DEF Typed
<1>4. \A x \in Among(d) : IsDeal(x) => x.hand < m.hand
  BY <1>3, NumbersUnderWay DEF Dialogue, DealsComing
<1>5. DealsComing(n, Append(d, m))
  BY <1>1, <1>2, <1>3, <1>4 DEF Dialogue, DealsComing
<1>6. Coming(n, Append(d, m), u, p)
  <2>1. ~IsPrompt(m)
    BY DEF IsPrompt, IsDeal
  <2> QED BY <1>1, <1>2, <2>1 DEF Dialogue, Coming
<1> QED BY <1>2, <1>5, <1>6 DEF Dialogue

(* The page sends its answer to the prompt, or something that is no move. *)
LEMMA Answered ==
  ASSUME NEW s, NEW d, NEW u, NEW p, Typed(s, d, u, p), Dialogue(s, d, u, p),
         NEW e \in UpMessages,
         IsAction(e) => e.nonce = p.nonce /\ Answering(p) /\ TurnReached(s, e.turn)
  PROVE  Dialogue(s, d, Append(u, e), p)
<1>1. /\ Among(Append(u, e)) = Among(u) \cup {e}
      /\ \A x, y : Ahead(Append(u, e), x, y)
                     => Ahead(u, x, y) \/ (x \in Among(u) /\ y = e)
  BY Appended DEF Typed
<1>2. Sent(s, Append(u, e), p)
  <2>1. \A m \in Among(Append(u, e)) : IsAction(m) =>
          /\ s.last <= m.nonce /\ m.nonce <= s.asked.id
          /\ TurnReached(s, m.turn)
          /\ Answering(p) => m.nonce <= p.nonce
    <3>1. IsAction(e) => /\ s.last <= e.nonce /\ e.nonce <= s.asked.id
                         /\ e.nonce <= p.nonce
      BY PageFields DEF Dialogue, Shown, Typed
    <3> QED BY <1>1, <3>1 DEF Dialogue, Sent
  <2>2. \A x, y : Ahead(Append(u, e), x, y) /\ IsAction(x) /\ IsAction(y)
                    => x.nonce <= y.nonce
    BY <1>1 DEF Dialogue, Sent
  <2> QED BY <2>1, <2>2 DEF Sent
<1>3. Coming(s, d, Append(u, e), p)
  BY <1>1 DEF Dialogue, Coming
<1> QED BY <1>2, <1>3 DEF Dialogue

(* The page changes, but shows and may bring back no other prompt. *)
LEMMA PageGoesOn ==
  ASSUME NEW s, NEW d, NEW u, NEW p, Typed(s, d, u, p), Dialogue(s, d, u, p),
         NEW q, q.nonce = p.nonce,
         {q.bar, q.cleared} \subseteq {p.bar, p.cleared, NoPrompt}
  PROVE  Dialogue(s, d, u, q)
<1>1. Answering(q) => Answering(p)
  BY DEF Answering
<1>2. Sent(s, u, q)
  BY <1>1 DEF Dialogue, Sent
<1>3. Shown(s, q)
  BY <1>1 DEF Dialogue, Shown
<1>4. Coming(s, d, u, q)
  BY DEF Dialogue, Coming
<1> QED BY <1>2, <1>3, <1>4 DEF Dialogue

(* The page takes a message that is no prompt. *)
LEMMA MessageShown ==
  ASSUME NEW s, NEW d, NEW u, NEW p, Typed(s, d, u, p), Dialogue(s, d, u, p), d # <<>>
  PROVE  Dialogue(s, Tail(d), u, p)
<1>1. /\ Among(Tail(d)) \subseteq Among(d)
      /\ \A m, n : Ahead(Tail(d), m, n) => Ahead(d, m, n)
  BY Taken DEF Typed
<1> QED BY <1>1 DEF Dialogue, Coming, DealsComing

(* The page takes a prompt. *)
LEMMA PromptShown ==
  ASSUME NEW s, NEW d, NEW u, NEW p, Typed(s, d, u, p), Dialogue(s, d, u, p),
         d # <<>>, IsPrompt(Head(d)),
         NEW q, q.nonce = Head(d).prompt.id, q.bar = Head(d).prompt, q.cleared = NoPrompt
  PROVE  Dialogue(s, Tail(d), u, q)
<1>1. Dialogue(s, Tail(d), u, p)
  BY MessageShown
<1>2. /\ Head(d) \in Among(d) /\ Head(d) \in DownMessages
      /\ \A k \in Among(Tail(d)) : Ahead(d, Head(d), k)
  BY Taken DEF Typed
<1>3. /\ q.nonce <= s.asked.id /\ s.last < q.nonce /\ TurnReached(s, q.bar.turn)
      /\ \A k \in Among(u) : IsAction(k) => k.nonce < q.nonce
  BY <1>2 DEF Dialogue, Coming
<1>4. q.nonce \in Nat /\ s.last \in Nat /\ \A k \in Among(u) : k.nonce \in Nat
  BY <1>2, NumbersUnderWay
<1>5. Sent(s, u, q)
  BY <1>3, <1>4 DEF Dialogue, Sent
<1>6. Shown(s, q)
  BY <1>3, <1>4 DEF Shown
<1>7. Coming(s, Tail(d), u, q)
  <2>1. \A k \in Among(Tail(d)) : IsPrompt(k) => q.nonce < k.prompt.id
    BY <1>2 DEF Dialogue, Coming
  <2> QED BY <1>1, <2>1 DEF Dialogue, Coming
<1> QED BY <1>1, <1>5, <1>6, <1>7 DEF Dialogue

(* A new page, and nothing on its way to it. *)
LEMMA AnewFromHere ==
  ASSUME NEW s, NEW d, NEW u, NEW p, Typed(s, d, u, p), Dialogue(s, d, u, p),
         NEW q, q.nonce = 0, q.bar = NoPrompt, q.cleared = NoPrompt
  PROVE  Dialogue(s, <<>>, u, q)
<1>1. ~Answering(q)
  BY DEF Answering
<1>2. Sent(s, u, q)
  BY <1>1 DEF Dialogue, Sent
<1>3. Shown(s, q)
  BY <1>1, ServerFields DEF Shown, Typed
<1>4. Among(<<>>) = {} /\ \A m, n : ~Ahead(<<>>, m, n)
  BY EmptyQueue, AheadAmong
<1> QED BY <1>2, <1>3, <1>4 DEF Dialogue, Coming, DealsComing

----------------------------------------------------------------------------
(* What the match says, and how it goes on. *)

LEMMA MessagesAre ==
  ASSUME NEW s \in ServerStates
  PROVE  /\ Snapshot(s) \in DownMessages /\ Snapshot(s).op = "snapshot"
         /\ SessionKey(s) \in DownMessages /\ SessionKey(s).op = "key"
         /\ DealPrivate(s) \in DownMessages /\ DealPrivate(s).op = "deal"
         /\ DealPrivate(s).hand = s.hand
         /\ ActionRequired(s) \in DownMessages /\ ActionRequired(s).op = "prompt"
         /\ ActionRequired(s).prompt = s.asked
         /\ ActionFailed(s) \in DownMessages /\ ActionFailed(s).op = "action_failed"
         /\ OtherError(s) \in DownMessages /\ OtherError(s).op = "error"
<1>1. /\ s.hand \in Hands /\ s.asked \in Prompts /\ InHand(s) \in BOOLEAN
      /\ NoPrompt \in Prompts
  BY ServerFields, NothingPrompted DEF InHand
<1> QED BY <1>1 DEF Snapshot, SessionKey, DealPrivate, ActionRequired, ActionFailed,
                    OtherError, DownMessages

(* The message that tells how the game stands. *)
Announcement(n) == IF n.clock THEN ActionRequired(n) ELSE Snapshot(n)

LEMMA AnnouncementIs ==
  ASSUME NEW n \in ServerStates
  PROVE  /\ Announced(n) = <<Announcement(n)>>
         /\ Announcement(n) \in DownMessages
         /\ ~IsDeal(Announcement(n))
         /\ IsPrompt(Announcement(n)) <=> n.clock
         /\ n.clock => Announcement(n).prompt = n.asked
BY MessagesAre, ServerFields DEF Announced, Announcement, IsDeal, IsPrompt

SameHand(s, n) ==
  /\ n.hand = s.hand /\ n.live = s.live /\ n.seated = s.seated /\ n.last = s.last
  /\ n.present = s.present /\ n.gone = s.gone /\ n.dealtIn = s.dealtIn
Paused(s, n) ==
  ~n.clock /\ n.asked.id = s.asked.id /\ n.turn = s.turn /\ n.askedIn = s.askedIn
PromptedFrom(s, n) ==
  /\ n.clock = s.clock /\ n.betting = s.betting /\ n.turn = s.turn
  /\ n.asked.id = s.asked.id + 1 /\ n.asked.turn = s.turn /\ n.askedIn = s.present
AskedNext(s, n) ==
  /\ s.live /\ s.turn < MaxTurns
  /\ n.clock /\ n.betting = s.betting /\ n.turn = s.turn + 1
  /\ n.asked.id = s.asked.id + 1 /\ n.asked.turn = n.turn /\ n.askedIn = s.present

LEMMA PromptedIs ==
  ASSUME NEW s \in ServerStates
  PROVE  /\ Prompted(s) \in ServerStates
         /\ SameHand(s, Prompted(s))
         /\ PromptedFrom(s, Prompted(s))
<1>1. PICK a : a = [id |-> s.asked.id + 1, turn |-> s.turn,
                    facing |-> s.asked.facing, bank |-> s.bank]
  OBVIOUS
<1>2. a \in Prompts /\ a.id = s.asked.id + 1 /\ a.turn = s.turn
  BY <1>1, ServerFields DEF Prompts
<1>3. Prompted(s) = [s EXCEPT !.asked = a, !.askedIn = s.present]
  BY <1>1 DEF Prompted
<1>4. s.present \in Sessions
  BY ServerFields
<1> QED BY <1>2, <1>3, <1>4 DEF ServerStates, SameHand, PromptedFrom

LEMMA ContinuationIs ==
  ASSUME NEW s \in ServerStates, NEW n \in Continuations(s)
  PROVE  /\ n \in ServerStates
         /\ SameHand(s, n)
         /\ Paused(s, n) \/ AskedNext(s, n)
<1>1. CASE \E b \in BOOLEAN :
             n = [s EXCEPT !.clock = FALSE, !.asked.facing = FALSE, !.betting = b]
  <2>1. PICK b \in BOOLEAN :
               n = [s EXCEPT !.clock = FALSE, !.asked.facing = FALSE, !.betting = b]
    BY <1>1
  <2>2. PICK a : a = [s.asked EXCEPT !.facing = FALSE]
    OBVIOUS
  <2>3. a \in Prompts /\ a.id = s.asked.id
    BY <2>2, ServerFields DEF Prompts
  <2>4. n = [s EXCEPT !.clock = FALSE, !.asked = a, !.betting = b]
    BY <2>1, <2>2 DEF ServerStates
  <2> QED BY <2>3, <2>4 DEF ServerStates, SameHand, Paused
<1>2. CASE /\ s.live /\ s.turn < MaxTurns
           /\ \E f \in BOOLEAN :
                n = Prompted([s EXCEPT !.clock = TRUE, !.turn = @ + 1, !.asked.facing = f])
  <2>1. PICK f \in BOOLEAN :
               n = Prompted([s EXCEPT !.clock = TRUE, !.turn = @ + 1, !.asked.facing = f])
    BY <1>2
  <2>2. PICK a : a = [s.asked EXCEPT !.facing = f]
    OBVIOUS
  <2>3. a \in Prompts /\ a.id = s.asked.id
    BY <2>2, ServerFields DEF Prompts
  <2>4. PICK k \in Turns : k = s.turn + 1
    BY <1>2, ServerFields, GameClientAssumption DEF Turns
  <2>5. PICK r : r = [s EXCEPT !.clock = TRUE, !.turn = @ + 1, !.asked.facing = f]
    OBVIOUS
  <2>6. r = [s EXCEPT !.clock = TRUE, !.turn = k, !.asked = a]
    BY <2>2, <2>4, <2>5 DEF ServerStates
  <2>7. /\ r \in ServerStates /\ SameHand(s, r) /\ r.clock /\ r.betting = s.betting
        /\ r.turn = k /\ r.asked.id = s.asked.id /\ r.present = s.present
    BY <2>3, <2>4, <2>6 DEF ServerStates, SameHand
  <2>8. n = Prompted(r)
    BY <2>1, <2>5
  <2>9. n \in ServerStates /\ SameHand(r, n) /\ PromptedFrom(r, n)
    BY <2>7, <2>8, PromptedIs
  <2>10. SameHand(s, n)
    BY <2>7, <2>9 DEF SameHand
  <2>11. AskedNext(s, n)
    BY <1>2, <2>4, <2>7, <2>9 DEF PromptedFrom, AskedNext
  <2> QED BY <2>9, <2>10, <2>11
<1> QED BY <1>1, <1>2 DEF Continuations

LEMMA ContinuationIsLater ==
  ASSUME NEW s \in ServerStates, NEW n \in ServerStates,
         SameHand(s, n), Paused(s, n) \/ AskedNext(s, n)
  PROVE  Later(s, n)
BY ServerFields DEF SameHand, Paused, AskedNext, Later

(* How a message is delivered. *)
LEMMA DeliverOne ==
  ASSUME down \in Seq(DownMessages), NEW n, NEW m \in DownMessages
  PROVE  Deliver(n, <<m>>) = IF n.present = page.session /\ page.joined
                             THEN Append(down, m) ELSE down
<1>1. down \o <<m>> = Append(down, m)
  BY Appended
<1> QED BY <1>1 DEF Deliver

LEMMA DeliverTwo ==
  ASSUME down \in Seq(DownMessages), NEW n, NEW m \in DownMessages, NEW e \in DownMessages
  PROVE  Deliver(n, <<m>> \o <<e>>) = IF n.present = page.session /\ page.joined
                                      THEN Append(Append(down, m), e) ELSE down
<1>1. <<m>> \in Seq(DownMessages) /\ <<e>> \in Seq(DownMessages)
  BY QueueOfOne
<1>2. down \o (<<m>> \o <<e>>) = (down \o <<m>>) \o <<e>>
  BY <1>1, ConcatAssociative
<1>3. down \o <<m>> = Append(down, m) /\ Append(down, m) \in Seq(DownMessages)
  BY Appended
<1>4. Append(down, m) \o <<e>> = Append(Append(down, m), e)
  BY <1>3, Appended
<1> QED BY <1>2, <1>3, <1>4 DEF Deliver

(* The announcement keeps the dialogue, whether it is delivered or not. *)
LEMMA AnnouncedOrNot ==
  ASSUME NEW s, NEW d, NEW u, NEW p, Typed(s, d, u, p), Dialogue(s, d, u, p),
         s.last <= s.asked.id,
         NEW n \in ServerStates, SameHand(s, n), Paused(s, n) \/ AskedNext(s, n)
  PROVE  Dialogue(n, d, u, p) /\ Dialogue(n, Append(d, Announcement(n)), u, p)
<1>1. Later(s, n)
  BY ContinuationIsLater DEF Typed
<1>2. Dialogue(n, d, u, p)
  BY <1>1, MatchGoesOn
<1>3. Typed(n, d, u, p)
  BY DEF Typed
<1>4. /\ Announcement(n) \in DownMessages /\ ~IsDeal(Announcement(n))
      /\ IsPrompt(Announcement(n)) <=> n.clock
      /\ n.clock => Announcement(n).prompt = n.asked
  BY AnnouncementIs
<1>5. CASE Paused(s, n)
  BY <1>2, <1>3, <1>4, <1>5, ToldOther DEF Paused
<1>6. CASE AskedNext(s, n)
  <2>1. /\ s.asked.id < n.asked.id /\ TurnReached(n, n.asked.turn) /\ n.clock
    BY <1>6, ServerFields DEF AskedNext, TurnReached, Typed
  <2> QED BY <1>1, <1>2, <1>4, <2>1, ToldPrompt
<1> QED BY <1>2, <1>5, <1>6

----------------------------------------------------------------------------
(* The invariant. *)

(* The clock runs on a player who has live cards, and on a prompt he has   *)
(* not answered.                                                           *)
TurnKnown(s) ==
  /\ s.live => s.seated
  /\ s.betting => 1 <= s.hand
  /\ s.last <= s.asked.id
ClockKnown(s) ==
  s.clock => s.betting /\ s.live /\ 1 <= s.turn /\ s.last < s.asked.id

(* The turns that have been ended are those before the one the clock runs for. *)
EndedUpTo(o, k) == \A t \in 1..MaxTurns : (o[t].by # "nobody") <=> t <= k
Ended(s, o) ==
  \A t \in 1..MaxTurns :
    (o[t].by # "nobody") <=> (t < s.turn \/ (t = s.turn /\ ~s.clock))

(* A later turn was ended by a later nonce, and by a move for no later turn. *)
PlayedIn(o, t) == o[t].by = "player"
Applied(s, o) ==
  /\ \A t \in 1..MaxTurns : PlayedIn(o, t) =>
       o[t].nonce <= s.last /\ 1 <= o[t].prompted /\ o[t].prompted <= t
  /\ \A t, v \in 1..MaxTurns :
       t < v /\ PlayedIn(o, t) /\ PlayedIn(o, v) => o[t].nonce < o[v].nonce

(* The match knows of no later connection than the page's, and of this one *)
(* only when the page has joined.                                          *)
SessionKnown(s, d, p) ==
  /\ 1 <= p.session
  /\ s.present <= p.session /\ s.askedIn <= p.session /\ s.dealtIn <= p.session
  /\ p.session \in {s.present, s.askedIn, s.dealtIn} => p.joined
  /\ ~p.joined => d = <<>>

Joined(s, p) == s.present = p.session /\ p.joined

(* The prompt is on its way to the page, or shown, or answered; and the    *)
(* refusal of an answer is certain until the match has taken it.           *)
OnItsWay(s, d) == \E m \in Among(d) : IsPrompt(m) /\ m.prompt = s.asked
AnswerOut(s, u) == \E m \in Among(u) : IsAction(m) /\ m.nonce = s.asked.id
RefusalOut(d) == \E m \in Among(d) : m.op = "action_failed"
BarKept(s, d, u, p) ==
  Joined(s, p) /\ s.clock /\ s.askedIn = p.session =>
    \/ OnItsWay(s, d)
    \/ p.nonce = s.asked.id /\ p.bar = s.asked /\ p.cleared = NoPrompt
    \/ /\ p.nonce = s.asked.id /\ p.bar = NoPrompt /\ p.cleared = s.asked
       /\ AnswerOut(s, u) \/ RefusalOut(d)

(* The cards are on their way, or with the page: it cannot show them, or   *)
(* it has begun to decrypt them, leaving behind what was being decrypted.  *)
CardsOut(s, d) == \E m \in Among(d) : IsDeal(m) /\ m.hand = s.hand
NoCardsOut(d) == \A m \in Among(d) : ~IsDeal(m)
CardsWith(s, p) ==
  \/ p.blind = s.hand
  \/ /\ p.decrypting \subseteq {s.hand} \cup p.behind
     /\ s.hand \in p.decrypting \/ p.cards \in {s.hand} \cup p.behind
CardsKept(s, d, p) ==
  Joined(s, p) /\ InHand(s) /\ s.dealtIn = p.session =>
    \/ CardsOut(s, d)
    \/ NoCardsOut(d) /\ CardsWith(s, p)

(* What holds at every step of the match, also in the midst of one. *)
Underway(s, d, u, p, o) ==
  /\ Typed(s, d, u, p)
  /\ o \in [1..MaxTurns -> Outcomes]
  /\ TurnKnown(s)
  /\ Applied(s, o)
  /\ Dialogue(s, d, u, p)
  /\ SessionKnown(s, d, p)
  /\ CardsKept(s, d, p)

Sound(s, d, u, p, o) ==
  /\ Underway(s, d, u, p, o)
  /\ ClockKnown(s)
  /\ Ended(s, o)
  /\ BarKept(s, d, u, p)

Inv == Sound(server, down, up, page, outcome)

----------------------------------------------------------------------------
(* Steps of the match. *)

LEMMA CardsKeptWhenTold ==
  ASSUME NEW s, NEW d, NEW u, NEW p, Typed(s, d, u, p), CardsKept(s, d, p),
         NEW m \in DownMessages, ~IsDeal(m)
  PROVE  CardsKept(s, Append(d, m), p)
<1>1. Among(Append(d, m)) = Among(d) \cup {m}
  BY Appended DEF Typed
<1>2. CardsOut(s, d) => CardsOut(s, Append(d, m))
  BY <1>1 DEF CardsOut
<1>3. NoCardsOut(d) => NoCardsOut(Append(d, m))
  BY <1>1 DEF NoCardsOut
<1> QED BY <1>2, <1>3 DEF CardsKept

(* The hand goes on to others, to the player or to its end, and the player *)
(* is told.                                                                *)
LEMMA HandGoesOn ==
  ASSUME NEW s, NEW d, NEW u, NEW p, NEW o, Underway(s, d, u, p, o),
         s.betting, EndedUpTo(o, s.turn),
         NEW n \in Continuations(s),
         NEW e, e = IF Joined(n, p) THEN Append(d, Announcement(n)) ELSE d
  PROVE  Sound(n, e, u, p, o)
<1> DEFINE m == Announcement(n)
<1>1. s \in ServerStates /\ d \in Seq(DownMessages)
  BY DEF Underway, Typed
<1>2. n \in ServerStates /\ SameHand(s, n) /\ (Paused(s, n) \/ AskedNext(s, n))
  BY <1>1, ContinuationIs
<1>3. /\ m \in DownMessages /\ ~IsDeal(m)
      /\ IsPrompt(m) <=> n.clock
      /\ n.clock => m.prompt = n.asked
  BY <1>2, AnnouncementIs
<1>4. /\ Append(d, m) \in Seq(DownMessages) /\ Append(d, m) # <<>>
      /\ Among(Append(d, m)) = Among(d) \cup {m}
  BY <1>1, <1>3, Appended
<1> HIDE DEF m
<1>5. e = d \/ (e = Append(d, m) /\ Joined(n, p))
  BY DEF m
<1>6. Typed(n, e, u, p)
  BY <1>2, <1>4, <1>5 DEF Underway, Typed
<1>7. /\ s.last \in Nat /\ s.asked.id \in Nat /\ s.turn \in Nat
      /\ n.last = s.last /\ n.hand = s.hand /\ n.live = s.live /\ n.seated = s.seated
      /\ n.present = s.present /\ n.dealtIn = s.dealtIn
  BY <1>1, <1>2, ServerFields DEF SameHand
<1>8. s.last <= s.asked.id
  BY DEF Underway, TurnKnown
<1>9. TurnKnown(n)
  <2>1. (s.live => s.seated) /\ 1 <= s.hand
    BY DEF Underway, TurnKnown
  <2>2. n.asked.id = s.asked.id \/ n.asked.id = s.asked.id + 1
    BY <1>2 DEF Paused, AskedNext
  <2>3. s.last <= n.asked.id
    BY <1>7, <1>8, <2>2
  <2> QED BY <1>7, <2>1, <2>3 DEF TurnKnown
<1>10. ClockKnown(n)
  <2>1. CASE Paused(s, n)
    BY <2>1 DEF ClockKnown, Paused
  <2>2. CASE AskedNext(s, n)
    BY <1>7, <1>8, <2>2 DEF ClockKnown, AskedNext
  <2> QED BY <1>2, <2>1, <2>2
<1>11. Ended(n, o)
  <2>1. n.turn \in Nat /\ n.clock \in BOOLEAN
    BY <1>2, ServerFields
  <2>2. CASE Paused(s, n)
    BY <1>7, <2>1, <2>2 DEF Paused, Ended, EndedUpTo
  <2>3. CASE AskedNext(s, n)
    BY <1>7, <2>1, <2>3 DEF AskedNext, Ended, EndedUpTo
  <2> QED BY <1>2, <2>2, <2>3
<1>12. Applied(n, o)
  BY <1>7 DEF Underway, Applied
<1>13. Dialogue(n, e, u, p)
  <2>1. Dialogue(n, d, u, p) /\ Dialogue(n, Append(d, m), u, p)
    BY <1>2, <1>8, AnnouncedOrNot DEF m, Underway
  <2> QED BY <1>5, <2>1
<1>14. SessionKnown(n, e, p)
  <2>1. n.askedIn \in {s.askedIn, s.present}
    BY <1>2 DEF Paused, AskedNext
  <2>2. ~p.joined => e = <<>>
    BY <1>5 DEF Underway, SessionKnown, Joined
  <2> QED BY <1>7, <2>1, <2>2 DEF Underway, SessionKnown
<1>15. BarKept(n, e, u, p)
  <2>1. SUFFICES ASSUME Joined(n, p), n.clock
                 PROVE  OnItsWay(n, e)
    BY DEF BarKept
  <2>2. e = Append(d, m)
    BY <2>1 DEF m
  <2> QED BY <1>3, <1>4, <2>1, <2>2 DEF OnItsWay
<1>16. CardsKept(n, e, p)
  <2>1. CardsKept(s, d, p) /\ CardsKept(s, Append(d, m), p)
    BY <1>3, CardsKeptWhenTold DEF Underway
  <2>2. CardsKept(s, e, p)
    BY <1>5, <2>1
  <2> QED BY <1>7, <2>2 DEF CardsKept, CardsWith, Joined, InHand, CardsOut
<1>17. o \in [1..MaxTurns -> Outcomes]
  BY DEF Underway
<1> QED BY <1>6, <1>9, <1>10, <1>11, <1>12, <1>13, <1>14, <1>15, <1>16, <1>17
        DEF Sound, Underway

(* The match takes a message that no waiting page depends on. *)
LEMMA TakenQuietly ==
  ASSUME NEW s, NEW d, NEW u, NEW p, NEW o, Sound(s, d, u, p, o), u # <<>>,
         Joined(s, p) /\ s.clock /\ IsAction(Head(u)) => Head(u).nonce # s.asked.id
  PROVE  Sound(s, d, Tail(u), p, o)
<1>1. /\ Tail(u) \in Seq(UpMessages)
      /\ Among(u) = Among(Tail(u)) \cup {Head(u)}
  BY Taken DEF Sound, Underway, Typed
<1>2. Typed(s, d, Tail(u), p)
  BY <1>1 DEF Sound, Underway, Typed
<1>3. Dialogue(s, d, Tail(u), p)
  BY MessageTaken DEF Sound, Underway
<1>4. BarKept(s, d, Tail(u), p)
  BY <1>1 DEF Sound, BarKept, AnswerOut
<1> QED BY <1>2, <1>3, <1>4 DEF Sound, Underway

(* A message that is neither a prompt nor cards nor of use to the bar. *)
LEMMA ToldQuietly ==
  ASSUME NEW s, NEW d, NEW u, NEW p, NEW o, Sound(s, d, u, p, o),
         NEW m \in DownMessages, ~IsPrompt(m), ~IsDeal(m), Joined(s, p)
  PROVE  Sound(s, Append(d, m), u, p, o)
<1>1. /\ Append(d, m) \in Seq(DownMessages)
      /\ Among(Append(d, m)) = Among(d) \cup {m}
  BY Appended DEF Sound, Underway, Typed
<1>2. Typed(s, Append(d, m), u, p)
  BY <1>1 DEF Sound, Underway, Typed
<1>3. Dialogue(s, Append(d, m), u, p)
  BY ToldOther DEF Sound, Underway
<1>4. CardsKept(s, Append(d, m), p)
  BY CardsKeptWhenTold DEF Sound, Underway
<1>5. SessionKnown(s, Append(d, m), p)
  BY DEF Sound, Underway, SessionKnown, Joined
<1>6. BarKept(s, Append(d, m), u, p)
  BY <1>1 DEF Sound, BarKept, OnItsWay, RefusalOut
<1> QED BY <1>2, <1>3, <1>4, <1>5, <1>6 DEF Sound, Underway

(* It refuses a move, and says so to the page if it is joined. *)
LEMMA MoveRefused ==
  ASSUME NEW s, NEW d, NEW u, NEW p, NEW o, Sound(s, d, u, p, o), u # <<>>,
         NEW m \in DownMessages, m.op = "action_failed",
         NEW e, e = IF Joined(s, p) THEN Append(d, m) ELSE d
  PROVE  Sound(s, e, Tail(u), p, o)
<1>1. CASE ~Joined(s, p)
  BY <1>1, TakenQuietly
<1>2. CASE Joined(s, p)
  <2>1. /\ Append(d, m) \in Seq(DownMessages)
        /\ Among(Append(d, m)) = Among(d) \cup {m}
        /\ Tail(u) \in Seq(UpMessages)
    BY Appended, Taken DEF Sound, Underway, Typed
  <2>2. e = Append(d, m) /\ ~IsPrompt(m) /\ ~IsDeal(m)
    BY <1>2 DEF IsPrompt, IsDeal
  <2>3. Sound(s, e, u, p, o)
    BY <1>2, <2>2, ToldQuietly
  <2>4. Typed(s, e, Tail(u), p)
    BY <2>1, <2>2 DEF Sound, Underway, Typed
  <2>5. Dialogue(s, e, Tail(u), p)
    BY <2>3, MessageTaken DEF Sound, Underway
  <2>6. RefusalOut(e)
    BY <2>1, <2>2 DEF RefusalOut
  <2>7. BarKept(s, e, Tail(u), p)
    BY <2>3, <2>6 DEF Sound, BarKept
  <2> QED BY <2>3, <2>4, <2>5, <2>7 DEF Sound, Underway
<1> QED BY <1>1, <1>2

(* The player is prompted again: his time bank is spent. *)
LEMMA PromptedAgain ==
  ASSUME NEW s, NEW d, NEW u, NEW p, NEW o, Sound(s, d, u, p, o), s.clock,
         NEW n, n = Prompted([s EXCEPT !.bank = FALSE]),
         NEW e, e = IF Joined(n, p) THEN Append(d, Announcement(n)) ELSE d
  PROVE  Sound(n, e, u, p, o)
<1> DEFINE m == Announcement(n)
<1>1. PICK r : r = [s EXCEPT !.bank = FALSE]
  OBVIOUS
<1>2. /\ r \in ServerStates /\ SameHand(s, r) /\ PromptedFrom(r, n) /\ SameHand(r, n)
      /\ r.clock = s.clock /\ r.betting = s.betting /\ r.turn = s.turn
      /\ r.asked = s.asked /\ r.present = s.present /\ n \in ServerStates
  <2>1. /\ r \in ServerStates /\ SameHand(s, r) /\ r.clock = s.clock /\ r.betting = s.betting
        /\ r.turn = s.turn /\ r.asked = s.asked /\ r.present = s.present
    BY <1>1 DEF Sound, Underway, Typed, ServerStates, SameHand
  <2> QED BY <1>1, <2>1, PromptedIs
<1>3. /\ n.hand = s.hand /\ n.live = s.live /\ n.seated = s.seated /\ n.last = s.last
      /\ n.present = s.present /\ n.dealtIn = s.dealtIn /\ n.clock = s.clock
      /\ n.betting = s.betting /\ n.turn = s.turn /\ n.asked.id = s.asked.id + 1
      /\ n.askedIn = s.present /\ n.asked.turn = s.turn
  BY <1>2 DEF SameHand, PromptedFrom
<1>4. /\ m \in DownMessages /\ ~IsDeal(m)
      /\ IsPrompt(m) /\ m.prompt = n.asked
  BY <1>2, <1>3, AnnouncementIs
<1> HIDE DEF m
<1>5. /\ s.last \in Nat /\ s.asked.id \in Nat /\ s.turn \in Nat
      /\ d \in Seq(DownMessages) /\ s \in ServerStates
  BY ServerFields DEF Sound, Underway, Typed
<1>6. /\ Append(d, m) \in Seq(DownMessages)
      /\ Among(Append(d, m)) = Among(d) \cup {m}
  BY <1>4, <1>5, Appended
<1>7. e = d \/ (e = Append(d, m) /\ Joined(n, p))
  BY DEF m
<1>8. Typed(n, e, u, p)
  BY <1>2, <1>6, <1>7 DEF Sound, Underway, Typed
<1>9. s.last < s.asked.id /\ s.asked.id < n.asked.id /\ TurnReached(n, n.asked.turn)
  BY <1>3, <1>5 DEF Sound, ClockKnown, TurnReached
<1>10. Later(s, n)
  BY <1>3, <1>5, ServerFields DEF Later
<1>11. Dialogue(n, e, u, p)
  <2>1. Dialogue(n, d, u, p)
    BY <1>2, <1>10, MatchGoesOn DEF Sound, Underway
  <2>2. s.last <= s.asked.id
    BY <1>5, <1>9
  <2>3. Dialogue(n, Append(d, m), u, p)
    BY <1>2, <1>4, <1>9, <1>10, <2>2, ToldPrompt DEF Sound, Underway
  <2> QED BY <1>7, <2>1, <2>3
<1>12. TurnKnown(n) /\ ClockKnown(n)
  <2>1. n.asked.id \in Nat
    BY <1>2, ServerFields
  <2>2. s.last < n.asked.id /\ s.last <= n.asked.id
    BY <1>5, <1>9, <2>1
  <2> QED BY <1>3, <2>2 DEF Sound, Underway, TurnKnown, ClockKnown
<1>13. Ended(n, o) /\ Applied(n, o)
  BY <1>3 DEF Sound, Underway, Ended, Applied
<1>14. SessionKnown(n, e, p)
  BY <1>3, <1>7 DEF Sound, Underway, SessionKnown, Joined
<1>15. BarKept(n, e, u, p)
  <2>1. SUFFICES ASSUME Joined(n, p), n.clock
                 PROVE  OnItsWay(n, e)
    BY DEF BarKept
  <2>2. e = Append(d, m)
    BY <2>1 DEF m
  <2> QED BY <1>4, <1>6, <2>2 DEF OnItsWay
<1>16. CardsKept(n, e, p)
  <2>1. CardsKept(s, d, p) /\ CardsKept(s, Append(d, m), p)
    BY <1>4, CardsKeptWhenTold DEF Sound, Underway
  <2>2. CardsKept(s, e, p)
    BY <1>7, <2>1
  <2> QED BY <1>3, <2>2 DEF CardsKept, CardsWith, Joined, InHand, CardsOut
<1> QED BY <1>8, <1>11, <1>12, <1>13, <1>14, <1>15, <1>16 DEF Sound, Underway

(* The player loses his seat or his presence, and his hand with the seat. *)
LEMMA SeatOrPresenceLost ==
  ASSUME NEW s, NEW d, NEW u, NEW p, NEW o, Sound(s, d, u, p, o),
         NEW n \in ServerStates,
         n.betting = s.betting, n.hand = s.hand, n.turn = s.turn, n.clock = s.clock,
         n.asked = s.asked, n.askedIn = s.askedIn, n.dealtIn = s.dealtIn, n.last = s.last,
         n.present \in {s.present, 0},
         (n.live = s.live /\ n.seated = s.seated) \/ (~n.live /\ ~InHand(s))
  PROVE  Sound(n, d, u, p, o)
<1>1. Typed(n, d, u, p) /\ s \in ServerStates
  BY DEF Sound, Underway, Typed
<1>2. Later(s, n)
  BY <1>1, ServerFields DEF Later
<1>3. Dialogue(n, d, u, p)
  BY <1>2, MatchGoesOn DEF Sound, Underway
<1>4. TurnKnown(n) /\ ClockKnown(n)
  BY DEF Sound, Underway, TurnKnown, ClockKnown, InHand
<1>5. Ended(n, o) /\ Applied(n, o)
  BY DEF Sound, Underway, Ended, Applied
<1>6. 1 <= p.session /\ p.session \in Nat
  BY PageFields DEF Sound, Underway, Typed, SessionKnown
<1>7. SessionKnown(n, d, p)
  BY <1>6 DEF Sound, Underway, SessionKnown
<1>8. Joined(n, p) => Joined(s, p)
  BY <1>6 DEF Joined
<1>9. BarKept(n, d, u, p)
  BY <1>8 DEF Sound, BarKept, OnItsWay, AnswerOut
<1>10. CardsKept(n, d, p)
  BY <1>8 DEF Sound, Underway, CardsKept, CardsWith, CardsOut, InHand
<1> QED BY <1>1, <1>3, <1>4, <1>5, <1>7, <1>9, <1>10 DEF Sound, Underway

(* A turn for which the clock runs ends: it is the last that has ended. *)
LEMMA TurnIsEnded ==
  ASSUME NEW s, NEW d, NEW u, NEW p, NEW o, Sound(s, d, u, p, o), s.clock,
         NEW r \in ServerStates,
         r.betting = s.betting, r.hand = s.hand, r.seated = s.seated, r.turn = s.turn,
         r.asked = s.asked, r.askedIn = s.askedIn, r.dealtIn = s.dealtIn,
         r.present = s.present, s.last <= r.last, r.last <= s.asked.id,
         NEW v \in Seq(UpMessages), Dialogue(r, d, v, p),
         NEW how \in Outcomes, how.by # "nobody",
         how.by = "player" => /\ how.nonce = r.last /\ s.last < r.last
                              /\ 1 <= how.prompted /\ how.prompted <= s.turn
  PROVE  LET done == [o EXCEPT ![s.turn] = how]
         IN  Underway(r, d, v, p, done) /\ EndedUpTo(done, r.turn)
<1>1. s \in ServerStates /\ o \in [1..MaxTurns -> Outcomes]
  BY DEF Sound, Underway, Typed
<1>2. /\ s.last \in Nat /\ r.last \in Nat /\ s.turn \in Turns
      /\ s.betting /\ s.live /\ 1 <= s.turn
  BY <1>1, ServerFields DEF Sound, ClockKnown
<1>3. s.turn \in 1..MaxTurns
  BY <1>2, GameClientAssumption DEF Turns
<1>4. PICK x : x = [o EXCEPT ![s.turn] = how]
  OBVIOUS
<1>5. /\ x \in [1..MaxTurns -> Outcomes] /\ x[s.turn] = how
      /\ \A t \in 1..MaxTurns : t # s.turn => x[t] = o[t]
  BY <1>1, <1>3, <1>4
<1>6. \A t \in 1..MaxTurns : t \in Nat
  BY GameClientAssumption
<1>7. EndedUpTo(x, r.turn)
  <2>1. \A t \in 1..MaxTurns : (o[t].by # "nobody") <=> t < s.turn
    BY DEF Sound, Ended
  <2> QED BY <1>3, <1>5, <1>6, <2>1 DEF EndedUpTo
<1>8. Applied(r, x)
  <2>1. \A t \in 1..MaxTurns : o[t].nonce \in Nat /\ x[t].nonce \in Nat
    BY <1>1, <1>5 DEF Outcomes
  <2>2. \A t \in 1..MaxTurns : PlayedIn(x, t) =>
          x[t].nonce <= r.last /\ 1 <= x[t].prompted /\ x[t].prompted <= t
    <3>1. ASSUME NEW t \in 1..MaxTurns, PlayedIn(x, t), t # s.turn
          PROVE  x[t].nonce <= r.last /\ 1 <= x[t].prompted /\ x[t].prompted <= t
      <4>1. /\ o[t].nonce <= s.last /\ 1 <= o[t].prompted /\ o[t].prompted <= t
            /\ x[t] = o[t]
        BY <1>5, <3>1 DEF Sound, Underway, Applied, PlayedIn
      <4> QED BY <1>2, <2>1, <4>1
    <3>2. ASSUME PlayedIn(x, s.turn)
          PROVE  /\ x[s.turn].nonce <= r.last
                 /\ 1 <= x[s.turn].prompted /\ x[s.turn].prompted <= s.turn
      BY <1>2, <1>5, <3>2 DEF PlayedIn
    <3> QED BY <3>1, <3>2
  <2>3. ASSUME NEW t \in 1..MaxTurns, NEW w \in 1..MaxTurns, t < w,
               PlayedIn(x, t), PlayedIn(x, w)
        PROVE  x[t].nonce < x[w].nonce
    <3>1. w <= s.turn
      BY <1>2, <1>7, <2>3 DEF EndedUpTo, PlayedIn
    <3>2. t # s.turn /\ x[t] = o[t] /\ PlayedIn(o, t)
      BY <1>5, <1>6, <1>3, <2>3, <3>1 DEF PlayedIn
    <3>3. CASE w = s.turn
      <4>1. x[w].nonce = r.last /\ s.last < r.last
        BY <1>5, <2>3, <3>3 DEF PlayedIn
      <4>2. o[t].nonce <= s.last
        BY <3>2 DEF Sound, Underway, Applied
      <4> QED BY <1>2, <2>1, <3>2, <4>1, <4>2
    <3>4. CASE w # s.turn
      <4>1. x[w] = o[w] /\ PlayedIn(o, w)
        BY <1>5, <2>3, <3>4 DEF PlayedIn
      <4> QED BY <2>3, <3>2, <4>1 DEF Sound, Underway, Applied
    <3> QED BY <3>3, <3>4
  <2> QED BY <2>2, <2>3 DEF Applied
<1>9. Typed(r, d, v, p)
  BY DEF Sound, Underway, Typed
<1>10. TurnKnown(r)
  BY <1>2 DEF Sound, Underway, TurnKnown
<1>11. SessionKnown(r, d, p)
  BY DEF Sound, Underway, SessionKnown
<1>12. CardsKept(r, d, p)
  BY <1>2 DEF Sound, Underway, CardsKept, CardsWith, Joined, InHand, CardsOut
<1> QED BY <1>4, <1>5, <1>7, <1>8, <1>9, <1>10, <1>11, <1>12 DEF Underway

----------------------------------------------------------------------------
(* Every action of the match keeps the invariant. *)

LEMMA StartHandKeeps == Inv /\ StartHand => Inv'
<1> SUFFICES ASSUME Inv, StartHand PROVE Inv'
  OBVIOUS
<1>1. Sound(server, down, up, page, outcome)
  BY DEF Inv
<1>2. server \in ServerStates /\ down \in Seq(DownMessages) /\ ~server.betting
  BY <1>1 DEF Sound, Underway, Typed, StartHand
<1>3. PICK s : s = [server EXCEPT !.betting = TRUE, !.hand = @ + 1, !.live = server.seated,
                          !.dealtIn = IF server.seated THEN server.present ELSE 0]
  OBVIOUS
<1>4. PICK n \in Continuations(s) :
        /\ server' = n
        /\ down' = Deliver(n, (IF s.live THEN <<DealPrivate(s)>> ELSE <<>>) \o Announced(n))
  BY <1>3 DEF StartHand
<1>5. UNCHANGED <<up, page, outcome>>
  BY DEF StartHand
<1>6. PICK h \in Hands : h = server.hand + 1 /\ 1 <= h /\ server.hand < h
  <2>1. server.hand \in Nat /\ MaxHands \in Nat
    BY <1>2, ServerFields, GameClientAssumption
  <2>2. server.hand < MaxHands
    BY DEF StartHand
  <2>3. server.hand + 1 \in Hands /\ 1 <= server.hand + 1 /\ server.hand < server.hand + 1
    BY <2>1, <2>2 DEF Hands
  <2> QED BY <2>3
<1>7. PICK k \in Sessions : k = (IF server.seated THEN server.present ELSE 0)
  BY <1>2, ServerFields, GameClientAssumption DEF Sessions
<1>8. s = [server EXCEPT !.betting = TRUE, !.hand = h, !.live = server.seated, !.dealtIn = k]
  BY <1>3, <1>6, <1>7 DEF ServerStates
<1>9. /\ s \in ServerStates
      /\ s.betting /\ s.hand = h /\ s.live = server.seated /\ s.seated = server.seated
      /\ s.dealtIn = k /\ s.turn = server.turn /\ s.clock = server.clock
      /\ s.asked = server.asked /\ s.askedIn = server.askedIn /\ s.last = server.last
      /\ s.present = server.present
  BY <1>2, <1>8, ServerFields DEF ServerStates
<1>10. PICK m : m = DealPrivate(s)
  OBVIOUS
<1>11. m \in DownMessages /\ IsDeal(m) /\ m.hand = h
  BY <1>9, <1>10, MessagesAre DEF IsDeal
<1>12. PICK d : d = IF s.live /\ Joined(s, page) THEN Append(down, m) ELSE down
  OBVIOUS
<1>13. /\ Append(down, m) \in Seq(DownMessages)
       /\ Among(Append(down, m)) = Among(down) \cup {m}
  BY <1>2, <1>11, Appended
<1>14. Typed(s, d, up, page) /\ outcome \in [1..MaxTurns -> Outcomes]
  BY <1>1, <1>9, <1>12, <1>13 DEF Sound, Underway, Typed
<1>15. TurnKnown(s) /\ Applied(s, outcome)
  BY <1>1, <1>6, <1>9 DEF Sound, Underway, TurnKnown, Applied
<1>16. EndedUpTo(outcome, s.turn)
  <2>1. ~server.clock
    BY <1>1, <1>2 DEF Sound, ClockKnown
  <2>2. server.turn \in Nat /\ \A t \in 1..MaxTurns : t \in Nat
    BY <1>2, ServerFields, GameClientAssumption
  <2> QED BY <1>1, <1>9, <2>1, <2>2 DEF Sound, Ended, EndedUpTo
<1>17. Dialogue(s, d, up, page)
  <2>1. Later(server, s) /\ server.hand < s.hand
    BY <1>2, <1>6, <1>9, ServerFields DEF Later
  <2>2. Typed(server, down, up, page) /\ Dialogue(server, down, up, page)
    BY <1>1 DEF Sound, Underway
  <2>3. Dialogue(s, down, up, page)
    BY <1>9, <2>1, <2>2, MatchGoesOn
  <2>4. Dialogue(s, Append(down, m), up, page)
    BY <1>9, <1>11, <2>1, <2>2, ToldDeal
  <2> QED BY <1>12, <2>3, <2>4
<1>18. SessionKnown(s, d, page)
  <2>1. page.session \in Nat /\ 1 <= page.session /\ server.present <= page.session
    BY <1>1, PageFields DEF Sound, Underway, Typed, SessionKnown
  <2>2. k <= page.session /\ (page.session = k => page.joined)
    BY <1>1, <1>7, <2>1 DEF Sound, Underway, SessionKnown
  <2>3. ~page.joined => d = <<>>
    BY <1>1, <1>12 DEF Sound, Underway, SessionKnown, Joined
  <2> QED BY <1>1, <1>9, <2>2, <2>3 DEF Sound, Underway, SessionKnown
<1>19. CardsKept(s, d, page)
  <2>1. SUFFICES ASSUME Joined(s, page), InHand(s)
                 PROVE  CardsOut(s, d)
    BY DEF CardsKept
  <2>2. d = Append(down, m)
    BY <1>12, <2>1 DEF InHand
  <2> QED BY <1>9, <1>11, <1>13, <2>2 DEF CardsOut
<1>20. Underway(s, d, up, page, outcome)
  BY <1>14, <1>15, <1>17, <1>18, <1>19 DEF Underway
<1>21. n \in ServerStates /\ n.present = s.present
  BY <1>9, ContinuationIs DEF SameHand
<1>22. Announced(n) = <<Announcement(n)>> /\ Announcement(n) \in DownMessages
  BY <1>21, AnnouncementIs
<1>23. down' = IF Joined(n, page) THEN Append(d, Announcement(n)) ELSE d
  <2>1. CASE s.live
    <3>1. down' = Deliver(n, <<m>> \o <<Announcement(n)>>)
      BY <1>4, <1>10, <1>22, <2>1
    <3>2. down' = IF n.present = page.session /\ page.joined
                  THEN Append(Append(down, m), Announcement(n)) ELSE down
      BY <1>2, <1>11, <1>22, <3>1, DeliverTwo
    <3> QED BY <1>12, <1>21, <2>1, <3>2 DEF Joined
  <2>2. CASE ~s.live
    <3>1. <<>> \o <<Announcement(n)>> = <<Announcement(n)>>
      BY <1>22, QueueOfOne, ConcatEmptySeq
    <3>2. down' = Deliver(n, <<Announcement(n)>>)
      BY <1>4, <1>22, <2>2, <3>1
    <3> QED BY <1>2, <1>12, <1>22, <2>2, <3>2, DeliverOne DEF Joined
  <2> QED BY <2>1, <2>2
<1>24. Sound(n, down', up, page, outcome)
  BY <1>9, <1>16, <1>20, <1>23, HandGoesOn
<1> QED BY <1>4, <1>5, <1>24 DEF Inv

LEMMA OthersActKeeps == Inv /\ OthersAct => Inv'
<1> SUFFICES ASSUME Inv, OthersAct PROVE Inv'
  OBVIOUS
<1>1. Sound(server, down, up, page, outcome)
  BY DEF Inv
<1>2. server \in ServerStates /\ down \in Seq(DownMessages) /\ server.betting /\ ~server.clock
  BY <1>1 DEF Sound, Underway, Typed, OthersAct
<1>3. PICK n \in Continuations(server) :
        server' = n /\ down' = Deliver(n, Announced(n))
  BY DEF OthersAct
<1>4. UNCHANGED <<up, page, outcome>>
  BY DEF OthersAct
<1>5. n \in ServerStates
  BY <1>2, ContinuationIs
<1>6. Announced(n) = <<Announcement(n)>> /\ Announcement(n) \in DownMessages
  BY <1>5, AnnouncementIs
<1>7. down' = IF Joined(n, page) THEN Append(down, Announcement(n)) ELSE down
  BY <1>2, <1>3, <1>6, DeliverOne DEF Joined
<1>8. EndedUpTo(outcome, server.turn)
  <2>1. server.turn \in Nat /\ \A t \in 1..MaxTurns : t \in Nat
    BY <1>2, ServerFields, GameClientAssumption
  <2> QED BY <1>1, <1>2, <2>1 DEF Sound, Ended, EndedUpTo
<1>9. Sound(n, down', up, page, outcome)
  BY <1>1, <1>2, <1>7, <1>8, HandGoesOn DEF Sound
<1> QED BY <1>3, <1>4, <1>9 DEF Inv

(* A turn ends, by the clock or by a move the match has accepted. *)
LEMMA EndTurnKeeps ==
  ASSUME Sound(server, down, up, page, outcome), server.clock,
         NEW s \in ServerStates,
         s.betting = server.betting, s.hand = server.hand, s.seated = server.seated,
         s.turn = server.turn, s.asked = server.asked, s.askedIn = server.askedIn,
         s.dealtIn = server.dealtIn, s.present = server.present,
         server.last <= s.last, s.last <= server.asked.id,
         NEW v \in Seq(UpMessages), Dialogue(s, down, v, page),
         NEW how \in Outcomes, how.by # "nobody",
         how.by = "player" => /\ how.nonce = s.last /\ server.last < s.last
                              /\ 1 <= how.prompted /\ how.prompted <= server.turn,
         NEW folds \in BOOLEAN, EndTurn(s, folds, how)
  PROVE  Sound(server', down', v, page, outcome')
<1>1. down \in Seq(DownMessages) /\ server.betting
  BY DEF Sound, Underway, Typed, ClockKnown
<1>2. PICK r : r = [s EXCEPT !.live = ~folds]
  OBVIOUS
<1>3. /\ r \in ServerStates
      /\ r.betting = s.betting /\ r.hand = s.hand /\ r.seated = s.seated
      /\ r.turn = s.turn /\ r.asked = s.asked /\ r.askedIn = s.askedIn
      /\ r.dealtIn = s.dealtIn /\ r.present = s.present /\ r.last = s.last
  BY <1>2 DEF ServerStates
<1>4. Typed(s, down, v, page)
  BY DEF Sound, Underway, Typed
<1>5. Dialogue(r, down, v, page)
  BY <1>3, <1>4, ServerFields, MatchGoesOn DEF Later
<1>6. PICK n \in Continuations(r) :
        server' = n /\ down' = Deliver(n, Announced(n))
  BY <1>2 DEF EndTurn
<1>7. PICK done : done = [outcome EXCEPT ![server.turn] = how]
  OBVIOUS
<1>8. outcome' = done
  BY <1>7 DEF EndTurn
<1>9. Underway(r, down, v, page, done) /\ EndedUpTo(done, r.turn)
  <2>1. /\ r.betting = server.betting /\ r.hand = server.hand /\ r.seated = server.seated
        /\ r.turn = server.turn /\ r.asked = server.asked /\ r.askedIn = server.askedIn
        /\ r.dealtIn = server.dealtIn /\ r.present = server.present
        /\ server.last <= r.last /\ r.last <= server.asked.id
        /\ how.by = "player" => /\ how.nonce = r.last /\ server.last < r.last
                                /\ 1 <= how.prompted /\ how.prompted <= server.turn
    BY <1>3
  <2> QED BY <1>3, <1>5, <1>7, <2>1, TurnIsEnded
<1>10. n \in ServerStates
  BY <1>3, <1>6, ContinuationIs
<1>11. Announced(n) = <<Announcement(n)>> /\ Announcement(n) \in DownMessages
  BY <1>10, AnnouncementIs
<1>12. down' = IF Joined(n, page) THEN Append(down, Announcement(n)) ELSE down
  BY <1>1, <1>6, <1>11, DeliverOne DEF Joined
<1>13. Sound(n, down', v, page, done)
  BY <1>1, <1>3, <1>9, <1>12, HandGoesOn
<1> QED BY <1>6, <1>8, <1>13

LEMMA ClockRunsOutKeeps == Inv /\ ClockRunsOut => Inv'
<1> SUFFICES ASSUME Inv, ClockRunsOut PROVE Inv'
  OBVIOUS
<1>1. Sound(server, down, up, page, outcome) /\ server.clock
  BY DEF Inv, ClockRunsOut
<1>2. /\ server \in ServerStates /\ up \in Seq(UpMessages)
      /\ Dialogue(server, down, up, page) /\ server.last <= server.asked.id
      /\ server.last \in Nat
  BY <1>1, ServerFields DEF Sound, Underway, Typed, TurnKnown
<1>3. PICK how : how = [Undecided EXCEPT !.by = "clock"]
  OBVIOUS
<1>4. how \in Outcomes /\ how.by = "clock"
  BY <1>3, GameClientAssumption DEF Undecided, Outcomes, Turns
<1>5. PICK folds \in BOOLEAN : EndTurn(server, folds, how)
  BY <1>3 DEF ClockRunsOut
<1>6. UNCHANGED <<up, page>>
  BY DEF ClockRunsOut
<1>7. Sound(server', down', up, page, outcome')
  BY <1>1, <1>2, <1>4, <1>5, EndTurnKeeps
<1> QED BY <1>6, <1>7 DEF Inv

LEMMA MatchLeaveKeeps == Inv /\ MatchLeave => Inv'
<1> SUFFICES ASSUME Inv, MatchLeave PROVE Inv'
  OBVIOUS
<1>1. Sound(server, down, up, page, outcome) /\ server \in ServerStates
  BY DEF Inv, Sound, Underway, Typed
<1>2. PICK old \in server.gone :
        server' = [(IF InHand(server) THEN server ELSE Unseated(server))
                     EXCEPT !.gone = @ \ {old}, !.present = 0]
  BY DEF MatchLeave
<1>3. PICK s : s = IF InHand(server) THEN server ELSE Unseated(server)
  OBVIOUS
<1>4. /\ s \in ServerStates
      /\ s.betting = server.betting /\ s.hand = server.hand /\ s.turn = server.turn
      /\ s.clock = server.clock /\ s.asked = server.asked /\ s.askedIn = server.askedIn
      /\ s.dealtIn = server.dealtIn /\ s.last = server.last
      /\ (s.live = server.live /\ s.seated = server.seated) \/ (~s.live /\ ~InHand(server))
  BY <1>1, <1>3 DEF Unseated, ServerStates
<1>5. PICK g \in SUBSET Sessions : g = s.gone \ {old}
  BY <1>4, ServerFields
<1>6. server' = [s EXCEPT !.gone = g, !.present = 0]
  BY <1>2, <1>3, <1>4, <1>5 DEF ServerStates
<1>7. 0 \in Sessions
  BY GameClientAssumption DEF Sessions
<1>8. /\ server' \in ServerStates /\ server'.present = 0
      /\ server'.betting = s.betting /\ server'.hand = s.hand /\ server'.turn = s.turn
      /\ server'.clock = s.clock /\ server'.asked = s.asked /\ server'.askedIn = s.askedIn
      /\ server'.dealtIn = s.dealtIn /\ server'.last = s.last
      /\ server'.live = s.live /\ server'.seated = s.seated
  BY <1>4, <1>6, <1>7 DEF ServerStates
<1>9. Sound(server', down, up, page, outcome)
  BY <1>1, <1>4, <1>8, SeatOrPresenceLost
<1> QED BY <1>9 DEF Inv, MatchLeave

LEMMA OnActionKeeps ==
  ASSUME Sound(server, down, up, page, outcome), up # <<>>,
         IsAction(Head(up)), OnAction(Head(up))
  PROVE  Sound(server', down', Tail(up), page, outcome')
<1> DEFINE msg == Head(up)
<1>1. /\ server \in ServerStates /\ down \in Seq(DownMessages) /\ up \in Seq(UpMessages)
      /\ Dialogue(server, down, up, page) /\ Typed(server, down, up, page)
      /\ TurnKnown(server) /\ ClockKnown(server)
  BY DEF Sound, Underway, Typed
<1>2. /\ msg \in UpMessages /\ msg \in Among(up) /\ Tail(up) \in Seq(UpMessages)
  BY <1>1, Taken
<1>3. /\ server.last <= msg.nonce /\ msg.nonce <= server.asked.id
      /\ 1 <= msg.turn /\ msg.turn <= server.turn
  BY <1>1, <1>2 DEF Dialogue, Sent, TurnReached
<1>4. /\ server.last \in Nat /\ server.asked.id \in Nat /\ msg.nonce \in Nat
      /\ msg.turn \in Turns
  BY <1>1, <1>2, ServerFields, UpFields
<1>5. IsAction(msg)
  OBVIOUS
<1> HIDE DEF msg
<1>6. CASE /\ ~server.betting
           /\ down' = Deliver(server, <<OtherError(server)>>)
           /\ UNCHANGED <<server, outcome>>
  <2>1. PICK m : m = OtherError(server)
    OBVIOUS
  <2>2. m \in DownMessages /\ ~IsPrompt(m) /\ ~IsDeal(m)
    BY <1>1, <2>1, MessagesAre DEF IsPrompt, IsDeal
  <2>3. down' = IF Joined(server, page) THEN Append(down, m) ELSE down
    BY <1>1, <1>6, <2>1, <2>2, DeliverOne DEF Joined
  <2>4. Sound(server, down, Tail(up), page, outcome)
    BY <1>1, <1>6, TakenQuietly DEF ClockKnown
  <2>5. Sound(server, down', Tail(up), page, outcome)
    BY <2>2, <2>3, <2>4, ToldQuietly
  <2> QED BY <1>6, <2>5
<1>7. CASE /\ server.betting /\ (~server.seated \/ msg.nonce = server.last)
           /\ UNCHANGED <<server, down, outcome>>
  <2>1. server.clock => msg.nonce # server.asked.id
    BY <1>1, <1>4, <1>7 DEF TurnKnown, ClockKnown
  <2>2. Sound(server, down, Tail(up), page, outcome)
    BY <2>1, TakenQuietly DEF msg
  <2> QED BY <1>7, <2>2
<1>8. CASE /\ msg.nonce # server.last /\ Accepts(msg)
           /\ EndTurn([server EXCEPT !.last = msg.nonce], msg.move = "fold",
                      [by |-> "player", nonce |-> msg.nonce, prompted |-> msg.turn])
  <2>1. PICK s : s = [server EXCEPT !.last = msg.nonce]
    OBVIOUS
  <2>2. /\ s \in ServerStates /\ s.last = msg.nonce
        /\ s.betting = server.betting /\ s.hand = server.hand /\ s.seated = server.seated
        /\ s.turn = server.turn /\ s.asked = server.asked /\ s.askedIn = server.askedIn
        /\ s.dealtIn = server.dealtIn /\ s.present = server.present
    BY <1>1, <1>4, <2>1 DEF ServerStates
  <2>3. PICK how : how = [by |-> "player", nonce |-> msg.nonce, prompted |-> msg.turn]
    OBVIOUS
  <2>4. /\ how \in Outcomes /\ how.by = "player" /\ how.nonce = msg.nonce
        /\ how.prompted = msg.turn
    BY <1>4, <2>3 DEF Outcomes
  <2>5. PICK folds \in BOOLEAN : folds = (msg.move = "fold")
    OBVIOUS
  <2>6. EndTurn(s, folds, how)
    BY <1>8, <2>1, <2>3, <2>5
  <2>7. Dialogue(s, down, Tail(up), page)
    BY <1>1, <1>5, <2>2, MoveAccepted DEF msg
  <2>8. server.last < msg.nonce /\ server.clock
    BY <1>3, <1>4, <1>8 DEF Accepts
  <2> QED BY <1>2, <1>3, <2>2, <2>4, <2>6, <2>7, <2>8, EndTurnKeeps
<1>9. CASE /\ down' = Deliver(server, <<ActionFailed(server)>>)
           /\ UNCHANGED <<server, outcome>>
  <2>1. PICK m : m = ActionFailed(server)
    OBVIOUS
  <2>2. m \in DownMessages /\ m.op = "action_failed"
    BY <1>1, <2>1, MessagesAre
  <2>3. down' = IF Joined(server, page) THEN Append(down, m) ELSE down
    BY <1>1, <1>9, <2>1, <2>2, DeliverOne DEF Joined
  <2>4. Sound(server, down', Tail(up), page, outcome)
    BY <2>2, <2>3, MoveRefused
  <2> QED BY <1>9, <2>4
<1> QED BY <1>6, <1>7, <1>8, <1>9 DEF OnAction, msg

LEMMA OnUseTimeBankKeeps ==
  ASSUME Sound(server, down, up, page, outcome), up # <<>>,
         ~IsAction(Head(up)), OnUseTimeBank
  PROVE  Sound(server', down', Tail(up), page, outcome')
<1>1. /\ server \in ServerStates /\ down \in Seq(DownMessages)
      /\ Sound(server, down, Tail(up), page, outcome)
  BY TakenQuietly DEF Sound, Underway, Typed
<1>2. CASE /\ server.clock
           /\ server' = Prompted([server EXCEPT !.bank = FALSE])
           /\ down' = Deliver(server', Announced(server'))
           /\ UNCHANGED outcome
  <2>1. PICK n : n = server'
    OBVIOUS
  <2>2. [server EXCEPT !.bank = FALSE] \in ServerStates
    BY <1>1 DEF ServerStates
  <2>3. n \in ServerStates
    BY <1>2, <2>1, <2>2, PromptedIs
  <2>4. Announced(n) = <<Announcement(n)>> /\ Announcement(n) \in DownMessages
    BY <2>3, AnnouncementIs
  <2>5. down' = IF Joined(n, page) THEN Append(down, Announcement(n)) ELSE down
    BY <1>1, <1>2, <2>1, <2>4, DeliverOne DEF Joined
  <2>6. Sound(n, down', Tail(up), page, outcome)
    BY <1>1, <1>2, <2>1, <2>5, PromptedAgain
  <2> QED BY <1>2, <2>1, <2>6
<1>3. CASE /\ down' = Deliver(server, <<OtherError(server)>>)
           /\ UNCHANGED <<server, outcome>>
  <2>1. PICK m : m = OtherError(server)
    OBVIOUS
  <2>2. m \in DownMessages /\ ~IsPrompt(m) /\ ~IsDeal(m)
    BY <1>1, <2>1, MessagesAre DEF IsPrompt, IsDeal
  <2>3. down' = IF Joined(server, page) THEN Append(down, m) ELSE down
    BY <1>1, <1>3, <2>1, <2>2, DeliverOne DEF Joined
  <2>4. Sound(server, down', Tail(up), page, outcome)
    BY <1>1, <2>2, <2>3, ToldQuietly
  <2> QED BY <1>3, <2>4
<1> QED BY <1>2, <1>3 DEF OnUseTimeBank

LEMMA OnStandUpKeeps ==
  ASSUME Sound(server, down, up, page, outcome), up # <<>>,
         ~IsAction(Head(up)), OnStandUp
  PROVE  Sound(server', down', Tail(up), page, outcome')
<1>1. /\ server \in ServerStates /\ down \in Seq(DownMessages)
      /\ Sound(server, down, Tail(up), page, outcome)
  BY TakenQuietly DEF Sound, Underway, Typed
<1>2. outcome' = outcome
  BY DEF OnStandUp
<1>3. CASE server.seated /\ ~InHand(server)
  <2>1. PICK n : n = Unseated(server)
    OBVIOUS
  <2>2. server' = n /\ down' = Deliver(server, <<Snapshot(n)>>)
    BY <1>3, <2>1 DEF OnStandUp
  <2>3. /\ n \in ServerStates /\ ~n.live
        /\ n.betting = server.betting /\ n.hand = server.hand /\ n.turn = server.turn
        /\ n.clock = server.clock /\ n.asked = server.asked /\ n.askedIn = server.askedIn
        /\ n.dealtIn = server.dealtIn /\ n.last = server.last /\ n.present = server.present
    BY <1>1, <2>1 DEF Unseated, ServerStates
  <2>4. Sound(n, down, Tail(up), page, outcome)
    BY <1>1, <1>3, <2>3, SeatOrPresenceLost
  <2>5. PICK m : m = Snapshot(n)
    OBVIOUS
  <2>6. m \in DownMessages /\ ~IsPrompt(m) /\ ~IsDeal(m)
    BY <2>3, <2>5, MessagesAre DEF IsPrompt, IsDeal
  <2>7. down' = IF Joined(n, page) THEN Append(down, m) ELSE down
    BY <1>1, <2>2, <2>3, <2>5, <2>6, DeliverOne DEF Joined
  <2>8. Sound(n, down', Tail(up), page, outcome)
    BY <2>4, <2>6, <2>7, ToldQuietly
  <2> QED BY <1>2, <2>2, <2>8
<1>4. CASE ~(server.seated /\ ~InHand(server))
  <2>1. PICK m : m = OtherError(server)
    OBVIOUS
  <2>2. m \in DownMessages /\ ~IsPrompt(m) /\ ~IsDeal(m)
    BY <1>1, <2>1, MessagesAre DEF IsPrompt, IsDeal
  <2>3. Deliver(server, <<m>>) = IF Joined(server, page) THEN Append(down, m) ELSE down
    BY <1>1, <2>2, DeliverOne DEF Joined
  <2>4. server' = server /\ (down' = down \/ down' = Deliver(server, <<m>>))
    BY <1>4, <2>1 DEF OnStandUp
  <2>5. Sound(server, down', Tail(up), page, outcome)
    BY <1>1, <2>2, <2>3, <2>4, ToldQuietly
  <2> QED BY <1>2, <2>4, <2>5
<1> QED BY <1>3, <1>4

LEMMA ReceiveKeeps == Inv /\ Receive => Inv'
<1> SUFFICES ASSUME Inv, Receive PROVE Inv'
  OBVIOUS
<1>1. Sound(server, down, up, page, outcome) /\ up # <<>> /\ up \in Seq(UpMessages)
  BY DEF Inv, Sound, Underway, Typed, Receive
<1>2. up' = Tail(up) /\ page' = page
  BY DEF Receive
<1>3. Head(up).op \in {"action", "bank", "leave"}
  <2>1. Head(up) \in UpMessages
    BY <1>1, Taken
  <2> QED BY <2>1 DEF UpMessages
<1>4. CASE server.present = 0
  <2>1. 1 <= page.session
    BY <1>1 DEF Sound, Underway, SessionKnown
  <2>2. ~Joined(server, page)
    BY <1>4, <2>1 DEF Joined
  <2>3. Sound(server, down, Tail(up), page, outcome)
    BY <1>1, <2>2, TakenQuietly
  <2>4. UNCHANGED <<server, down, outcome>>
    BY <1>4 DEF Receive
  <2> QED BY <1>2, <2>3, <2>4 DEF Inv
<1>5. CASE server.present # 0 /\ Head(up).op = "action"
  <2>1. OnAction(Head(up))
    BY <1>5 DEF Receive
  <2>2. Sound(server', down', Tail(up), page, outcome')
    BY <1>1, <1>5, <2>1, OnActionKeeps DEF IsAction
  <2> QED BY <1>2, <2>2 DEF Inv
<1>6. CASE server.present # 0 /\ Head(up).op = "bank"
  <2>1. OnUseTimeBank
    BY <1>6 DEF Receive
  <2>2. Sound(server', down', Tail(up), page, outcome')
    BY <1>1, <1>6, <2>1, OnUseTimeBankKeeps DEF IsAction
  <2> QED BY <1>2, <2>2 DEF Inv
<1>7. CASE server.present # 0 /\ Head(up).op = "leave"
  <2>1. OnStandUp
    BY <1>7 DEF Receive
  <2>2. Sound(server', down', Tail(up), page, outcome')
    BY <1>1, <1>7, <2>1, OnStandUpKeeps DEF IsAction
  <2> QED BY <1>2, <2>2 DEF Inv
<1> QED BY <1>3, <1>4, <1>5, <1>6, <1>7

----------------------------------------------------------------------------
(* Every action of the page keeps the invariant. *)

(* The page changes, but neither the bar nor what it may bring back. *)
LEMMA BarIsLeft ==
  ASSUME NEW s, NEW d, NEW u, NEW p, NEW o, Sound(s, d, u, p, o),
         NEW q \in PageStates, q.session = p.session, q.joined = p.joined,
         q.nonce = p.nonce, q.bar = p.bar, q.cleared = p.cleared, CardsKept(s, d, q)
  PROVE  Sound(s, d, u, q, o)
<1>1. Typed(s, d, u, q)
  BY DEF Sound, Underway, Typed
<1>2. Dialogue(s, d, u, q)
  BY PageGoesOn DEF Sound, Underway
<1>3. SessionKnown(s, d, q)
  BY DEF Sound, Underway, SessionKnown
<1>4. BarKept(s, d, u, q)
  BY DEF Sound, BarKept, Joined
<1> QED BY <1>1, <1>2, <1>3, <1>4 DEF Sound, Underway

LEMMA OtherSent ==
  ASSUME NEW s, NEW d, NEW u, NEW p, NEW o, Sound(s, d, u, p, o),
         NEW e \in UpMessages, ~IsAction(e)
  PROVE  Sound(s, d, Append(u, e), p, o)
<1>1. /\ Append(u, e) \in Seq(UpMessages)
      /\ Among(Append(u, e)) = Among(u) \cup {e}
  BY Appended DEF Sound, Underway, Typed
<1>2. Typed(s, d, Append(u, e), p)
  BY <1>1 DEF Sound, Underway, Typed
<1>3. Dialogue(s, d, Append(u, e), p)
  BY Answered DEF Sound, Underway
<1>4. BarKept(s, d, Append(u, e), p)
  BY <1>1 DEF Sound, BarKept, AnswerOut
<1> QED BY <1>2, <1>3, <1>4 DEF Sound, Underway

(* A move is sent, once or twice, and the bar is put away. *)
LEMMA ActKeeps ==
  ASSUME Inv, IsMyTurn, NEW m \in Moves, Act(<<m>>) \/ Act(<<m, m>>)
  PROVE  Inv'
<1>1. /\ Sound(server, down, up, page, outcome) /\ page \in PageStates
      /\ up \in Seq(UpMessages) /\ page.bar # NoPrompt
      /\ Typed(server, down, up, page) /\ Dialogue(server, down, up, page)
  BY DEF Inv, Sound, Underway, Typed, IsMyTurn
<1>2. PICK e : e = Send("action", m)
  OBVIOUS
<1>3. /\ page.nonce \in Nat /\ page.bar.turn \in Turns /\ page.bar \in Prompts
      /\ NoPrompt \in Prompts
  BY <1>1, PageFields, NothingPrompted DEF Prompts
<1>4. e \in UpMessages /\ IsAction(e) /\ e.nonce = page.nonce /\ e.turn = page.bar.turn
  BY <1>2, <1>3 DEF Send, UpMessages, IsAction
<1>5. /\ Append(up, e) \in Seq(UpMessages)
      /\ Append(Append(up, e), e) \in Seq(UpMessages)
      /\ e \in Among(Append(up, e)) /\ e \in Among(Append(Append(up, e), e))
  <2>1. Append(up, e) \in Seq(UpMessages) /\ Among(Append(up, e)) = Among(up) \cup {e}
    BY <1>1, <1>4, Appended
  <2>2. PICK v \in Seq(UpMessages) : v = Append(up, e)
    BY <2>1
  <2>3. Append(v, e) \in Seq(UpMessages) /\ Among(Append(v, e)) = Among(v) \cup {e}
    BY <1>4, Appended
  <2> QED BY <2>1, <2>2, <2>3
<1>6. up' = Append(up, e) \/ up' = Append(Append(up, e), e)
  <2>1. CASE Act(<<m>>)
    <3>1. Actions(<<m>>) = <<e>>
      BY <1>2 DEF Actions
    <3>2. up \o <<e>> = Append(up, e)
      BY <1>1, <1>4, Appended
    <3> QED BY <2>1, <3>1, <3>2 DEF Act
  <2>2. CASE Act(<<m, m>>)
    <3>1. Actions(<<m, m>>) = <<e, e>>
      BY <1>2 DEF Actions
    <3>2. <<e, e>> = <<e>> \o <<e>> /\ <<e>> \in Seq(UpMessages)
      BY <1>4
    <3>3. up \o (<<e>> \o <<e>>) = (up \o <<e>>) \o <<e>>
      BY <1>1, <3>2, ConcatAssociative
    <3>4. up \o <<e>> = Append(up, e) /\ Append(up, e) \o <<e>> = Append(Append(up, e), e)
      BY <1>1, <1>4, <1>5, Appended
    <3> QED BY <2>2, <3>1, <3>2, <3>3, <3>4 DEF Act
  <2> QED BY <2>1, <2>2
<1>7. PICK q : q = [page EXCEPT !.cleared = page.bar, !.bar = NoPrompt, !.pre = "none"]
  OBVIOUS
<1>8. page' = q /\ UNCHANGED <<server, down, outcome>>
  BY <1>7 DEF Act
<1>9. /\ q \in PageStates /\ q.cleared = page.bar /\ q.bar = NoPrompt
      /\ q.session = page.session /\ q.joined = page.joined /\ q.nonce = page.nonce
      /\ q.decrypting = page.decrypting /\ q.behind = page.behind
      /\ q.cards = page.cards /\ q.blind = page.blind
  BY <1>1, <1>3, <1>7 DEF PageStates
<1>10. Typed(server, down, up', q) /\ Typed(server, down, up', page)
  BY <1>1, <1>5, <1>6, <1>9 DEF Typed
<1>11. Dialogue(server, down, up', q)
  <2>1. Answering(page) /\ TurnReached(server, e.turn)
    BY <1>1, <1>4 DEF Answering, Dialogue, Shown
  <2>2. Dialogue(server, down, Append(up, e), page)
    BY <1>1, <1>4, <2>1, Answered
  <2>3. Typed(server, down, Append(up, e), page)
    BY <1>1, <1>5 DEF Typed
  <2>4. Dialogue(server, down, Append(Append(up, e), e), page)
    BY <1>4, <2>1, <2>2, <2>3, Answered
  <2>5. Dialogue(server, down, up', page)
    BY <1>6, <2>2, <2>4
  <2> QED BY <1>9, <1>10, <2>5, PageGoesOn
<1>12. SessionKnown(server, down, q)
  BY <1>1, <1>9 DEF Sound, Underway, SessionKnown
<1>13. CardsKept(server, down, q)
  BY <1>1, <1>9 DEF Sound, Underway, CardsKept, CardsWith, Joined
<1>14. BarKept(server, down, up', q)
  <2>1. e \in Among(up')
    BY <1>5, <1>6
  <2> QED BY <1>1, <1>4, <1>9, <2>1 DEF Sound, BarKept, Joined, AnswerOut
<1>15. Sound(server, down, up', q, outcome)
  BY <1>1, <1>10, <1>11, <1>12, <1>13, <1>14 DEF Sound, Underway
<1> QED BY <1>8, <1>15 DEF Inv

LEMMA MoveForIsAMove ==
  ASSUME NEW pre \in PreActions, NEW prompt
  PROVE  MoveFor(pre, prompt) \in Moves
BY DEF MoveFor, PreActions, Moves

LEMMA TapKeeps == Inv /\ Tap => Inv'
<1> SUFFICES ASSUME Inv, Tap PROVE Inv'
  OBVIOUS
<1>1. PICK m \in ValidMoves(page.bar) : Act(<<m>>) \/ Act(<<m, m>>)
  BY DEF Tap
<1>2. m \in Moves
  BY DEF ValidMoves, Moves
<1> QED BY <1>1, <1>2, ActKeeps DEF Tap

LEMMA FirePreActionKeeps == Inv /\ FirePreAction => Inv'
<1> SUFFICES ASSUME Inv, FirePreAction PROVE Inv'
  OBVIOUS
<1>1. page.pre \in PreActions
  BY DEF Inv, Sound, Underway, Typed, PageStates, FirePreAction
<1>2. PICK m : m = MoveFor(page.pre, page.bar)
  OBVIOUS
<1>3. m \in Moves
  BY <1>1, <1>2, MoveForIsAMove
<1> QED BY <1>2, <1>3, ActKeeps DEF FirePreAction

LEMMA TogglePreActionKeeps == Inv /\ TogglePreAction => Inv'
<1> SUFFICES ASSUME Inv, TogglePreAction PROVE Inv'
  OBVIOUS
<1>1. Sound(server, down, up, page, outcome) /\ page \in PageStates
  BY DEF Inv, Sound, Underway, Typed
<1>2. PICK pre \in Queued \cup {"none"} : page' = [page EXCEPT !.pre = pre]
  <2>1. PICK p \in Queued : page' = [page EXCEPT !.pre = IF @ = p THEN "none" ELSE p]
    BY DEF TogglePreAction
  <2> QED BY <1>1, <2>1 DEF PageStates
<1>3. pre \in PreActions \cup {"none"}
  BY <1>2, GameClientAssumption DEF PreActions
<1>4. /\ page' \in PageStates
      /\ page'.session = page.session /\ page'.joined = page.joined
      /\ page'.nonce = page.nonce /\ page'.bar = page.bar /\ page'.cleared = page.cleared
      /\ page'.decrypting = page.decrypting /\ page'.behind = page.behind
      /\ page'.cards = page.cards /\ page'.blind = page.blind
  BY <1>1, <1>2, <1>3 DEF PageStates
<1>5. CardsKept(server, down, page')
  BY <1>1, <1>4 DEF Sound, Underway, CardsKept, CardsWith, Joined
<1>6. Sound(server, down, up, page', outcome)
  BY <1>1, <1>4, <1>5, BarIsLeft
<1> QED BY <1>6 DEF Inv, TogglePreAction

LEMMA UseTimeBankKeeps == Inv /\ UseTimeBank => Inv'
<1> SUFFICES ASSUME Inv, UseTimeBank PROVE Inv'
  OBVIOUS
<1>1. Sound(server, down, up, page, outcome) /\ page \in PageStates
  BY DEF Inv, Sound, Underway, Typed
<1>2. PICK e : e = Send("bank", "none")
  OBVIOUS
<1>3. page.nonce \in Nat /\ page.bar.turn \in Turns
  BY <1>1, PageFields DEF Prompts
<1>4. e \in UpMessages /\ ~IsAction(e)
  BY <1>2, <1>3 DEF Send, UpMessages, IsAction
<1>5. Sound(server, down, Append(up, e), page, outcome)
  BY <1>1, <1>4, OtherSent
<1> QED BY <1>2, <1>5 DEF Inv, UseTimeBank

LEMMA StandUpKeeps == Inv /\ StandUp => Inv'
<1> SUFFICES ASSUME Inv, StandUp PROVE Inv'
  OBVIOUS
<1>1. Sound(server, down, up, page, outcome) /\ page \in PageStates
  BY DEF Inv, Sound, Underway, Typed
<1>2. PICK e : e = Send("leave", "none")
  OBVIOUS
<1>3. page.nonce \in Nat /\ page.bar.turn \in Turns
  BY <1>1, PageFields DEF Prompts
<1>4. e \in UpMessages /\ ~IsAction(e)
  BY <1>2, <1>3 DEF Send, UpMessages, IsAction
<1>5. Sound(server, down, Append(up, e), page, outcome)
  BY <1>1, <1>4, OtherSent
<1>6. server.hand \in Hands /\ 0 \in Hands
  BY <1>1, ServerFields, GameClientAssumption DEF Sound, Underway, Typed, Hands
<1>7. /\ page' \in PageStates
      /\ page'.session = page.session /\ page'.joined = page.joined
      /\ page'.nonce = page.nonce /\ page'.bar = page.bar /\ page'.cleared = page.cleared
      /\ page'.blind = server.hand
  BY <1>1, <1>6 DEF PageStates, StandUp
<1>8. CardsKept(server, down, page')
  BY <1>1, <1>7 DEF Sound, Underway, CardsKept, CardsWith, Joined
<1>9. Sound(server, down, Append(up, e), page', outcome)
  BY <1>5, <1>7, <1>8, BarIsLeft
<1> QED BY <1>2, <1>9 DEF Inv, StandUp

LEMMA ImportSessionKeyKeeps == Inv /\ ImportSessionKey => Inv'
<1> SUFFICES ASSUME Inv, ImportSessionKey PROVE Inv'
  OBVIOUS
<1>1. Sound(server, down, up, page, outcome) /\ page \in PageStates
  BY DEF Inv, Sound, Underway, Typed
<1>2. /\ page' \in PageStates
      /\ page'.session = page.session /\ page'.joined = page.joined
      /\ page'.nonce = page.nonce /\ page'.bar = page.bar /\ page'.cleared = page.cleared
      /\ page'.decrypting = page.decrypting /\ page'.behind = page.behind
      /\ page'.cards = page.cards /\ page'.blind = page.blind
  BY <1>1 DEF PageStates, ImportSessionKey
<1>3. CardsKept(server, down, page')
  BY <1>1, <1>2 DEF Sound, Underway, CardsKept, CardsWith, Joined
<1>4. Sound(server, down, up, page', outcome)
  BY <1>1, <1>2, <1>3, BarIsLeft
<1> QED BY <1>4 DEF Inv, ImportSessionKey

(* A decryption ends: that of the hand, or one that was left behind. *)
LEMMA DecryptCardsKeeps == Inv /\ DecryptCards => Inv'
<1> SUFFICES ASSUME Inv, DecryptCards PROVE Inv'
  OBVIOUS
<1>1. /\ Sound(server, down, up, page, outcome) /\ page \in PageStates
      /\ page.decrypting \in SUBSET Hands
  BY PageFields DEF Inv, Sound, Underway, Typed
<1>2. PICK hand \in page.decrypting :
        page' = [page EXCEPT !.cards = hand, !.decrypting = @ \ {hand}]
  BY DEF DecryptCards
<1>3. /\ page' \in PageStates
      /\ page'.session = page.session /\ page'.joined = page.joined
      /\ page'.nonce = page.nonce /\ page'.bar = page.bar /\ page'.cleared = page.cleared
      /\ page'.decrypting = page.decrypting \ {hand} /\ page'.cards = hand
      /\ page'.behind = page.behind /\ page'.blind = page.blind
  BY <1>1, <1>2 DEF PageStates
<1>4. CardsWith(server, page) => CardsWith(server, page')
  BY <1>3 DEF CardsWith
<1>5. CardsKept(server, down, page')
  BY <1>1, <1>3, <1>4 DEF Sound, Underway, CardsKept, Joined
<1>6. Sound(server, down, up, page', outcome)
  BY <1>1, <1>3, <1>5, BarIsLeft
<1> QED BY <1>6 DEF Inv, DecryptCards

LEMMA JoinRoomKeeps == Inv /\ JoinRoom => Inv'
<1> SUFFICES ASSUME Inv, JoinRoom PROVE Inv'
  OBVIOUS
<1>1. /\ Sound(server, down, up, page, outcome) /\ page \in PageStates
      /\ server \in ServerStates /\ ~page.joined
      /\ Typed(server, down, up, page) /\ Dialogue(server, down, up, page)
      /\ SessionKnown(server, down, page)
  BY DEF Inv, Sound, Underway, Typed, JoinRoom
<1>2. down = <<>> /\ page.session \notin {server.askedIn, server.dealtIn}
  BY <1>1 DEF SessionKnown
<1>3. page.session \in Sessions /\ 0 \in Hands
  BY <1>1, PageFields, GameClientAssumption DEF Hands
<1>4. /\ server' \in ServerStates /\ server'.present = page.session
      /\ server'.betting = server.betting /\ server'.hand = server.hand
      /\ server'.live = server.live /\ server'.seated = server.seated
      /\ server'.turn = server.turn /\ server'.clock = server.clock
      /\ server'.asked = server.asked /\ server'.askedIn = server.askedIn
      /\ server'.dealtIn = server.dealtIn /\ server'.last = server.last
  BY <1>1, <1>3 DEF ServerStates, JoinRoom
<1>5. /\ page' \in PageStates
      /\ page'.session = page.session /\ page'.joined /\ page'.nonce = page.nonce
      /\ page'.bar = NoPrompt /\ page'.cleared = page.cleared
  BY <1>1, <1>3, NothingPrompted DEF PageStates, JoinRoom
<1>6. PICK m : m = SessionKey(server)
  OBVIOUS
<1>7. m \in DownMessages /\ ~IsPrompt(m) /\ ~IsDeal(m)
  BY <1>1, <1>6, MessagesAre DEF IsPrompt, IsDeal
<1>8. down' = Append(down, m) /\ down' \in Seq(DownMessages)
  BY <1>1, <1>2, <1>6, <1>7, QueueOfOne DEF JoinRoom
<1>9. up' = up /\ outcome' = outcome
  BY DEF JoinRoom
<1>10. Typed(server', down', up, page') /\ Typed(server', down, up, page)
       /\ Typed(server', down, up, page')
  BY <1>1, <1>4, <1>5, <1>8 DEF Typed
<1>11. Dialogue(server', down', up, page')
  <2>1. Later(server, server')
    BY <1>1, <1>4, ServerFields DEF Later
  <2>2. Dialogue(server', down, up, page)
    BY <1>1, <1>4, <2>1, MatchGoesOn
  <2>3. Dialogue(server', down, up, page')
    BY <1>5, <1>10, <2>2, PageGoesOn
  <2> QED BY <1>7, <1>8, <1>10, <2>3, ToldOther
<1>12. TurnKnown(server') /\ ClockKnown(server')
  BY <1>1, <1>4 DEF Sound, Underway, TurnKnown, ClockKnown
<1>13. Ended(server', outcome) /\ Applied(server', outcome)
  BY <1>1, <1>4 DEF Sound, Underway, Ended, Applied
<1>14. SessionKnown(server', down', page')
  BY <1>1, <1>4, <1>5, PageFields DEF SessionKnown
<1>15. BarKept(server', down', up, page') /\ CardsKept(server', down', page')
  BY <1>2, <1>4, <1>5 DEF BarKept, CardsKept
<1> QED BY <1>1, <1>9, <1>10, <1>11, <1>12, <1>13, <1>14, <1>15 DEF Inv, Sound, Underway

LEMMA ReloadKeeps == Inv /\ Reload => Inv'
<1> SUFFICES ASSUME Inv, Reload PROVE Inv'
  OBVIOUS
<1>1. /\ Sound(server, down, up, page, outcome) /\ page \in PageStates
      /\ server \in ServerStates /\ up \in Seq(UpMessages)
      /\ Typed(server, down, up, page) /\ Dialogue(server, down, up, page)
      /\ SessionKnown(server, down, page)
  BY DEF Inv, Sound, Underway, Typed
<1>2. PICK k \in Sessions : k = page.session + 1 /\ k \in Nat
  <2>1. page.session \in Nat /\ MaxSessions \in Nat
    BY <1>1, PageFields, GameClientAssumption
  <2>2. page.session < MaxSessions
    BY DEF Reload
  <2>3. page.session + 1 \in Sessions /\ page.session + 1 \in Nat
    BY <2>1, <2>2 DEF Sessions
  <2> QED BY <2>3
<1>3. page' = NewPage(k) /\ down' = <<>> /\ up' = up /\ outcome' = outcome
  BY <1>2 DEF Reload
<1>4. 0 \in Hands /\ NoPrompt \in Prompts
  BY GameClientAssumption, NothingPrompted DEF Hands
<1>5. /\ page' \in PageStates /\ page'.session = k /\ ~page'.joined /\ page'.nonce = 0
      /\ page'.bar = NoPrompt /\ page'.cleared = NoPrompt
  BY <1>2, <1>3, <1>4 DEF NewPage, PageStates, PreActions
<1>6. PICK g \in SUBSET Sessions : server' = [server EXCEPT !.gone = g]
  <2>1. page.session \in Sessions /\ server.gone \subseteq Sessions
    BY <1>1, PageFields, ServerFields
  <2>2. PICK g : g = server.gone \cup (IF page.joined THEN {page.session} ELSE {})
    OBVIOUS
  <2>3. g \in SUBSET Sessions
    BY <2>1, <2>2
  <2>4. server' = [server EXCEPT !.gone = g]
    BY <1>1, <2>2 DEF Reload, ServerStates
  <2> QED BY <2>3, <2>4
<1>7. /\ server' \in ServerStates /\ server'.present = server.present
      /\ server'.betting = server.betting /\ server'.hand = server.hand
      /\ server'.live = server.live /\ server'.seated = server.seated
      /\ server'.turn = server.turn /\ server'.clock = server.clock
      /\ server'.asked = server.asked /\ server'.askedIn = server.askedIn
      /\ server'.dealtIn = server.dealtIn /\ server'.last = server.last
  BY <1>1, <1>6 DEF ServerStates
<1>8. Typed(server', down', up, page')
  BY <1>1, <1>3, <1>5, <1>7, EmptyQueue DEF Typed
<1>9. Dialogue(server', down', up, page')
  <2>1. Later(server, server')
    BY <1>1, <1>7, ServerFields DEF Later
  <2>2. Dialogue(server', down, up, page) /\ Typed(server', down, up, page)
    BY <1>1, <1>7, <2>1, MatchGoesOn DEF Typed
  <2> QED BY <1>3, <1>5, <2>2, AnewFromHere
<1>10. TurnKnown(server') /\ ClockKnown(server')
  BY <1>1, <1>7 DEF Sound, Underway, TurnKnown, ClockKnown
<1>11. Ended(server', outcome) /\ Applied(server', outcome)
  BY <1>1, <1>7 DEF Sound, Underway, Ended, Applied
<1>12. SessionKnown(server', down', page')
  <2>1. /\ page.session \in Nat /\ server.present \in Nat
        /\ server.askedIn \in Nat /\ server.dealtIn \in Nat
    BY <1>1, PageFields, ServerFields
  <2>2. /\ 1 <= k /\ server.present < k /\ server.askedIn < k /\ server.dealtIn < k
    BY <1>1, <1>2, <2>1 DEF SessionKnown
  <2> QED BY <1>2, <1>3, <1>5, <1>7, <2>1, <2>2 DEF SessionKnown
<1>13. ~Joined(server', page')
  BY <1>5 DEF Joined
<1>14. BarKept(server', down', up, page') /\ CardsKept(server', down', page')
  BY <1>13 DEF BarKept, CardsKept
<1> QED BY <1>1, <1>3, <1>8, <1>9, <1>10, <1>11, <1>12, <1>14 DEF Inv, Sound, Underway

(* The page takes a message that brings it neither a prompt nor cards, and *)
(* changes nothing that matters here.                                      *)
LEMMA OtherShown ==
  ASSUME NEW s, NEW d, NEW u, NEW p, NEW o, Sound(s, d, u, p, o), d # <<>>,
         Head(d).op \notin {"prompt", "deal", "action_failed"}
  PROVE  Sound(s, Tail(d), u, p, o)
<1>1. /\ Tail(d) \in Seq(DownMessages)
      /\ Among(d) = Among(Tail(d)) \cup {Head(d)}
  BY Taken DEF Sound, Underway, Typed
<1>2. ~IsPrompt(Head(d)) /\ ~IsDeal(Head(d)) /\ Head(d).op # "action_failed"
  BY DEF IsPrompt, IsDeal
<1>3. Typed(s, Tail(d), u, p)
  BY <1>1 DEF Sound, Underway, Typed
<1>4. Dialogue(s, Tail(d), u, p)
  BY MessageShown DEF Sound, Underway
<1>5. SessionKnown(s, Tail(d), p)
  BY DEF Sound, Underway, SessionKnown
<1>6. BarKept(s, Tail(d), u, p)
  BY <1>1, <1>2 DEF Sound, BarKept, OnItsWay, RefusalOut
<1>7. CardsKept(s, Tail(d), p)
  BY <1>1, <1>2 DEF Sound, Underway, CardsKept, CardsOut, NoCardsOut
<1> QED BY <1>3, <1>4, <1>5, <1>6, <1>7 DEF Sound, Underway

(* Its cards: the last that were dealt to it, or older ones that others    *)
(* are following.                                                          *)
LEMMA DealShown ==
  ASSUME NEW s, NEW d, NEW u, NEW p, NEW o, Sound(s, d, u, p, o), d # <<>>,
         IsDeal(Head(d)),
         NEW q \in PageStates, q.session = p.session, q.joined = p.joined,
         q.nonce = p.nonce, q.bar = p.bar, q.cleared = p.cleared,
         \/ q.decrypting = p.decrypting \cup {Head(d).hand} /\ q.behind = p.decrypting
         \/ q.blind = Head(d).hand
  PROVE  Sound(s, Tail(d), u, q, o)
<1>1. /\ Tail(d) \in Seq(DownMessages) /\ Head(d) \in DownMessages
      /\ Among(d) = Among(Tail(d)) \cup {Head(d)}
      /\ \A k \in Among(Tail(d)) : Ahead(d, Head(d), k)
  BY Taken DEF Sound, Underway, Typed
<1>2. ~IsPrompt(Head(d)) /\ Head(d).op # "action_failed"
  BY DEF IsPrompt, IsDeal
<1>3. Typed(s, Tail(d), u, q) /\ Typed(s, Tail(d), u, p) /\ Typed(s, d, u, p)
  BY <1>1 DEF Sound, Underway, Typed
<1>4. Dialogue(s, Tail(d), u, p)
  BY MessageShown DEF Sound, Underway
<1>5. Dialogue(s, Tail(d), u, q)
  BY <1>3, <1>4, PageGoesOn
<1>6. SessionKnown(s, Tail(d), q)
  BY DEF Sound, Underway, SessionKnown
<1>7. BarKept(s, Tail(d), u, q)
  BY <1>1, <1>2 DEF Sound, BarKept, OnItsWay, RefusalOut, Joined
<1>8. CardsKept(s, Tail(d), q)
  <2>1. SUFFICES ASSUME Joined(s, p), InHand(s), s.dealtIn = p.session
                 PROVE  \/ CardsOut(s, Tail(d))
                        \/ NoCardsOut(Tail(d)) /\ CardsWith(s, q)
    BY DEF CardsKept, Joined
  <2>2. CardsOut(s, d)
    BY <1>1, <2>1 DEF Sound, Underway, CardsKept, NoCardsOut
  <2>3. CASE Head(d).hand # s.hand
    BY <1>1, <2>2, <2>3 DEF CardsOut
  <2>4. CASE Head(d).hand = s.hand
    <3>1. ASSUME NEW m \in Among(Tail(d)), IsDeal(m)
          PROVE  FALSE
      <4>1. m.hand <= s.hand /\ s.hand < m.hand
        BY <1>1, <2>4, <3>1 DEF Sound, Underway, Dialogue, DealsComing
      <4>2. m.hand \in Nat /\ s.hand \in Nat
        BY <1>3, NumbersUnderWay
      <4> QED BY <4>1, <4>2
    <3>2. CardsWith(s, q)
      BY <2>4 DEF CardsWith
    <3> QED BY <3>1, <3>2 DEF NoCardsOut
  <2> QED BY <2>3, <2>4
<1> QED BY <1>3, <1>5, <1>6, <1>7, <1>8 DEF Sound, Underway

(* Its prompt: the latest, or an older one that the latest is following.   *)
LEMMA PromptIsShown ==
  ASSUME NEW s, NEW d, NEW u, NEW p, NEW o, Sound(s, d, u, p, o), d # <<>>,
         IsPrompt(Head(d)),
         NEW q \in PageStates, q.session = p.session, q.joined = p.joined,
         q.nonce = Head(d).prompt.id, q.bar = Head(d).prompt, q.cleared = NoPrompt,
         q.decrypting = p.decrypting, q.behind = p.behind, q.cards = p.cards, q.blind = p.blind
  PROVE  Sound(s, Tail(d), u, q, o)
<1>1. /\ Tail(d) \in Seq(DownMessages) /\ Head(d) \in DownMessages
      /\ Among(d) = Among(Tail(d)) \cup {Head(d)}
  BY Taken DEF Sound, Underway, Typed
<1>2. ~IsDeal(Head(d)) /\ Typed(s, d, u, p)
  BY DEF IsPrompt, IsDeal, Sound, Underway
<1>3. Typed(s, Tail(d), u, q)
  BY <1>1 DEF Sound, Underway, Typed
<1>4. Dialogue(s, Tail(d), u, q)
  BY PromptShown DEF Sound, Underway
<1>5. SessionKnown(s, Tail(d), q)
  BY DEF Sound, Underway, SessionKnown
<1>6. BarKept(s, Tail(d), u, q)
  <2>1. SUFFICES ASSUME Joined(s, p), s.clock, s.askedIn = p.session
                 PROVE  \/ OnItsWay(s, Tail(d))
                        \/ /\ q.nonce = s.asked.id /\ q.bar = s.asked
                           /\ q.cleared = NoPrompt
    BY DEF BarKept, Joined
  <2>2. p.nonce < Head(d).prompt.id /\ Head(d).prompt.id <= s.asked.id
    BY <1>1 DEF Sound, Underway, Dialogue, Coming
  <2>3. p.nonce \in Nat /\ s.asked.id \in Nat /\ Head(d).prompt.id \in Nat
    BY <1>1, <1>2, NumbersUnderWay
  <2>4. OnItsWay(s, d)
    BY <2>1, <2>2, <2>3 DEF Sound, BarKept
  <2>5. CASE Head(d).prompt = s.asked
    BY <2>5
  <2>6. CASE Head(d).prompt # s.asked
    BY <1>1, <2>4, <2>6 DEF OnItsWay
  <2> QED BY <2>5, <2>6
<1>7. CardsKept(s, Tail(d), q)
  BY <1>1, <1>2 DEF Sound, Underway, CardsKept, CardsWith, CardsOut, NoCardsOut, Joined
<1> QED BY <1>3, <1>4, <1>5, <1>6, <1>7 DEF Sound, Underway

(* A refusal: the bar comes back if it had been put away. *)
LEMMA RefusalIsShown ==
  ASSUME NEW s, NEW d, NEW u, NEW p, NEW o, Sound(s, d, u, p, o), d # <<>>,
         Head(d).op = "action_failed",
         NEW q \in PageStates, q.session = p.session, q.joined = p.joined,
         q.nonce = p.nonce, q.cleared = NoPrompt,
         q.bar = IF p.cleared # NoPrompt THEN p.cleared ELSE p.bar,
         q.decrypting = p.decrypting, q.behind = p.behind, q.cards = p.cards, q.blind = p.blind
  PROVE  Sound(s, Tail(d), u, q, o)
<1>1. /\ Tail(d) \in Seq(DownMessages) /\ Head(d) \in DownMessages
      /\ Among(d) = Among(Tail(d)) \cup {Head(d)}
  BY Taken DEF Sound, Underway, Typed
<1>2. ~IsDeal(Head(d)) /\ ~IsPrompt(Head(d)) /\ Typed(s, d, u, p)
  BY DEF IsPrompt, IsDeal, Sound, Underway
<1>3. Typed(s, Tail(d), u, q) /\ Typed(s, Tail(d), u, p)
  BY <1>1 DEF Sound, Underway, Typed
<1>4. Dialogue(s, Tail(d), u, p)
  BY MessageShown DEF Sound, Underway
<1>5. Dialogue(s, Tail(d), u, q)
  BY <1>3, <1>4, PageGoesOn
<1>6. SessionKnown(s, Tail(d), q)
  BY DEF Sound, Underway, SessionKnown
<1>7. BarKept(s, Tail(d), u, q)
  <2>1. SUFFICES ASSUME Joined(s, p), s.clock, s.askedIn = p.session
                 PROVE  \/ OnItsWay(s, Tail(d))
                        \/ /\ q.nonce = s.asked.id /\ q.bar = s.asked
                           /\ q.cleared = NoPrompt
    BY DEF BarKept, Joined
  <2>2. OnItsWay(s, d) => OnItsWay(s, Tail(d))
    BY <1>1, <1>2 DEF OnItsWay
  <2>3. s.asked # NoPrompt
    <3>1. s.last < s.asked.id /\ s.last \in Nat /\ s.asked.id \in Nat
      BY <1>2, <2>1, NumbersUnderWay DEF Sound, ClockKnown
    <3> QED BY <3>1, NothingPrompted
  <2> QED BY <2>1, <2>2, <2>3 DEF Sound, BarKept
<1>8. CardsKept(s, Tail(d), q)
  BY <1>1, <1>2 DEF Sound, Underway, CardsKept, CardsWith, CardsOut, NoCardsOut, Joined
<1> QED BY <1>3, <1>5, <1>6, <1>7, <1>8 DEF Sound, Underway

LEMMA OnMatchDataKeeps == Inv /\ OnMatchData => Inv'
<1> SUFFICES ASSUME Inv, OnMatchData PROVE Inv'
  OBVIOUS
<1>1. /\ Sound(server, down, up, page, outcome) /\ page \in PageStates
      /\ down \in Seq(DownMessages) /\ down # <<>>
  BY DEF Inv, Sound, Underway, Typed, OnMatchData
<1>2. PICK msg \in DownMessages : msg = Head(down)
  BY <1>1, Taken
<1>3. down' = Tail(down) /\ UNCHANGED <<server, up, outcome>>
  BY DEF OnMatchData
<1>4. /\ msg.op \in {"key", "deal", "prompt", "action_failed", "error", "snapshot"}
      /\ msg.active \in BOOLEAN /\ msg.prompt \in Prompts /\ msg.prompt.id \in Nat
      /\ msg.hand \in Hands
  BY <1>2, DownFields DEF DownMessages
<1>5. CASE msg.op = "key"
  <2>1. page' = [[page EXCEPT !.importing = TRUE] EXCEPT !.active = msg.active]
    BY <1>2, <1>5 DEF OnMatchData
  <2>2. /\ page' \in PageStates
        /\ page'.session = page.session /\ page'.joined = page.joined
        /\ page'.nonce = page.nonce /\ page'.bar = page.bar /\ page'.cleared = page.cleared
        /\ page'.decrypting = page.decrypting /\ page'.behind = page.behind
        /\ page'.cards = page.cards /\ page'.blind = page.blind
    BY <1>1, <1>4, <2>1 DEF PageStates
  <2>3. Sound(server, Tail(down), up, page, outcome)
    BY <1>1, <1>2, <1>5, OtherShown
  <2>4. CardsKept(server, Tail(down), page')
    BY <2>2, <2>3 DEF Sound, Underway, CardsKept, CardsWith, Joined
  <2>5. Sound(server, Tail(down), up, page', outcome)
    BY <2>2, <2>3, <2>4, BarIsLeft
  <2> QED BY <1>3, <2>5 DEF Inv
<1>6. CASE msg.op \in {"error", "snapshot"}
  <2>1. page' = [page EXCEPT !.active = msg.active]
    BY <1>2, <1>6 DEF OnMatchData
  <2>2. /\ page' \in PageStates
        /\ page'.session = page.session /\ page'.joined = page.joined
        /\ page'.nonce = page.nonce /\ page'.bar = page.bar /\ page'.cleared = page.cleared
        /\ page'.decrypting = page.decrypting /\ page'.behind = page.behind
        /\ page'.cards = page.cards /\ page'.blind = page.blind
    BY <1>1, <1>4, <2>1 DEF PageStates
  <2>3. Sound(server, Tail(down), up, page, outcome)
    BY <1>1, <1>2, <1>6, OtherShown
  <2>4. CardsKept(server, Tail(down), page')
    BY <2>2, <2>3 DEF Sound, Underway, CardsKept, CardsWith, Joined
  <2>5. Sound(server, Tail(down), up, page', outcome)
    BY <2>2, <2>3, <2>4, BarIsLeft
  <2> QED BY <1>3, <2>5 DEF Inv
<1>7. CASE msg.op = "deal"
  <2>1. PICK p : p = OnDealPrivate(msg)
    OBVIOUS
  <2>2. page' = [p EXCEPT !.active = msg.active]
    BY <1>2, <1>7, <2>1 DEF OnMatchData
  <2>3. /\ p \in PageStates
        /\ p.session = page.session /\ p.joined = page.joined
        /\ p.nonce = page.nonce /\ p.bar = page.bar /\ p.cleared = page.cleared
        /\ \/ /\ p.decrypting = page.decrypting \cup {msg.hand}
              /\ p.behind = page.decrypting
           \/ p.blind = msg.hand
    BY <1>1, <1>4, <2>1 DEF PageStates, OnDealPrivate
  <2>4. /\ page' \in PageStates
        /\ page'.session = p.session /\ page'.joined = p.joined
        /\ page'.nonce = p.nonce /\ page'.bar = p.bar /\ page'.cleared = p.cleared
        /\ page'.decrypting = p.decrypting /\ page'.behind = p.behind
        /\ page'.blind = p.blind
    BY <1>4, <2>2, <2>3 DEF PageStates
  <2>5. Sound(server, Tail(down), up, page', outcome)
    BY <1>1, <1>2, <1>7, <2>3, <2>4, DealShown DEF IsDeal
  <2> QED BY <1>3, <2>5 DEF Inv
<1>8. CASE msg.op = "prompt"
  <2>1. PICK p : p = OnActionRequired(msg)
    OBVIOUS
  <2>2. page' = [p EXCEPT !.active = msg.active]
    BY <1>2, <1>8, <2>1 DEF OnMatchData
  <2>3. /\ p \in PageStates
        /\ p.session = page.session /\ p.joined = page.joined
        /\ p.nonce = msg.prompt.id /\ p.bar = msg.prompt /\ p.cleared = NoPrompt
        /\ p.decrypting = page.decrypting /\ p.behind = page.behind
        /\ p.cards = page.cards /\ p.blind = page.blind
    BY <1>1, <1>4, <2>1, NothingPrompted DEF PageStates, OnActionRequired
  <2>4. /\ page' \in PageStates
        /\ page'.session = p.session /\ page'.joined = p.joined
        /\ page'.nonce = p.nonce /\ page'.bar = p.bar /\ page'.cleared = p.cleared
        /\ page'.decrypting = p.decrypting /\ page'.behind = p.behind
        /\ page'.cards = p.cards /\ page'.blind = p.blind
    BY <1>4, <2>2, <2>3 DEF PageStates
  <2>5. Sound(server, Tail(down), up, page', outcome)
    BY <1>1, <1>2, <1>8, <2>3, <2>4, PromptIsShown DEF IsPrompt
  <2> QED BY <1>3, <2>5 DEF Inv
<1>9. CASE msg.op = "action_failed"
  <2>1. PICK p : p = OnActionFailed
    OBVIOUS
  <2>2. page' = [p EXCEPT !.active = msg.active]
    BY <1>2, <1>9, <2>1 DEF OnMatchData
  <2>3. page.cleared \in Prompts
    BY <1>1, PageFields
  <2>4. /\ p \in PageStates
        /\ p.session = page.session /\ p.joined = page.joined
        /\ p.nonce = page.nonce /\ p.cleared = NoPrompt
        /\ p.bar = IF page.cleared # NoPrompt THEN page.cleared ELSE page.bar
        /\ p.decrypting = page.decrypting /\ p.behind = page.behind
        /\ p.cards = page.cards /\ p.blind = page.blind
    BY <1>1, <2>1, <2>3, NothingPrompted DEF PageStates, OnActionFailed
  <2>5. /\ page' \in PageStates
        /\ page'.session = p.session /\ page'.joined = p.joined
        /\ page'.nonce = p.nonce /\ page'.bar = p.bar /\ page'.cleared = p.cleared
        /\ page'.decrypting = p.decrypting /\ page'.behind = p.behind
        /\ page'.cards = p.cards /\ page'.blind = p.blind
    BY <1>4, <2>2, <2>4 DEF PageStates
  <2>6. Sound(server, Tail(down), up, page', outcome)
    BY <1>1, <1>2, <1>9, <2>4, <2>5, RefusalIsShown
  <2> QED BY <1>3, <2>6 DEF Inv
<1> QED BY <1>4, <1>5, <1>6, <1>7, <1>8, <1>9

----------------------------------------------------------------------------
(* The theorems. *)

LEMMA InitIsSound == Init => Inv
<1> SUFFICES ASSUME Init PROVE Inv
  OBVIOUS
<1>1. /\ 0 \in Hands /\ 0 \in Turns /\ 0 \in Sessions /\ 1 \in Sessions
      /\ NoPrompt \in Prompts
  BY GameClientAssumption, NothingPrompted DEF Hands, Turns, Sessions
<1>2. /\ server \in ServerStates
      /\ ~server.betting /\ server.hand = 0 /\ ~server.live /\ server.seated
      /\ server.turn = 0 /\ ~server.clock /\ server.asked = NoPrompt
      /\ server.askedIn = 0 /\ server.dealtIn = 0 /\ server.last = 0 /\ server.present = 0
  BY <1>1 DEF Init, ServerStates
<1>3. /\ page \in PageStates
      /\ page.session = 1 /\ ~page.joined /\ page.bar = NoPrompt
      /\ page.cleared = NoPrompt /\ page.nonce = 0
  BY <1>1 DEF Init, NewPage, PageStates, PreActions
<1>4. down = <<>> /\ up = <<>> /\ Among(<<>>) = {} /\ \A m, n : ~Ahead(<<>>, m, n)
  BY EmptyQueue, AheadAmong DEF Init
<1>5. Typed(server, down, up, page)
  BY <1>2, <1>3, <1>4, EmptyQueue DEF Typed
<1>6. /\ outcome \in [1..MaxTurns -> Outcomes]
      /\ \A t \in 1..MaxTurns : outcome[t].by = "nobody" /\ 1 <= t /\ t \in Nat
  BY <1>1, GameClientAssumption DEF Init, Undecided, Outcomes
<1>7. Applied(server, outcome) /\ Ended(server, outcome)
  BY <1>2, <1>6 DEF Applied, Ended, PlayedIn
<1>8. TurnKnown(server) /\ ClockKnown(server)
  BY <1>2, NothingPrompted DEF TurnKnown, ClockKnown
<1>9. Dialogue(server, down, up, page)
  BY <1>2, <1>3, <1>4, NothingPrompted
     DEF Dialogue, Sent, Shown, Coming, DealsComing, Answering
<1>10. SessionKnown(server, down, page)
  BY <1>2, <1>3, <1>4 DEF SessionKnown
<1>11. BarKept(server, down, up, page) /\ CardsKept(server, down, page)
  BY <1>3 DEF BarKept, CardsKept, Joined
<1> QED BY <1>5, <1>6, <1>7, <1>8, <1>9, <1>10, <1>11 DEF Inv, Sound, Underway

LEMMA StepIsSound == Inv /\ [Next]_vars => Inv'
<1> SUFFICES ASSUME Inv, [Next]_vars PROVE Inv'
  OBVIOUS
<1>1. CASE UNCHANGED vars
  BY <1>1 DEF vars, Inv
<1>2. CASE Next
  BY <1>2, StartHandKeeps, OthersActKeeps, ClockRunsOutKeeps, ReceiveKeeps, MatchLeaveKeeps,
     JoinRoomKeeps, ReloadKeeps, TapKeeps, TogglePreActionKeeps, FirePreActionKeeps,
     UseTimeBankKeeps, StandUpKeeps, OnMatchDataKeeps, ImportSessionKeyKeeps,
     DecryptCardsKeeps DEF Next
<1> QED BY <1>1, <1>2

LEMMA AlwaysSound == Spec => []Inv
BY InitIsSound, StepIsSound, PTL DEF Spec

(* The match, the page and the messages between them have their types at   *)
(* every step, whatever the bounds and the moves the player uses.          *)
THEOREM GameClientTypes == Spec => []TypeOK
<1>1. Inv => TypeOK
  BY DEF Inv, Sound, Underway, Typed, TypeOK
<1> QED BY <1>1, AlwaysSound, PTL

(* No two turns are ended by moves with the same nonce, however often the  *)
(* page sends: nonces never decrease on their way to the match, and it     *)
(* accepts none that repeats the last.                                     *)
THEOREM MovesAreAppliedOnce == Spec => []AppliedOnce
<1>1. Inv => AppliedOnce
  <2> SUFFICES ASSUME Inv, NEW t \in 1..MaxTurns, NEW v \in 1..MaxTurns, t # v,
                      ByPlayer(t), ByPlayer(v)
               PROVE  outcome[t].nonce # outcome[v].nonce
    BY DEF AppliedOnce
  <2>1. /\ Applied(server, outcome) /\ PlayedIn(outcome, t) /\ PlayedIn(outcome, v)
        /\ outcome[t].nonce \in Nat /\ outcome[v].nonce \in Nat
    BY DEF Inv, Sound, Underway, ByPlayer, PlayedIn, Outcomes
  <2>2. t \in Nat /\ v \in Nat
    BY GameClientAssumption
  <2> QED BY <2>1, <2>2 DEF Applied
<1> QED BY <1>1, AlwaysSound, PTL

(* A move ends no turn before the one it was meant for; and a later turn   *)
(* only when the clock ended that one, or another move of the player did.  *)
THEOREM LateMovesFollowTheClock == Spec => []LateOnlyAfterTheClock
<1>1. Inv => LateOnlyAfterTheClock
  <2> SUFFICES ASSUME Inv, NEW t \in 1..MaxTurns, ByPlayer(t)
               PROVE  LET meant == outcome[t].prompted IN
                        /\ meant \in 1..t
                        /\ meant < t => \/ outcome[meant].by = "clock"
                                        \/ ByPlayer(meant)
                                           /\ outcome[meant].nonce # outcome[t].nonce
    BY DEF LateOnlyAfterTheClock
  <2>1. /\ Applied(server, outcome) /\ Ended(server, outcome) /\ PlayedIn(outcome, t)
        /\ outcome \in [1..MaxTurns -> Outcomes] /\ server \in ServerStates
    BY DEF Inv, Sound, Underway, Typed, ByPlayer, PlayedIn
  <2>2. outcome[t].prompted \in Turns
    BY <2>1 DEF Outcomes
  <2>3. PICK meant \in Nat : meant = outcome[t].prompted
    BY <2>2, GameClientAssumption DEF Turns
  <2>4. 1 <= meant /\ meant <= t
    BY <2>1, <2>3 DEF Applied
  <2>5. t \in Nat /\ server.turn \in Nat /\ t <= MaxTurns /\ MaxTurns \in Nat
    BY <2>1, ServerFields, GameClientAssumption
  <2>6. meant \in 1..t /\ meant \in 1..MaxTurns
    BY <2>4, <2>5
  <2>7. t <= server.turn
    BY <2>1, <2>5 DEF Ended, PlayedIn
  <2>8. ASSUME meant < t
        PROVE  \/ outcome[meant].by = "clock"
               \/ ByPlayer(meant) /\ outcome[meant].nonce # outcome[t].nonce
    <3>1. meant < server.turn
      BY <2>5, <2>7, <2>8
    <3>2. outcome[meant].by # "nobody"
      BY <2>1, <2>6, <3>1 DEF Ended
    <3>3. outcome[meant] \in Outcomes /\ outcome[t] \in Outcomes
      BY <2>1, <2>6
    <3>4. /\ outcome[meant].by \in {"nobody", "player", "clock"}
          /\ outcome[meant].nonce \in Nat /\ outcome[t].nonce \in Nat
      BY <3>3 DEF Outcomes
    <3>5. CASE outcome[meant].by = "clock"
      BY <3>5
    <3>6. CASE outcome[meant].by = "player"
      <4>1. outcome[meant].nonce < outcome[t].nonce
        BY <2>1, <2>6, <2>8, <3>6 DEF Applied, PlayedIn
      <4> QED BY <3>4, <3>6, <4>1 DEF ByPlayer
    <3> QED BY <3>2, <3>4, <3>5, <3>6
  <2> QED BY <2>3, <2>6, <2>8
<1> QED BY <1>1, AlwaysSound, PTL

(* When nothing is under way, a page whose player is to act shows the      *)
(* prompt he was last sent, whatever was refused or dropped before.        *)
THEOREM BarIsNeverLost == Spec => []BarIsUpOnMyTurn
<1>1. Inv => BarIsUpOnMyTurn
  <2> SUFFICES ASSUME Inv, AllDelivered, Connected, server.clock,
                      server.askedIn = page.session
               PROVE  page.bar = server.asked
    BY DEF BarIsUpOnMyTurn
  <2>1. Among(down) = {} /\ Among(up) = {}
    BY EmptyQueue DEF AllDelivered
  <2>2. ~OnItsWay(server, down) /\ ~AnswerOut(server, up) /\ ~RefusalOut(down)
    BY <2>1 DEF OnItsWay, AnswerOut, RefusalOut
  <2> QED BY <2>2 DEF Inv, Sound, BarKept, Joined, Connected
<1> QED BY <1>1, AlwaysSound, PTL

(* When nothing is under way, the cards on view are those of the hand the  *)
(* player is in, if it was dealt to this page and the page could keep it,  *)
(* or of a hand that was still being decrypted when its cards came: a page *)
(* that had decrypted all it was dealt before is never stale.              *)
THEOREM StaleCardsWereOvertaken == Spec => []OnlyOvertakenCardsAreStale
<1>1. Inv => OnlyOvertakenCardsAreStale
  <2> SUFFICES ASSUME Inv, AllDelivered, Connected, InHand(server),
                      server.dealtIn = page.session, page.decrypting = {},
                      page.blind # server.hand
               PROVE  page.cards \in {server.hand} \cup page.behind
    BY DEF OnlyOvertakenCardsAreStale
  <2>1. Among(down) = {}
    BY EmptyQueue DEF AllDelivered
  <2>2. ~CardsOut(server, down)
    BY <2>1 DEF CardsOut
  <2>3. CardsWith(server, page)
    BY <2>2 DEF Inv, Sound, Underway, CardsKept, Joined, Connected
  <2> QED BY <2>3 DEF CardsWith
<1> QED BY <1>1, AlwaysSound, PTL
==============================================================================
