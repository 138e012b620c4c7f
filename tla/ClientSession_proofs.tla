------------------------ MODULE ClientSession_proofs ------------------------
(***************************************************************************)
(* The client's safety, for any number of cards, messages and fragments.   *)
(* What is on its way to the client carries the difference between what it *)
(* shows and what the agent has; the invariants say so of the queue `back` *)
(* event by event.                                                         *)
(***************************************************************************)
EXTENDS ClientSession, SequenceTheorems, FiniteSetTheorems, TLAPS

Frames ==
  [type : {"init", "context_update"}, route : Routes]
    \union [type : {"user_message"}, turn : Nat]
    \union [type : {"confirm_action", "reject_action"}, card : Nat]

Events ==
  [type : {"chat_message"}, msg : Nat, text : Seq(Nat), done : BOOLEAN]
    \union [type : {"action_proposal"}, card : Nat]
    \union [type : {"proposal_state_changed"}, card : Nat, state : Terminal, result : {"value", "null"}]
    \union [type : {"error"}]

States == Terminal \union {"validated"}

View == [state : States, turn : Nat, working : BOOLEAN, result : {"none", "value", "null"}]

Typed ==
  /\ turns \in Nat /\ subscribed \in BOOLEAN
  /\ socket \in {"connecting", "open", "gone"}
  /\ queue \in Seq(Frames) /\ wire \in Seq(Frames) /\ back \in Seq(Events)
  /\ initialized \in BOOLEAN
  /\ store \in Seq([state : States, turn : Nat]) /\ answering \in Nat
  /\ written \in Seq(Nat) /\ writing \in BOOLEAN
  /\ views \in [DOMAIN views -> View] /\ DOMAIN views \subseteq DOMAIN store

(* The connection: nothing reaches the agent before the socket opens, and   *)
(* nothing waits once it did. Turns and cards in frames exist.              *)
Unhandled == wire \o queue
IsTurn(f) == f.type = "user_message"

Linked ==
  /\ socket = "connecting" => wire = <<>> /\ answering = 0
  /\ socket = "open" => queue = <<>>
  /\ answering <= turns
  /\ \A i \in DOMAIN Unhandled :
       /\ IsTurn(Unhandled[i]) => Unhandled[i].turn <= turns
       /\ Unhandled[i].type \in {"confirm_action", "reject_action"} => Unhandled[i].card \in DOMAIN store

(* The turns of a sequence of frames rise to the last one typed, with no    *)
(* gap; the init is the first frame the agent gets.                         *)
Ordered(f, tn) ==
  \A i \in DOMAIN f : IsTurn(f[i]) =>
    /\ f[i].turn <= tn
    /\ \A t \in f[i].turn + 1 .. tn : \E j \in DOMAIN f : i < j /\ IsTurn(f[j]) /\ f[j].turn = t
    /\ \A j \in DOMAIN f : i < j /\ IsTurn(f[j]) => f[i].turn < f[j].turn

Sent ==
  /\ initialized \/ Unhandled = <<>> \/ Unhandled[1].type = "init"
  /\ socket # "gone" /\ ~initialized => Unhandled # <<>>
  /\ socket # "gone" => Ordered(Unhandled, turns)

(* Of the cards: what is under way was true when it was sent, and decided   *)
(* cards stay decided; a card is offered once, before anything is said of   *)
(* it; what is neither shown nor under way did not happen.                  *)
IsChange(e, c) == e.type = "proposal_state_changed" /\ e.card = c
IsOffer(e, c) == e.type = "action_proposal" /\ e.card = c

Mirrored(b, st, v, tn, live) ==
  /\ \A i \in DOMAIN b : b[i].type = "proposal_state_changed" =>
       b[i].card \in DOMAIN st /\ st[b[i].card].state = b[i].state
  /\ \A i \in DOMAIN b : b[i].type = "action_proposal" =>
       /\ b[i].card \in DOMAIN st \ DOMAIN v
       /\ \A j \in DOMAIN b : (IsOffer(b[j], b[i].card) => i = j) /\ (IsChange(b[j], b[i].card) => i < j)
  /\ \A c \in DOMAIN v : v[c].state \in {"validated", st[c].state} /\ v[c].turn >= st[c].turn
  /\ \A c \in DOMAIN st : st[c].turn <= tn
  /\ live => \A c \in DOMAIN st :
       /\ c \in DOMAIN v \/ \E i \in DOMAIN b : IsOffer(b[i], c)
       /\ \/ st[c].state = IF c \in DOMAIN v THEN v[c].state ELSE "validated"
          \/ \E i \in DOMAIN b : IsChange(b[i], c)

(* Of the messages: behind what the transcript has of a message, the deltas *)
(* under way are its next fragments without a gap, the final text comes     *)
(* last, and an error after the final texts of all that came before.        *)
IsDelta(e, m, n) == e.type = "chat_message" /\ e.msg = m /\ ~e.done /\ e.text = <<n>>
IsFinal(e, m) == e.type = "chat_message" /\ e.msg = m /\ e.done
IsChat(e, m) == e.type = "chat_message" /\ e.msg = m
Heard(tr, m) == IF m \in DOMAIN tr THEN Len(tr[m]) ELSE 0
Closed(w, wr, m) == m \in DOMAIN w /\ (m = Len(w) => ~wr)

Spoken(b, w, wr, tr, open, live) ==
  /\ \A m \in DOMAIN tr : m \in DOMAIN w /\ Len(tr[m]) \in Nat /\ tr[m] = Text(Len(tr[m])) /\ Len(tr[m]) <= w[m]
  /\ open \subseteq DOMAIN tr
  /\ \A m \in DOMAIN tr \ open :
       Closed(w, wr, m) /\ Len(tr[m]) = w[m] /\ \A i \in DOMAIN b : ~IsChat(b[i], m)
  /\ \A i \in DOMAIN b : b[i].type = "chat_message" /\ b[i].done =>
       /\ Closed(w, wr, b[i].msg) /\ b[i].text = Text(w[b[i].msg])
       /\ \A j \in DOMAIN b : IsChat(b[j], b[i].msg) => j <= i
  /\ \A i \in DOMAIN b : b[i].type = "chat_message" /\ ~b[i].done =>
       \E n \in Nat :
         /\ b[i].text = <<n>> /\ b[i].msg \in DOMAIN w
         /\ Heard(tr, b[i].msg) < n /\ n <= w[b[i].msg]
         /\ \A k \in Nat : \A j \in DOMAIN b : IsDelta(b[j], b[i].msg, k) /\ j < i => k < n
         /\ \A k \in Nat : Heard(tr, b[i].msg) < k /\ k < n => \E j \in DOMAIN b : j < i /\ IsDelta(b[j], b[i].msg, k)
  /\ \A i \in DOMAIN b : b[i].type = "error" =>
       /\ \A m \in open : \E k \in DOMAIN b : k < i /\ IsFinal(b[k], m)
       /\ \A j \in DOMAIN b : j < i /\ b[j].type = "chat_message" =>
            \E k \in DOMAIN b : k < i /\ IsFinal(b[k], b[j].msg)
  /\ live => \A m \in DOMAIN w :
       IF Closed(w, wr, m) THEN m \in DOMAIN tr \ open \/ \E i \in DOMAIN b : IsFinal(b[i], m)
       ELSE \A k \in Nat : Heard(tr, m) < k /\ k <= w[m] => \E i \in DOMAIN b : IsDelta(b[i], m, k)

Cards == Mirrored(back, store, views, turns, socket # "gone")
Messages ==
  /\ writing => written # <<>> /\ answering # 0
  /\ Spoken(back, written, writing, transcript, streams, socket # "gone")

-----------------------------------------------------------------------------
(* Sequences, by their positions.                                           *)

(* The positions of a sequence.                                             *)
LEMMA PositionsAre ==
  ASSUME NEW S, NEW s \in Seq(S)
  PROVE  /\ Len(s) \in Nat /\ DOMAIN s = 1 .. Len(s)
         /\ \A i \in DOMAIN s : i \in Nat /\ 1 <= i /\ i <= Len(s) /\ s[i] \in S
OBVIOUS

(* The tail: every position but the first, one lower.                       *)
LEMMA TailIs ==
  ASSUME NEW S, NEW s \in Seq(S), s # <<>>
  PROVE  /\ Tail(s) \in Seq(S) /\ Head(s) = s[1] /\ 1 \in DOMAIN s
         /\ \A i \in DOMAIN Tail(s) : i \in Nat /\ 1 <= i /\ i + 1 \in DOMAIN s /\ Tail(s)[i] = s[i + 1]
         /\ \A i \in DOMAIN s : i = 1 \/ (i - 1 \in DOMAIN Tail(s) /\ Tail(s)[i - 1] = s[i])
<1>1. Len(s) \in Nat /\ Len(s) >= 1 /\ DOMAIN s = 1 .. Len(s)
  BY EmptySeq, PositionsAre
<1>2. /\ Tail(s) \in Seq(S) /\ Len(Tail(s)) = Len(s) - 1 /\ Head(s) = s[1]
      /\ DOMAIN Tail(s) = 1 .. Len(s) - 1
      /\ \A i \in 1 .. Len(s) - 1 : Tail(s)[i] = s[i + 1]
  BY <1>1
<1> DEFINE n == Len(s)
           t == Tail(s)
<1>3. /\ n \in Nat /\ n >= 1 /\ DOMAIN s = 1 .. n /\ t \in Seq(S) /\ Head(s) = s[1]
      /\ DOMAIN t = 1 .. n - 1 /\ \A i \in 1 .. n - 1 : t[i] = s[i + 1]
  BY <1>1, <1>2
<1> HIDE DEF n, t
<1>4. \A i \in 1 .. n - 1 : i \in Nat /\ 1 <= i /\ i + 1 \in 1 .. n
  BY <1>3
<1>5. ASSUME NEW i \in 1 .. n, i # 1
      PROVE  i - 1 \in 1 .. n - 1 /\ t[i - 1] = s[i]
  <2>1. i - 1 \in 1 .. n - 1 /\ (i - 1) + 1 = i
    BY <1>3, <1>5
  <2>2. t[i - 1] = s[(i - 1) + 1]
    BY <1>3, <2>1
  <2> QED
    BY <2>1, <2>2
<1>6. 1 \in 1 .. n
  BY <1>3
<1>7. /\ t \in Seq(S) /\ Head(s) = s[1] /\ 1 \in DOMAIN s
      /\ \A i \in DOMAIN t : i \in Nat /\ 1 <= i /\ i + 1 \in DOMAIN s /\ t[i] = s[i + 1]
      /\ \A i \in DOMAIN s : i = 1 \/ (i - 1 \in DOMAIN t /\ t[i - 1] = s[i])
  <2>1. \A i \in DOMAIN s : i = 1 \/ (i - 1 \in DOMAIN t /\ t[i - 1] = s[i])
    <3> SUFFICES ASSUME NEW i \in DOMAIN s, i # 1
                 PROVE  i - 1 \in DOMAIN t /\ t[i - 1] = s[i]
      OBVIOUS
    <3>1. i \in 1 .. n
      BY <1>3
    <3>2. i - 1 \in 1 .. n - 1 /\ t[i - 1] = s[i]
      BY <1>5, <3>1
    <3> QED
      BY <1>3, <3>2
  <2>2. \A i \in DOMAIN t : i \in Nat /\ 1 <= i /\ i + 1 \in DOMAIN s /\ t[i] = s[i + 1]
    BY <1>3, <1>4
  <2> QED
    BY <1>3, <1>6, <2>1, <2>2
<1> QED
  BY <1>7 DEF t

(* A concatenation has the positions of both.                               *)
LEMMA ConcatIs ==
  ASSUME NEW S, NEW s \in Seq(S), NEW t \in Seq(S)
  PROVE  /\ s \o t \in Seq(S)
         /\ \A i \in DOMAIN s : i \in DOMAIN (s \o t) /\ (s \o t)[i] = s[i]
         /\ \A i \in DOMAIN t : Len(s) + i \in DOMAIN (s \o t) /\ (s \o t)[Len(s) + i] = t[i]
         /\ \A i \in DOMAIN (s \o t) : i \in DOMAIN s \/ \E j \in DOMAIN t : i = Len(s) + j
<1> DEFINE m == Len(s)
           n == Len(t)
           u == s \o t
<1>1. m \in Nat /\ n \in Nat /\ DOMAIN s = 1 .. m /\ DOMAIN t = 1 .. n
  OBVIOUS
<1>2. /\ u \in Seq(S) /\ DOMAIN u = 1 .. m + n
      /\ \A i \in 1 .. m : u[i] = s[i]
      /\ \A i \in 1 .. n : u[m + i] = t[i]
  OBVIOUS
<1> HIDE DEF m, n, u
<1>3. /\ \A i \in 1 .. m : i \in 1 .. m + n
      /\ \A i \in 1 .. n : m + i \in 1 .. m + n
  BY <1>1
<1>4. \A i \in 1 .. m + n : i \in 1 .. m \/ (i - m \in 1 .. n /\ i = m + (i - m))
  BY <1>1
<1>5. /\ u \in Seq(S)
      /\ \A i \in DOMAIN s : i \in DOMAIN u /\ u[i] = s[i]
      /\ \A i \in DOMAIN t : m + i \in DOMAIN u /\ u[m + i] = t[i]
      /\ \A i \in DOMAIN u : i \in DOMAIN s \/ \E j \in DOMAIN t : i = m + j
  BY <1>1, <1>2, <1>3, <1>4
<1> QED
  BY <1>5 DEF m, n, u

(* Appending adds one position behind the others.                           *)
LEMMA AppendIs ==
  ASSUME NEW S, NEW s \in Seq(S), NEW e \in S
  PROVE  /\ Append(s, e) \in Seq(S) /\ Len(Append(s, e)) = Len(s) + 1
         /\ DOMAIN Append(s, e) = DOMAIN s \union {Len(s) + 1}
         /\ \A i \in DOMAIN s : i < Len(s) + 1 /\ Append(s, e)[i] = s[i]
         /\ Append(s, e)[Len(s) + 1] = e
<1> DEFINE n == Len(s)
           u == Append(s, e)
<1>1. n \in Nat /\ DOMAIN s = 1 .. n
  OBVIOUS
<1>2. /\ u \in Seq(S) /\ Len(u) = n + 1 /\ DOMAIN u = 1 .. n + 1
      /\ (\A i \in 1 .. n : u[i] = s[i]) /\ u[n + 1] = e
  OBVIOUS
<1> HIDE DEF n, u
<1>3. 1 .. n + 1 = 1 .. n \union {n + 1} /\ \A i \in 1 .. n : i < n + 1
  BY <1>1
<1> QED
  BY <1>1, <1>2, <1>3 DEF n, u

(* A prefix has the first positions.                                        *)
LEMMA CutIs ==
  ASSUME NEW S, NEW s \in Seq(S), NEW n \in 0 .. Len(s)
  PROVE  /\ SubSeq(s, 1, n) \in Seq(S)
         /\ \A i \in DOMAIN SubSeq(s, 1, n) : i \in DOMAIN s /\ SubSeq(s, 1, n)[i] = s[i]
         /\ \A i \in DOMAIN SubSeq(s, 1, n) : \A j \in DOMAIN s : j <= i => j \in DOMAIN SubSeq(s, 1, n)
<1>1. Len(s) \in Nat /\ DOMAIN s = 1 .. Len(s)
  OBVIOUS
<1>2. /\ SubSeq(s, 1, n) \in Seq(S) /\ DOMAIN SubSeq(s, 1, n) = 1 .. n
      /\ \A i \in 1 .. n : SubSeq(s, 1, n)[i] = s[i]
  BY <1>1
<1>3. /\ \A i \in 1 .. n : i \in 1 .. Len(s)
      /\ \A i \in 1 .. n : \A j \in 1 .. Len(s) : j <= i => j \in 1 .. n
  BY <1>1
<1> QED
  BY <1>1, <1>2, <1>3

(* The events, by their types.                                              *)
LEMMA EventIs ==
  ASSUME NEW e \in Events
  PROVE  /\ e.type \in {"chat_message", "action_proposal", "proposal_state_changed", "error"}
         /\ e.type = "chat_message" => e.msg \in Nat /\ e.text \in Seq(Nat) /\ e.done \in BOOLEAN
         /\ e.type = "action_proposal" => e.card \in Nat
         /\ e.type = "proposal_state_changed" =>
              e.card \in Nat /\ e.state \in Terminal /\ e.result \in {"value", "null"}
BY DEF Events

-----------------------------------------------------------------------------
(* What is on its way about cards.                                          *)

(* The agent decides cards and says so.                                     *)
LEMMA MirrorTells ==
  ASSUME NEW b \in Seq(Events), NEW e \in Seq(Events), NEW st, NEW nt, NEW v, NEW tn, NEW live,
         Mirrored(b, st, v, tn, live), DOMAIN nt = DOMAIN st, DOMAIN v \subseteq DOMAIN st,
         \A c \in DOMAIN st : /\ nt[c].turn = st[c].turn
                              /\ nt[c].state = st[c].state
                                 \/ (st[c].state = "validated" /\ \E i \in DOMAIN e : IsChange(e[i], c)),
         \A i \in DOMAIN e : /\ e[i].type # "action_proposal"
                             /\ e[i].type = "proposal_state_changed" =>
                                  e[i].card \in DOMAIN nt /\ nt[e[i].card].state = e[i].state
  PROVE  Mirrored(b \o e, nt, v, tn, live) /\ Mirrored(b, nt, v, tn, FALSE)
<1> DEFINE u == b \o e
           n == Len(b)
<1>1. /\ \A i \in DOMAIN b : i \in DOMAIN u /\ u[i] = b[i]
      /\ \A i \in DOMAIN e : n + i \in DOMAIN u /\ u[n + i] = e[i]
      /\ \A i \in DOMAIN u : i \in DOMAIN b \/ \E j \in DOMAIN e : i = n + j
  BY ConcatIs
<1>2. /\ n \in Nat /\ \A i \in DOMAIN b : i \in Nat /\ i <= n /\ b[i] \in Events
      /\ \A i \in DOMAIN e : i \in Nat /\ 1 <= i
  BY PositionsAre
<1> HIDE DEF u, n
<1>3. \A i \in DOMAIN b : \A j \in DOMAIN e : i < n + j
  BY <1>2
<1>4. ASSUME NEW i \in DOMAIN b, b[i].type = "proposal_state_changed"
      PROVE  b[i].card \in DOMAIN nt /\ nt[b[i].card].state = b[i].state
  <2>1. b[i].state \in Terminal /\ "validated" \notin Terminal
    BY <1>2, <1>4, EventIs DEF Terminal
  <2>2. b[i].card \in DOMAIN st /\ st[b[i].card].state = b[i].state
    BY <1>4 DEF Mirrored
  <2> QED
    BY <2>1, <2>2
<1>5. ASSUME NEW i \in DOMAIN u, u[i].type = "proposal_state_changed"
      PROVE  u[i].card \in DOMAIN nt /\ nt[u[i].card].state = u[i].state
  BY <1>1, <1>4, <1>5
<1>6. ASSUME NEW i \in DOMAIN u, u[i].type = "action_proposal"
      PROVE  /\ i \in DOMAIN b /\ u[i].card \in DOMAIN nt \ DOMAIN v
             /\ \A j \in DOMAIN u : (IsOffer(u[j], u[i].card) => i = j) /\ (IsChange(u[j], u[i].card) => i < j)
  <2>1. i \in DOMAIN b /\ u[i] = b[i] /\ b[i].type = "action_proposal"
    BY <1>1, <1>6
  <2>2. /\ b[i].card \in DOMAIN st \ DOMAIN v
        /\ \A j \in DOMAIN b : (IsOffer(b[j], b[i].card) => i = j) /\ (IsChange(b[j], b[i].card) => i < j)
    BY <2>1 DEF Mirrored
  <2>3. ASSUME NEW j \in DOMAIN u
        PROVE  (IsOffer(u[j], u[i].card) => i = j) /\ (IsChange(u[j], u[i].card) => i < j)
    <3>1. CASE j \in DOMAIN b
      BY <1>1, <2>1, <2>2, <3>1
    <3>2. ASSUME NEW k \in DOMAIN e, j = n + k
          PROVE  ~IsOffer(u[j], u[i].card) /\ i < j
      BY <1>1, <1>3, <2>1, <3>2 DEF IsOffer
    <3> QED
      BY <1>1, <3>1, <3>2
  <2> QED
    BY <2>1, <2>2, <2>3
<1>7. \A c \in DOMAIN v : v[c].state \in {"validated", nt[c].state} /\ v[c].turn >= nt[c].turn
  BY DEF Mirrored
<1>8. \A c \in DOMAIN nt : nt[c].turn <= tn
  BY DEF Mirrored
<1>9. ASSUME live, NEW c \in DOMAIN nt
      PROVE  /\ c \in DOMAIN v \/ \E i \in DOMAIN u : IsOffer(u[i], c)
             /\ \/ nt[c].state = IF c \in DOMAIN v THEN v[c].state ELSE "validated"
                \/ \E i \in DOMAIN u : IsChange(u[i], c)
  <2>1. /\ c \in DOMAIN v \/ \E i \in DOMAIN b : IsOffer(b[i], c)
        /\ \/ st[c].state = IF c \in DOMAIN v THEN v[c].state ELSE "validated"
           \/ \E i \in DOMAIN b : IsChange(b[i], c)
    BY <1>9 DEF Mirrored
  <2>2. nt[c].state = st[c].state \/ \E i \in DOMAIN e : IsChange(e[i], c)
    OBVIOUS
  <2>3. (\E i \in DOMAIN b : IsOffer(b[i], c)) => \E i \in DOMAIN u : IsOffer(u[i], c)
    BY <1>1
  <2>4. (\E i \in DOMAIN b : IsChange(b[i], c)) => \E i \in DOMAIN u : IsChange(u[i], c)
    BY <1>1
  <2>5. (\E i \in DOMAIN e : IsChange(e[i], c)) => \E i \in DOMAIN u : IsChange(u[i], c)
    BY <1>1
  <2> QED
    BY <2>1, <2>2, <2>3, <2>4, <2>5
<1>10. Mirrored(u, nt, v, tn, live)
  BY <1>5, <1>6, <1>7, <1>8, <1>9 DEF Mirrored
<1>11. Mirrored(b, nt, v, tn, FALSE)
  BY <1>4, <1>7, <1>8 DEF Mirrored
<1> QED
  BY <1>10, <1>11 DEF u

(* The agent proposes a card.                                               *)
LEMMA MirrorOffers ==
  ASSUME NEW b \in Seq(Events), NEW e \in Events, NEW st \in Seq([state : States, turn : Nat]),
         NEW v, NEW tn \in Nat, NEW t \in Nat, t <= tn, NEW live,
         Mirrored(b, st, v, tn, live), DOMAIN v \subseteq DOMAIN st, IsOffer(e, Len(st) + 1)
  PROVE  LET nt == Append(st, [state |-> "validated", turn |-> t])
         IN Mirrored(Append(b, e), nt, v, tn, live) /\ Mirrored(b, nt, v, tn, FALSE)
<1> DEFINE u == Append(b, e)
           card == [state |-> "validated", turn |-> t]
           nt == Append(st, card)
           m == Len(b) + 1
           d == Len(st) + 1
<1>1. /\ DOMAIN u = DOMAIN b \union {m} /\ u[m] = e
      /\ \A i \in DOMAIN b : i < m /\ u[i] = b[i]
  BY AppendIs
<1>2. /\ DOMAIN nt = DOMAIN st \union {d} /\ nt[d] = card /\ d \notin DOMAIN st
      /\ \A c \in DOMAIN st : nt[c] = st[c]
  <2>1. card \in [state : States, turn : Nat]
    BY DEF States
  <2>2. \A c \in DOMAIN st : c < d
    BY <2>1, AppendIs
  <2>3. d \in Nat
    BY PositionsAre
  <2> HIDE DEF card
  <2>4. /\ DOMAIN nt = DOMAIN st \union {d} /\ nt[d] = card
        /\ \A c \in DOMAIN st : nt[c] = st[c]
    BY <2>1, AppendIs
  <2> QED
    BY <2>2, <2>3, <2>4
<1>3. card.state = "validated" /\ card.turn = t
  OBVIOUS
<1> HIDE DEF u, card, nt, m, d
<1>4. e.type = "action_proposal" /\ e.card = d
  BY DEF IsOffer, d
<1>5. \A i \in DOMAIN b : b[i].type = "proposal_state_changed" =>
        b[i].card \in DOMAIN nt /\ nt[b[i].card].state = b[i].state
  BY <1>2 DEF Mirrored
<1>6. \A i \in DOMAIN b : ~IsOffer(b[i], d) /\ ~IsChange(b[i], d)
  BY <1>2 DEF Mirrored, IsOffer, IsChange
<1>7. \A i \in DOMAIN u : u[i].type = "proposal_state_changed" =>
        u[i].card \in DOMAIN nt /\ nt[u[i].card].state = u[i].state
  BY <1>1, <1>4, <1>5
<1>8. ASSUME NEW i \in DOMAIN b, b[i].type = "action_proposal"
      PROVE  /\ b[i].card \in DOMAIN nt \ DOMAIN v /\ b[i].card # d
             /\ \A j \in DOMAIN b : (IsOffer(b[j], b[i].card) => i = j) /\ (IsChange(b[j], b[i].card) => i < j)
  BY <1>2, <1>8 DEF Mirrored
<1>9. ASSUME NEW i \in DOMAIN u, u[i].type = "action_proposal"
      PROVE  /\ u[i].card \in DOMAIN nt \ DOMAIN v
             /\ \A j \in DOMAIN u : (IsOffer(u[j], u[i].card) => i = j) /\ (IsChange(u[j], u[i].card) => i < j)
  <2>1. CASE i = m
    BY <1>1, <1>2, <1>4, <1>6, <2>1 DEF IsChange
  <2>2. CASE i \in DOMAIN b
    BY <1>1, <1>4, <1>8, <1>9, <2>2 DEF IsOffer, IsChange
  <2> QED
    BY <1>1, <2>1, <2>2
<1>10. \A c \in DOMAIN v : v[c].state \in {"validated", nt[c].state} /\ v[c].turn >= nt[c].turn
  BY <1>2 DEF Mirrored
<1>11. \A c \in DOMAIN nt : nt[c].turn <= tn
  BY <1>2, <1>3 DEF Mirrored
<1>12. ASSUME live, NEW c \in DOMAIN nt
       PROVE  /\ c \in DOMAIN v \/ \E i \in DOMAIN u : IsOffer(u[i], c)
              /\ \/ nt[c].state = IF c \in DOMAIN v THEN v[c].state ELSE "validated"
                 \/ \E i \in DOMAIN u : IsChange(u[i], c)
  <2>1. CASE c = d
    BY <1>1, <1>2, <1>3, <1>4, <2>1 DEF IsOffer
  <2>2. CASE c \in DOMAIN st
    <3>1. /\ c \in DOMAIN v \/ \E i \in DOMAIN b : IsOffer(b[i], c)
          /\ \/ st[c].state = IF c \in DOMAIN v THEN v[c].state ELSE "validated"
             \/ \E i \in DOMAIN b : IsChange(b[i], c)
      BY <1>12, <2>2 DEF Mirrored
    <3>2. (\E i \in DOMAIN b : IsOffer(b[i], c)) => \E i \in DOMAIN u : IsOffer(u[i], c)
      BY <1>1
    <3>3. (\E i \in DOMAIN b : IsChange(b[i], c)) => \E i \in DOMAIN u : IsChange(u[i], c)
      BY <1>1
    <3>4. nt[c] = st[c]
      BY <1>2, <2>2
    <3> QED
      BY <3>1, <3>2, <3>3, <3>4
  <2> QED
    BY <1>2, <2>1, <2>2
<1>13. Mirrored(u, nt, v, tn, live)
  BY <1>7, <1>9, <1>10, <1>11, <1>12 DEF Mirrored
<1>14. Mirrored(b, nt, v, tn, FALSE)
  BY <1>5, <1>8, <1>10, <1>11 DEF Mirrored
<1> QED
  BY <1>13, <1>14 DEF u, nt, card

(* What is left when the client has taken an event: the views follow it.    *)
LEMMA MirrorTaken ==
  ASSUME NEW b \in Seq(Events), b # <<>>, NEW st, NEW v, NEW tn \in Nat, NEW live, NEW nv,
         Mirrored(b, st, v, tn, live), DOMAIN v \subseteq DOMAIN st, \A c \in DOMAIN st : st[c].turn \in Nat,
         \A c : c \in DOMAIN nv <=> (c \in DOMAIN v \/ IsOffer(b[1], c)),
         \A c \in DOMAIN v : nv[c].turn = v[c].turn,
         \A c \in DOMAIN v : nv[c].state = IF IsChange(b[1], c) THEN b[1].state ELSE v[c].state,
         \A c : IsOffer(b[1], c) => nv[c].state = "validated" /\ nv[c].turn = tn
  PROVE  Mirrored(Tail(b), st, nv, tn, live)
<1> DEFINE u == Tail(b)
           h == b[1]
<1>1. /\ 1 \in DOMAIN b
      /\ \A i \in DOMAIN u : i \in Nat /\ i + 1 \in DOMAIN b /\ u[i] = b[i + 1] /\ i + 1 # 1
      /\ \A i \in DOMAIN b : i = 1 \/ (i - 1 \in DOMAIN u /\ u[i - 1] = b[i])
  <2>1. /\ 1 \in DOMAIN b
        /\ \A i \in DOMAIN u : i \in Nat /\ 1 <= i /\ i + 1 \in DOMAIN b /\ u[i] = b[i + 1]
        /\ \A i \in DOMAIN b : i = 1 \/ (i - 1 \in DOMAIN u /\ u[i - 1] = b[i])
    BY TailIs
  <2>2. \A i \in Nat : 1 <= i => i + 1 # 1
    OBVIOUS
  <2> QED
    BY <2>1, <2>2
<1>2. \A i \in DOMAIN b : i \in Nat /\ 1 <= i /\ b[i] \in Events
  BY PositionsAre
<1> HIDE DEF u
<1>3. \A i \in DOMAIN u : u[i].type = "proposal_state_changed" =>
        u[i].card \in DOMAIN st /\ st[u[i].card].state = u[i].state
  BY <1>1 DEF Mirrored
<1>4. ASSUME NEW i \in DOMAIN u, u[i].type = "action_proposal"
      PROVE  /\ u[i].card \in DOMAIN st \ DOMAIN nv
             /\ \A j \in DOMAIN u : (IsOffer(u[j], u[i].card) => i = j) /\ (IsChange(u[j], u[i].card) => i < j)
  <2> DEFINE k == i + 1
             c == u[i].card
  <2>1. k \in DOMAIN b /\ k # 1 /\ b[k].type = "action_proposal" /\ c = b[k].card
    BY <1>1, <1>4
  <2>2. /\ c \in DOMAIN st \ DOMAIN v
        /\ \A j \in DOMAIN b : (IsOffer(b[j], c) => k = j) /\ (IsChange(b[j], c) => k < j)
    <3> HIDE DEF k, c
    <3> QED
      BY <2>1 DEF Mirrored
  <2>3. ~IsOffer(b[1], c)
    BY <1>1, <2>1, <2>2
  <2>4. c \notin DOMAIN nv
    BY <2>2, <2>3
  <2>5. ASSUME NEW j \in DOMAIN u
        PROVE  (IsOffer(u[j], c) => i = j) /\ (IsChange(u[j], c) => i < j)
    <3>1. j \in Nat /\ i \in Nat /\ j + 1 \in DOMAIN b /\ u[j] = b[j + 1]
      BY <1>1
    <3>2. (IsOffer(u[j], c) => i + 1 = j + 1) /\ (IsChange(u[j], c) => i + 1 < j + 1)
      BY <2>2, <3>1
    <3> HIDE DEF c
    <3> QED
      BY <3>1, <3>2
  <2> QED
    BY <2>2, <2>4, <2>5
<1>5. \A c : IsOffer(h, c) => c \in DOMAIN st /\ c \notin DOMAIN v
  BY <1>1 DEF Mirrored, IsOffer
<1>6. \A c : IsChange(h, c) => c \in DOMAIN st /\ st[c].state = h.state
  BY <1>1 DEF Mirrored, IsChange
<1>7. ASSUME NEW c \in DOMAIN nv
      PROVE  nv[c].state \in {"validated", st[c].state} /\ nv[c].turn >= st[c].turn
  <2>1. CASE c \in DOMAIN v
    <3>1. v[c].state \in {"validated", st[c].state} /\ v[c].turn >= st[c].turn
      BY <2>1 DEF Mirrored
    <3> QED
      BY <1>6, <2>1, <3>1
  <2>2. CASE IsOffer(h, c)
    <3>1. c \in DOMAIN st /\ st[c].turn <= tn
      BY <1>5, <2>2 DEF Mirrored
    <3>2. nv[c].state = "validated" /\ nv[c].turn = tn
      BY <2>2
    <3> QED
      BY <3>1, <3>2
  <2> QED
    BY <2>1, <2>2
<1>8. ASSUME live, NEW c \in DOMAIN st
      PROVE  /\ c \in DOMAIN nv \/ \E i \in DOMAIN u : IsOffer(u[i], c)
             /\ \/ st[c].state = IF c \in DOMAIN nv THEN nv[c].state ELSE "validated"
                \/ \E i \in DOMAIN u : IsChange(u[i], c)
  <2>1. /\ c \in DOMAIN v \/ \E i \in DOMAIN b : IsOffer(b[i], c)
        /\ \/ st[c].state = IF c \in DOMAIN v THEN v[c].state ELSE "validated"
           \/ \E i \in DOMAIN b : IsChange(b[i], c)
    BY <1>8 DEF Mirrored
  <2>2. (\E i \in DOMAIN b : IsOffer(b[i], c)) => IsOffer(h, c) \/ \E i \in DOMAIN u : IsOffer(u[i], c)
    BY <1>1
  <2>3. (\E i \in DOMAIN b : IsChange(b[i], c)) => IsChange(h, c) \/ \E i \in DOMAIN u : IsChange(u[i], c)
    BY <1>1
  <2>4. c \in DOMAIN nv \/ \E i \in DOMAIN u : IsOffer(u[i], c)
    BY <2>1, <2>2
  <2>5. CASE IsChange(h, c)
    <3>1. c \in DOMAIN v
      <4>1. SUFFICES ASSUME c \notin DOMAIN v PROVE FALSE
        OBVIOUS
      <4>2. PICK i \in DOMAIN b : IsOffer(b[i], c)
        BY <2>1, <4>1
      <4>3. i < 1
        BY <1>1, <2>5, <4>2 DEF Mirrored, IsOffer
      <4> QED
        BY <1>2, <4>3
    <3> QED
      BY <1>6, <2>4, <2>5, <3>1
  <2>6. CASE IsOffer(h, c)
    <3>1. c \notin DOMAIN v /\ ~IsChange(h, c)
      BY <1>5, <2>6 DEF IsOffer, IsChange
    <3>2. st[c].state = "validated" \/ \E i \in DOMAIN u : IsChange(u[i], c)
      BY <2>1, <2>3, <3>1
    <3> QED
      BY <2>4, <2>6, <3>2
  <2>7. CASE ~IsChange(h, c) /\ ~IsOffer(h, c)
    BY <2>1, <2>3, <2>4, <2>7
  <2> QED
    BY <2>5, <2>6, <2>7
<1>9. \A c \in DOMAIN st : st[c].turn <= tn
  BY DEF Mirrored
<1>10. Mirrored(u, st, nv, tn, live)
  BY <1>3, <1>4, <1>7, <1>8, <1>9 DEF Mirrored
<1> QED
  BY <1>10 DEF u

(* The connection dies: the last events are lost.                           *)
LEMMA MirrorCut ==
  ASSUME NEW b \in Seq(Events), NEW n \in 0 .. Len(b), NEW st, NEW v, NEW tn, NEW live,
         Mirrored(b, st, v, tn, live)
  PROVE  Mirrored(SubSeq(b, 1, n), st, v, tn, FALSE)
<1> DEFINE u == SubSeq(b, 1, n)
<1>1. \A i \in DOMAIN u : i \in DOMAIN b /\ u[i] = b[i]
  BY CutIs
<1> HIDE DEF u
<1>2. Mirrored(u, st, v, tn, FALSE)
  BY <1>1 DEF Mirrored
<1> QED
  BY <1>2 DEF u

(* Nothing arrives: the views keep states and turns, and turns go on.       *)
LEMMA MirrorSame ==
  ASSUME NEW b, NEW st, NEW v, NEW tn \in Nat, NEW live, NEW nv, NEW ntn \in Nat, tn <= ntn,
         Mirrored(b, st, v, tn, live), DOMAIN nv = DOMAIN v, \A c \in DOMAIN st : st[c].turn \in Nat,
         \A c \in DOMAIN v : nv[c].state = v[c].state /\ nv[c].turn = v[c].turn
  PROVE  Mirrored(b, st, nv, ntn, live)
<1>1. \A c \in DOMAIN st : st[c].turn <= ntn
  BY DEF Mirrored
<1> QED
  BY <1>1 DEF Mirrored

-----------------------------------------------------------------------------
(* Texts.                                                                   *)

(* The text of n fragments, and of one more; shorter texts are prefixes.    *)
LEMMA TextIs ==
  ASSUME NEW n \in Nat
  PROVE  /\ Text(n) \in Seq(Nat) /\ Len(Text(n)) = n
         /\ Text(n) \o <<n + 1>> = Text(n + 1)
         /\ <<1>> = Text(1)
         /\ \A k \in 0 .. n : IsPrefix(Text(k), Text(n))
<1>1. ASSUME NEW k \in Nat
      PROVE  Text(k) \in Seq(Nat) /\ Len(Text(k)) = k /\ \A i \in 1 .. k : Text(k)[i] = i
  <2>1. Text(k) \in [1 .. k -> Nat]
    BY DEF Text
  <2>2. \A i \in 1 .. k : Text(k)[i] = i
    BY DEF Text
  <2> QED
    BY <2>1, <2>2
<1>2. Text(n) \o <<n + 1>> = Text(n + 1)
  <2> DEFINE s == Text(n)
             t == Text(n + 1)
             u == s \o <<n + 1>>
  <2>1. s \in Seq(Nat) /\ Len(s) = n /\ (\A i \in 1 .. n : s[i] = i)
    BY <1>1
  <2>2. t \in Seq(Nat) /\ Len(t) = n + 1 /\ \A i \in 1 .. n + 1 : t[i] = i
    BY <1>1
  <2> HIDE DEF s, t
  <2>3. u \in Seq(Nat) /\ Len(u) = n + 1 /\ (\A i \in 1 .. n : u[i] = s[i]) /\ u[n + 1] = n + 1
    BY <2>1
  <2> HIDE DEF u
  <2>4. \A i \in 1 .. n + 1 : u[i] = i
    BY <2>1, <2>3
  <2>5. u = t
    BY <2>2, <2>3, <2>4, SeqEqual
  <2> QED
    BY <2>5 DEF s, t, u
<1>3. <<1>> = Text(1)
  <2>1. Text(1) \in Seq(Nat) /\ Len(Text(1)) = 1 /\ \A i \in 1 .. 1 : Text(1)[i] = i
    BY <1>1
  <2> QED
    BY <2>1
<1>4. ASSUME NEW k \in 0 .. n
      PROVE  IsPrefix(Text(k), Text(n))
  <2> DEFINE s == Text(k)
             t == Text(n)
  <2>1. /\ k \in Nat /\ s \in Seq(Nat) /\ Len(s) = k /\ (\A i \in 1 .. k : s[i] = i)
        /\ t \in Seq(Nat) /\ Len(t) = n /\ \A i \in 1 .. n : t[i] = i
    BY <1>1
  <2> HIDE DEF s, t
  <2>2. /\ SubSeq(s, 1, k) \in Seq(Nat) /\ Len(SubSeq(s, 1, k)) = k
        /\ SubSeq(t, 1, k) \in Seq(Nat) /\ Len(SubSeq(t, 1, k)) = k
        /\ \A i \in 1 .. k : SubSeq(s, 1, k)[i] = s[i] /\ SubSeq(t, 1, k)[i] = t[i]
    BY <2>1
  <2>3. \A i \in 1 .. k : SubSeq(s, 1, k)[i] = SubSeq(t, 1, k)[i]
    BY <2>1, <2>2
  <2>4. SubSeq(s, 1, k) = SubSeq(t, 1, k)
    BY <2>2, <2>3, SeqEqual
  <2>5. IsPrefix(s, t)
    BY <2>1, <2>4 DEF IsPrefix
  <2> QED
    BY <2>5 DEF s, t
<1> QED
  BY <1>1, <1>2, <1>3, <1>4

-----------------------------------------------------------------------------
(* What is on its way of messages.                                          *)

(* Messages grow and close; what is closed stays as it is.                  *)
Grows(w, wr, nw, nwr) ==
  \A m \in DOMAIN w :
    /\ m \in DOMAIN nw /\ w[m] <= nw[m]
    /\ Closed(w, wr, m) => Closed(nw, nwr, m) /\ nw[m] = w[m]

(* Whatever happens to the connection, what was under way stays true.       *)
LEMMA SpokenLost ==
  ASSUME NEW b, NEW w \in Seq(Nat), NEW wr, NEW nw \in Seq(Nat), NEW nwr, NEW tr, NEW open, NEW live,
         Spoken(b, w, wr, tr, open, live), Grows(w, wr, nw, nwr)
  PROVE  Spoken(b, nw, nwr, tr, open, FALSE)
<1>1. /\ \A m \in DOMAIN w : w[m] \in Nat
      /\ \A m \in DOMAIN nw : nw[m] \in Nat
  OBVIOUS
<1>2. \A m \in DOMAIN tr : m \in DOMAIN nw /\ Len(tr[m]) \in Nat /\ tr[m] = Text(Len(tr[m])) /\ Len(tr[m]) <= nw[m]
  BY <1>1 DEF Spoken, Grows
<1>3. \A m \in DOMAIN tr \ open :
        Closed(nw, nwr, m) /\ Len(tr[m]) = nw[m] /\ \A i \in DOMAIN b : ~IsChat(b[i], m)
  BY DEF Spoken, Grows
<1>4. \A i \in DOMAIN b : b[i].type = "chat_message" /\ b[i].done =>
        /\ Closed(nw, nwr, b[i].msg) /\ b[i].text = Text(nw[b[i].msg])
        /\ \A j \in DOMAIN b : IsChat(b[j], b[i].msg) => j <= i
  <2> SUFFICES ASSUME NEW i \in DOMAIN b, b[i].type = "chat_message", b[i].done
               PROVE  /\ Closed(nw, nwr, b[i].msg) /\ b[i].text = Text(nw[b[i].msg])
                      /\ \A j \in DOMAIN b : IsChat(b[j], b[i].msg) => j <= i
    OBVIOUS
  <2>1. /\ Closed(w, wr, b[i].msg) /\ b[i].text = Text(w[b[i].msg])
        /\ \A j \in DOMAIN b : IsChat(b[j], b[i].msg) => j <= i
    BY DEF Spoken
  <2>2. b[i].msg \in DOMAIN w
    BY <2>1 DEF Closed
  <2> QED
    BY <2>1, <2>2 DEF Grows
<1>5. \A i \in DOMAIN b : b[i].type = "chat_message" /\ ~b[i].done =>
        \E n \in Nat :
          /\ b[i].text = <<n>> /\ b[i].msg \in DOMAIN nw
          /\ Heard(tr, b[i].msg) < n /\ n <= nw[b[i].msg]
          /\ \A k \in Nat : \A j \in DOMAIN b : IsDelta(b[j], b[i].msg, k) /\ j < i => k < n
          /\ \A k \in Nat : Heard(tr, b[i].msg) < k /\ k < n => \E j \in DOMAIN b : j < i /\ IsDelta(b[j], b[i].msg, k)
  <2> SUFFICES ASSUME NEW i \in DOMAIN b, b[i].type = "chat_message", ~b[i].done
               PROVE  \E n \in Nat :
          /\ b[i].text = <<n>> /\ b[i].msg \in DOMAIN nw
          /\ Heard(tr, b[i].msg) < n /\ n <= nw[b[i].msg]
          /\ \A k \in Nat : \A j \in DOMAIN b : IsDelta(b[j], b[i].msg, k) /\ j < i => k < n
          /\ \A k \in Nat : Heard(tr, b[i].msg) < k /\ k < n => \E j \in DOMAIN b : j < i /\ IsDelta(b[j], b[i].msg, k)
    OBVIOUS
  <2>1. PICK n \in Nat :
          /\ b[i].text = <<n>> /\ b[i].msg \in DOMAIN w
          /\ Heard(tr, b[i].msg) < n /\ n <= w[b[i].msg]
          /\ \A k \in Nat : \A j \in DOMAIN b : IsDelta(b[j], b[i].msg, k) /\ j < i => k < n
          /\ \A k \in Nat : Heard(tr, b[i].msg) < k /\ k < n => \E j \in DOMAIN b : j < i /\ IsDelta(b[j], b[i].msg, k)
    BY DEF Spoken
  <2>2. b[i].msg \in DOMAIN nw /\ n <= nw[b[i].msg]
    BY <1>1, <2>1 DEF Grows
  <2> WITNESS n \in Nat
  <2> QED
    BY <2>1, <2>2
<1> QED
  BY <1>2, <1>3, <1>4, <1>5 DEF Spoken

(* An event more. A delta is the next fragment of the message being         *)
(* written; a final text that of a message that was open or is new; an      *)
(* error comes when no message is open.                                     *)
LEMMA SpokenAppend ==
  ASSUME NEW b \in Seq(Events), NEW e \in Events, NEW w \in Seq(Nat), NEW wr, NEW nw \in Seq(Nat), NEW nwr,
         NEW tr, NEW open, Spoken(b, w, wr, tr, open, TRUE), Grows(w, wr, nw, nwr),
         e.type = "chat_message" => e.msg \in DOMAIN nw /\ ~Closed(w, wr, e.msg),
         \A m \in DOMAIN nw : ~IsChat(e, m) =>
           m \in DOMAIN w /\ nw[m] = w[m] /\ (Closed(nw, nwr, m) <=> Closed(w, wr, m)),
         e.type = "chat_message" /\ e.done =>
           Closed(nw, nwr, e.msg) /\ e.text = Text(nw[e.msg]),
         e.type = "chat_message" /\ ~e.done =>
           /\ ~Closed(nw, nwr, e.msg) /\ e.text = <<nw[e.msg]>>
           /\ IF e.msg \in DOMAIN w THEN nw[e.msg] = w[e.msg] + 1 ELSE nw[e.msg] = 1,
         e.type = "error" => \A m \in DOMAIN w : Closed(w, wr, m)
  PROVE  Spoken(Append(b, e), nw, nwr, tr, open, TRUE)
<1> DEFINE u == Append(b, e)
           z == Len(b) + 1
           Told(i, t, n) ==
             /\ t[i].text = <<n>> /\ t[i].msg \in DOMAIN nw
             /\ Heard(tr, t[i].msg) < n /\ n <= nw[t[i].msg]
             /\ \A k \in Nat : \A j \in DOMAIN t : IsDelta(t[j], t[i].msg, k) /\ j < i => k < n
             /\ \A k \in Nat : Heard(tr, t[i].msg) < k /\ k < n => \E j \in DOMAIN t : j < i /\ IsDelta(t[j], t[i].msg, k)
<1>0. Spoken(b, nw, nwr, tr, open, FALSE)
  BY SpokenLost
<1>1. /\ DOMAIN u = DOMAIN b \union {z} /\ u[z] = e
      /\ \A i \in DOMAIN b : i < z /\ u[i] = b[i]
  BY AppendIs
<1>2. /\ z \in Nat /\ \A i \in DOMAIN b : i \in Nat /\ b[i] \in Events
      /\ \A m \in DOMAIN w : w[m] \in Nat
      /\ \A m \in DOMAIN nw : nw[m] \in Nat
  BY PositionsAre
<1> HIDE DEF u, z
<1>3. \A m \in DOMAIN tr : m \in DOMAIN nw /\ Len(tr[m]) \in Nat /\ tr[m] = Text(Len(tr[m])) /\ Len(tr[m]) <= nw[m]
  BY <1>0 DEF Spoken
<1>4. \A m \in DOMAIN tr \ open :
        Closed(nw, nwr, m) /\ Len(tr[m]) = nw[m] /\ \A i \in DOMAIN u : ~IsChat(u[i], m)
  <2>1. \A m \in DOMAIN tr \ open : Closed(w, wr, m)
    BY DEF Spoken
  <2>2. \A m \in DOMAIN tr \ open : ~IsChat(e, m)
    BY <2>1 DEF IsChat
  <2>3. \A m \in DOMAIN tr \ open :
          Closed(nw, nwr, m) /\ Len(tr[m]) = nw[m] /\ \A i \in DOMAIN b : ~IsChat(b[i], m)
    BY <1>0 DEF Spoken
  <2> QED
    BY <1>1, <2>2, <2>3
<1>5. ASSUME NEW i \in DOMAIN u, u[i].type = "chat_message", u[i].done
      PROVE  /\ Closed(nw, nwr, u[i].msg) /\ u[i].text = Text(nw[u[i].msg])
             /\ \A j \in DOMAIN u : IsChat(u[j], u[i].msg) => j <= i
  <2>1. CASE i = z
    <3>1. \A j \in DOMAIN u : j <= z
      BY <1>1, <1>2
    <3> QED
      BY <1>1, <1>5, <2>1, <3>1
  <2>2. CASE i \in DOMAIN b
    <3>1. /\ Closed(nw, nwr, b[i].msg) /\ b[i].text = Text(nw[b[i].msg])
          /\ \A j \in DOMAIN b : IsChat(b[j], b[i].msg) => j <= i
      BY <1>0, <1>1, <1>5, <2>2 DEF Spoken
    <3>2. Closed(w, wr, b[i].msg)
      BY <1>1, <1>5, <2>2 DEF Spoken
    <3>3. ~IsChat(e, b[i].msg)
      BY <3>2 DEF IsChat
    <3> QED
      BY <1>1, <2>2, <3>1, <3>3
  <2> QED
    BY <1>1, <2>1, <2>2
<1>6. ASSUME NEW i \in DOMAIN u, u[i].type = "chat_message", ~u[i].done
      PROVE  \E n \in Nat : Told(i, u, n)
  <2>1. CASE i \in DOMAIN b
    <3>0. b[i].type = "chat_message" /\ ~b[i].done
      BY <1>1, <1>6, <2>1
    <3>1. PICK n \in Nat : Told(i, b, n)
      BY <1>0, <2>1, <3>0 DEF Spoken
    <3>2. Told(i, u, n)
      <4>1. u[i] = b[i] /\ i < z /\ ~(z < i)
        BY <1>1, <1>2, <2>1
      <4>2. \A k \in Nat : \A j \in DOMAIN u : IsDelta(u[j], u[i].msg, k) /\ j < i => k < n
        BY <1>1, <3>1, <4>1
      <4>3. \A k \in Nat : Heard(tr, u[i].msg) < k /\ k < n => \E j \in DOMAIN u : j < i /\ IsDelta(u[j], u[i].msg, k)
        BY <1>1, <3>1, <4>1
      <4> QED
        BY <3>1, <4>1, <4>2, <4>3
    <3> QED
      BY <3>2
  <2>2. CASE i = z
    <3> DEFINE m == e.msg
               n == nw[m]
    <3>1. /\ u[i] = e /\ e.type = "chat_message" /\ ~e.done /\ m \in DOMAIN nw
          /\ e.text = <<n>> /\ ~Closed(nw, nwr, m) /\ n \in Nat
          /\ ~Closed(w, wr, m)
      BY <1>1, <1>2, <1>6, <2>2
    <3>2. IF m \in DOMAIN w THEN n = w[m] + 1 ELSE n = 1
      BY <3>1
    <3> HIDE DEF m, n
    <3>3. m \in DOMAIN tr => m \in DOMAIN w /\ Len(tr[m]) \in Nat /\ Len(tr[m]) <= w[m]
      BY DEF Spoken
    <3>4. Heard(tr, m) < n
      <4>1. CASE m \in DOMAIN tr
        <5>1. m \in DOMAIN w /\ Len(tr[m]) \in Nat /\ Len(tr[m]) <= w[m]
          BY <3>3, <4>1
        <5>2. n = w[m] + 1 /\ w[m] \in Nat
          BY <1>2, <3>2, <5>1
        <5>3. Heard(tr, m) = Len(tr[m])
          BY <4>1 DEF Heard
        <5> QED
          BY <5>1, <5>2, <5>3
      <4>2. CASE m \notin DOMAIN tr
        <5>1. m \in DOMAIN w => w[m] \in Nat
          BY <1>2
        <5>2. Heard(tr, m) = 0 /\ 0 < n
          BY <3>1, <3>2, <4>2, <5>1 DEF Heard
        <5> QED
          BY <5>2
      <4> QED
        BY <4>1, <4>2
    <3>5. ASSUME NEW k \in Nat, NEW j \in DOMAIN u, IsDelta(u[j], m, k), j < i
          PROVE  k < n
      <4>1. j \in DOMAIN b /\ u[j] = b[j]
        BY <1>1, <1>2, <2>2, <3>5
      <4>2. b[j].type = "chat_message" /\ ~b[j].done /\ b[j].msg = m /\ b[j].text = <<k>>
        BY <3>5, <4>1 DEF IsDelta
      <4>3. PICK l \in Nat : b[j].text = <<l>> /\ m \in DOMAIN w /\ l <= w[m]
        BY <4>1, <4>2 DEF Spoken
      <4>4. k = l
        BY <4>2, <4>3
      <4> QED
        BY <1>2, <3>2, <4>3, <4>4
    <3>6. ASSUME NEW k \in Nat, Heard(tr, m) < k, k < n
          PROVE  \E j \in DOMAIN u : j < i /\ IsDelta(u[j], m, k)
      <4>1. Heard(tr, m) \in Nat
        BY <3>3 DEF Heard
      <4>2. m \in DOMAIN w /\ k <= w[m]
        BY <1>2, <3>2, <3>6, <4>1
      <4>3. PICK j \in DOMAIN b : IsDelta(b[j], m, k)
        BY <3>1, <3>6, <4>2 DEF Spoken
      <4> QED
        BY <1>1, <2>2, <4>3
    <3>7. Told(i, u, n)
      BY <1>2, <3>1, <3>4, <3>5, <3>6 DEF m
    <3> QED
      BY <3>1, <3>7
  <2> QED
    BY <1>1, <2>1, <2>2
<1>7. ASSUME NEW i \in DOMAIN u, u[i].type = "error"
      PROVE  /\ \A m \in open : \E k \in DOMAIN u : k < i /\ IsFinal(u[k], m)
             /\ \A j \in DOMAIN u : j < i /\ u[j].type = "chat_message" =>
                  \E k \in DOMAIN u : k < i /\ IsFinal(u[k], u[j].msg)
  <2>1. CASE i \in DOMAIN b
    <3>1. /\ \A m \in open : \E k \in DOMAIN b : k < i /\ IsFinal(b[k], m)
          /\ \A j \in DOMAIN b : j < i /\ b[j].type = "chat_message" =>
               \E k \in DOMAIN b : k < i /\ IsFinal(b[k], b[j].msg)
      <4>1. b[i].type = "error"
        BY <1>1, <1>7, <2>1
      <4> QED
        BY <1>0, <2>1, <4>1 DEF Spoken
    <3>2. ~(z < i)
      BY <1>1, <1>2, <2>1
    <3> QED
      BY <1>1, <3>1, <3>2
  <2>2. CASE i = z
    <3>1. \A m \in DOMAIN w : Closed(w, wr, m)
      BY <1>1, <1>7, <2>2
    <3>2. \A m \in DOMAIN w : m \in DOMAIN tr \ open \/ \E k \in DOMAIN b : IsFinal(b[k], m)
      BY <3>1 DEF Spoken
    <3>3. \A m \in open : m \in DOMAIN w
      BY DEF Spoken
    <3>4. ASSUME NEW j \in DOMAIN b, b[j].type = "chat_message"
          PROVE  b[j].msg \in DOMAIN w /\ b[j].msg \notin DOMAIN tr \ open
      <4>1. b[j].msg \in DOMAIN w
        <5>1. CASE b[j].done
          BY <3>4, <5>1 DEF Spoken, Closed
        <5>2. CASE ~b[j].done
          BY <3>4, <5>2 DEF Spoken
        <5> QED
          BY <5>1, <5>2
      <4>2. b[j].msg \notin DOMAIN tr \ open
        BY <3>4 DEF Spoken, IsChat
      <4> QED
        BY <4>1, <4>2
    <3>5. \A m \in open : \E k \in DOMAIN u : k < i /\ IsFinal(u[k], m)
      BY <1>1, <2>2, <3>2, <3>3
    <3>6. \A j \in DOMAIN u : j < i /\ u[j].type = "chat_message" =>
            \E k \in DOMAIN u : k < i /\ IsFinal(u[k], u[j].msg)
      <4>1. \A j \in DOMAIN u : j < i => j \in DOMAIN b
        BY <1>1, <1>2, <2>2
      <4> QED
        BY <1>1, <2>2, <3>2, <3>4, <4>1
    <3> QED
      BY <3>5, <3>6
  <2> QED
    BY <1>1, <2>1, <2>2
<1>8. ASSUME NEW m \in DOMAIN nw
      PROVE  IF Closed(nw, nwr, m) THEN m \in DOMAIN tr \ open \/ \E i \in DOMAIN u : IsFinal(u[i], m)
             ELSE \A k \in Nat : Heard(tr, m) < k /\ k <= nw[m] => \E i \in DOMAIN u : IsDelta(u[i], m, k)
  <2>1. CASE ~IsChat(e, m)
    <3>1. m \in DOMAIN w /\ nw[m] = w[m] /\ (Closed(nw, nwr, m) <=> Closed(w, wr, m))
      BY <2>1
    <3>2. IF Closed(w, wr, m) THEN m \in DOMAIN tr \ open \/ \E i \in DOMAIN b : IsFinal(b[i], m)
          ELSE \A k \in Nat : Heard(tr, m) < k /\ k <= w[m] => \E i \in DOMAIN b : IsDelta(b[i], m, k)
      BY <3>1 DEF Spoken
    <3> QED
      BY <1>1, <3>1, <3>2
  <2>2. CASE IsChat(e, m) /\ e.done
    <3>1. Closed(nw, nwr, m) /\ IsFinal(u[z], m)
      BY <1>1, <2>2 DEF IsChat, IsFinal
    <3> QED
      BY <1>1, <3>1
  <2>3. CASE IsChat(e, m) /\ ~e.done
    <3>1. /\ ~Closed(nw, nwr, m) /\ e.text = <<nw[m]>> /\ ~Closed(w, wr, m)
          /\ IF m \in DOMAIN w THEN nw[m] = w[m] + 1 ELSE nw[m] = 1
      BY <2>3 DEF IsChat
    <3>2. m \in DOMAIN tr => m \in DOMAIN w /\ Len(tr[m]) \in Nat
      BY DEF Spoken
    <3>3. Heard(tr, m) \in Nat
      BY <3>2 DEF Heard
    <3>4. ASSUME NEW k \in Nat, Heard(tr, m) < k, k <= nw[m]
          PROVE  \E i \in DOMAIN u : IsDelta(u[i], m, k)
      <4>1. CASE k = nw[m]
        <5>1. IsDelta(e, m, k)
          BY <2>3, <3>1, <4>1 DEF IsDelta, IsChat
        <5>2. z \in DOMAIN u /\ u[z] = e
          BY <1>1
        <5> QED
          BY <5>1, <5>2
      <4>2. CASE k # nw[m]
        <5>1. m \in DOMAIN w /\ k <= w[m]
          <6>1. CASE m \in DOMAIN w
            <7>1. nw[m] = w[m] + 1 /\ w[m] \in Nat
              BY <3>1, <6>1
            <7> QED
              BY <3>4, <4>2, <6>1, <7>1
          <6>2. CASE m \notin DOMAIN w
            BY <3>1, <3>3, <3>4, <4>2, <6>2
          <6> QED
            BY <6>1, <6>2
        <5>2. PICK j \in DOMAIN b : IsDelta(b[j], m, k)
          BY <3>1, <3>4, <5>1 DEF Spoken
        <5> QED
          BY <1>1, <5>2
      <4> QED
        BY <4>1, <4>2
    <3> QED
      BY <3>1, <3>4
  <2> QED
    BY <2>1, <2>2, <2>3
<1>9. open \subseteq DOMAIN tr
  BY DEF Spoken
<1>10. Spoken(u, nw, nwr, tr, open, TRUE)
  BY <1>3, <1>4, <1>5, <1>6, <1>7, <1>8, <1>9 DEF Spoken
<1> QED
  BY <1>10 DEF u

(* Events of other types come and go: the chat messages under way keep      *)
(* their order among each other and towards the errors.                     *)
LEMMA SpokenMoved ==
  ASSUME NEW b, NEW u, NEW g, NEW w, NEW wr, NEW tr, NEW open, NEW live, Spoken(b, w, wr, tr, open, live),
         \A i \in DOMAIN u : u[i].type \in {"chat_message", "error"} => g[i] \in DOMAIN b /\ u[i] = b[g[i]],
         \A i \in DOMAIN b : b[i].type = "chat_message" => \E j \in DOMAIN u : g[j] = i /\ u[j] = b[i],
         \A i, j \in DOMAIN u : (i < j <=> g[i] < g[j]) /\ (i <= j <=> g[i] <= g[j])
  PROVE  Spoken(u, w, wr, tr, open, live)
<1>1. \A m \in DOMAIN tr : m \in DOMAIN w /\ Len(tr[m]) \in Nat /\ tr[m] = Text(Len(tr[m])) /\ Len(tr[m]) <= w[m]
  BY DEF Spoken
<1>2. open \subseteq DOMAIN tr
  BY DEF Spoken
<1>3. \A m \in DOMAIN tr \ open :
        Closed(w, wr, m) /\ Len(tr[m]) = w[m] /\ \A i \in DOMAIN u : ~IsChat(u[i], m)
  BY DEF Spoken, IsChat
<1>4. ASSUME NEW i \in DOMAIN u, u[i].type = "chat_message", u[i].done
      PROVE  /\ Closed(w, wr, u[i].msg) /\ u[i].text = Text(w[u[i].msg])
             /\ \A j \in DOMAIN u : IsChat(u[j], u[i].msg) => j <= i
  <2>1. g[i] \in DOMAIN b /\ u[i] = b[g[i]]
    BY <1>4
  <2>2. /\ Closed(w, wr, u[i].msg) /\ u[i].text = Text(w[u[i].msg])
        /\ \A j \in DOMAIN b : IsChat(b[j], u[i].msg) => j <= g[i]
    BY <1>4, <2>1 DEF Spoken
  <2>3. ASSUME NEW j \in DOMAIN u, IsChat(u[j], u[i].msg)
        PROVE  j <= i
    <3>1. g[j] \in DOMAIN b /\ u[j] = b[g[j]]
      BY <2>3 DEF IsChat
    <3> QED
      BY <2>2, <2>3, <3>1
  <2> QED
    BY <2>2, <2>3
<1>5. ASSUME NEW i \in DOMAIN u, u[i].type = "chat_message", ~u[i].done
      PROVE  \E n \in Nat :
               /\ u[i].text = <<n>> /\ u[i].msg \in DOMAIN w
               /\ Heard(tr, u[i].msg) < n /\ n <= w[u[i].msg]
               /\ \A k \in Nat : \A j \in DOMAIN u : IsDelta(u[j], u[i].msg, k) /\ j < i => k < n
               /\ \A k \in Nat : Heard(tr, u[i].msg) < k /\ k < n => \E j \in DOMAIN u : j < i /\ IsDelta(u[j], u[i].msg, k)
  <2>1. g[i] \in DOMAIN b /\ u[i] = b[g[i]]
    BY <1>5
  <2>2. PICK n \in Nat :
          /\ u[i].text = <<n>> /\ u[i].msg \in DOMAIN w
          /\ Heard(tr, u[i].msg) < n /\ n <= w[u[i].msg]
          /\ \A k \in Nat : \A j \in DOMAIN b : IsDelta(b[j], u[i].msg, k) /\ j < g[i] => k < n
          /\ \A k \in Nat : Heard(tr, u[i].msg) < k /\ k < n => \E j \in DOMAIN b : j < g[i] /\ IsDelta(b[j], u[i].msg, k)
    BY <1>5, <2>1 DEF Spoken
  <2>3. ASSUME NEW k \in Nat, NEW j \in DOMAIN u, IsDelta(u[j], u[i].msg, k), j < i
        PROVE  k < n
    <3>1. g[j] \in DOMAIN b /\ u[j] = b[g[j]]
      BY <2>3 DEF IsDelta
    <3> QED
      BY <2>2, <2>3, <3>1
  <2>4. ASSUME NEW k \in Nat, Heard(tr, u[i].msg) < k, k < n
        PROVE  \E j \in DOMAIN u : j < i /\ IsDelta(u[j], u[i].msg, k)
    <3>1. PICK l \in DOMAIN b : l < g[i] /\ IsDelta(b[l], u[i].msg, k)
      BY <2>2, <2>4
    <3>2. PICK j \in DOMAIN u : g[j] = l /\ u[j] = b[l]
      BY <3>1 DEF IsDelta
    <3> QED
      BY <3>1, <3>2
  <2> WITNESS n \in Nat
  <2> QED
    BY <2>2, <2>3, <2>4
<1>6. ASSUME NEW i \in DOMAIN u, u[i].type = "error"
      PROVE  /\ \A m \in open : \E k \in DOMAIN u : k < i /\ IsFinal(u[k], m)
             /\ \A j \in DOMAIN u : j < i /\ u[j].type = "chat_message" =>
                  \E k \in DOMAIN u : k < i /\ IsFinal(u[k], u[j].msg)
  <2>1. g[i] \in DOMAIN b /\ u[i] = b[g[i]]
    BY <1>6
  <2>2. /\ \A m \in open : \E k \in DOMAIN b : k < g[i] /\ IsFinal(b[k], m)
        /\ \A j \in DOMAIN b : j < g[i] /\ b[j].type = "chat_message" =>
             \E k \in DOMAIN b : k < g[i] /\ IsFinal(b[k], b[j].msg)
    BY <1>6, <2>1 DEF Spoken
  <2>3. ASSUME NEW m, NEW l \in DOMAIN b, l < g[i], IsFinal(b[l], m)
        PROVE  \E k \in DOMAIN u : k < i /\ IsFinal(u[k], m)
    <3>1. PICK k \in DOMAIN u : g[k] = l /\ u[k] = b[l]
      BY <2>3 DEF IsFinal
    <3> QED
      BY <2>3, <3>1
  <2>4. ASSUME NEW j \in DOMAIN u, j < i, u[j].type = "chat_message"
        PROVE  \E k \in DOMAIN u : k < i /\ IsFinal(u[k], u[j].msg)
    <3>1. g[j] \in DOMAIN b /\ u[j] = b[g[j]] /\ g[j] < g[i]
      BY <2>4
    <3> QED
      BY <2>2, <2>3, <2>4, <3>1
  <2> QED
    BY <2>2, <2>3, <2>4
<1>7. ASSUME live, NEW m \in DOMAIN w
      PROVE  IF Closed(w, wr, m) THEN m \in DOMAIN tr \ open \/ \E i \in DOMAIN u : IsFinal(u[i], m)
             ELSE \A k \in Nat : Heard(tr, m) < k /\ k <= w[m] => \E i \in DOMAIN u : IsDelta(u[i], m, k)
  <2>1. IF Closed(w, wr, m) THEN m \in DOMAIN tr \ open \/ \E i \in DOMAIN b : IsFinal(b[i], m)
        ELSE \A k \in Nat : Heard(tr, m) < k /\ k <= w[m] => \E i \in DOMAIN b : IsDelta(b[i], m, k)
    BY <1>7 DEF Spoken
  <2>2. (\E i \in DOMAIN b : IsFinal(b[i], m)) => \E i \in DOMAIN u : IsFinal(u[i], m)
    BY DEF IsFinal
  <2>3. \A k \in Nat : (\E i \in DOMAIN b : IsDelta(b[i], m, k)) => \E i \in DOMAIN u : IsDelta(u[i], m, k)
    BY DEF IsDelta
  <2> QED
    BY <2>1, <2>2, <2>3
<1> QED
  BY <1>1, <1>2, <1>3, <1>4, <1>5, <1>6, <1>7 DEF Spoken

(* Events that are neither chat messages nor errors change nothing.         *)
LEMMA SpokenConcat ==
  ASSUME NEW b \in Seq(Events), NEW e \in Seq(Events), NEW w, NEW wr, NEW tr, NEW open, NEW live,
         Spoken(b, w, wr, tr, open, live), \A i \in DOMAIN e : e[i].type \notin {"chat_message", "error"}
  PROVE  Spoken(b \o e, w, wr, tr, open, live)
<1> DEFINE u == b \o e
           n == Len(b)
           g == [i \in DOMAIN u |-> i]
<1>1. /\ \A i \in DOMAIN b : i \in DOMAIN u /\ u[i] = b[i]
      /\ \A i \in DOMAIN e : n + i \in DOMAIN u /\ u[n + i] = e[i]
      /\ \A i \in DOMAIN u : i \in DOMAIN b \/ \E j \in DOMAIN e : i = n + j
  BY ConcatIs
<1> HIDE DEF u, n
<1>2. \A i \in DOMAIN u : u[i].type \in {"chat_message", "error"} => g[i] \in DOMAIN b /\ u[i] = b[g[i]]
  BY <1>1
<1>3. \A i \in DOMAIN b : b[i].type = "chat_message" => \E j \in DOMAIN u : g[j] = i /\ u[j] = b[i]
  BY <1>1
<1>4. \A i, j \in DOMAIN u : (i < j <=> g[i] < g[j]) /\ (i <= j <=> g[i] <= g[j])
  OBVIOUS
<1> HIDE DEF g
<1>5. Spoken(u, w, wr, tr, open, live)
  BY <1>2, <1>3, <1>4, SpokenMoved
<1> QED
  BY <1>5 DEF u

(* The client takes an event that is no chat message. An error finds no     *)
(* message open: the final text of each came first.                         *)
LEMMA SpokenTaken ==
  ASSUME NEW b \in Seq(Events), b # <<>>, NEW w, NEW wr, NEW tr, NEW open, NEW live,
         Spoken(b, w, wr, tr, open, live), b[1].type # "chat_message"
  PROVE  /\ Spoken(Tail(b), w, wr, tr, open, live)
         /\ b[1].type = "error" => open = {}
<1> DEFINE u == Tail(b)
           g == [i \in DOMAIN u |-> i + 1]
<1>1. /\ 1 \in DOMAIN b
      /\ \A i \in DOMAIN u : i \in Nat /\ 1 <= i /\ i + 1 \in DOMAIN b /\ u[i] = b[i + 1]
      /\ \A i \in DOMAIN b : i = 1 \/ (i - 1 \in DOMAIN u /\ u[i - 1] = b[i])
  BY TailIs
<1>0. \A i \in DOMAIN b : i \in Nat /\ 1 <= i
  BY PositionsAre
<1> HIDE DEF u
<1>2. \A i \in DOMAIN u : u[i].type \in {"chat_message", "error"} => g[i] \in DOMAIN b /\ u[i] = b[g[i]]
  BY <1>1
<1>3. ASSUME NEW i \in DOMAIN b, b[i].type = "chat_message"
      PROVE  \E j \in DOMAIN u : g[j] = i /\ u[j] = b[i]
  <2>1. i - 1 \in DOMAIN u /\ u[i - 1] = b[i]
    BY <1>1, <1>3
  <2>2. g[i - 1] = i
    BY <1>0, <2>1
  <2> QED
    BY <2>1, <2>2
<1>4. \A i, j \in DOMAIN u : (i < j <=> g[i] < g[j]) /\ (i <= j <=> g[i] <= g[j])
  BY <1>1
<1> HIDE DEF g
<1>5. Spoken(u, w, wr, tr, open, live)
  BY <1>2, <1>3, <1>4, SpokenMoved
<1>6. b[1].type = "error" => open = {}
  <2> SUFFICES ASSUME b[1].type = "error", NEW m \in open PROVE FALSE
    OBVIOUS
  <2>1. PICK k \in DOMAIN b : k < 1
    BY <1>1 DEF Spoken
  <2> QED
    BY <1>0, <2>1
<1> QED
  BY <1>5, <1>6 DEF u

(* The connection dies: the last events are lost.                           *)
LEMMA SpokenCut ==
  ASSUME NEW b \in Seq(Events), NEW n \in 0 .. Len(b), NEW w, NEW wr, NEW tr, NEW open, NEW live,
         Spoken(b, w, wr, tr, open, live)
  PROVE  Spoken(SubSeq(b, 1, n), w, wr, tr, open, FALSE)
<1> DEFINE u == SubSeq(b, 1, n)
<1>1. /\ \A i \in DOMAIN u : i \in DOMAIN b /\ u[i] = b[i]
      /\ \A i \in DOMAIN u : \A j \in DOMAIN b : j <= i => j \in DOMAIN u
  BY CutIs
<1>2. \A i \in DOMAIN b : i \in Nat
  BY PositionsAre
<1> HIDE DEF u
<1>3. \A i \in DOMAIN u : \A j \in DOMAIN b : j < i => j \in DOMAIN u
  BY <1>1, <1>2
<1>4. \A m \in DOMAIN tr : m \in DOMAIN w /\ Len(tr[m]) \in Nat /\ tr[m] = Text(Len(tr[m])) /\ Len(tr[m]) <= w[m]
  BY DEF Spoken
<1>5. open \subseteq DOMAIN tr
  BY DEF Spoken
<1>6. \A m \in DOMAIN tr \ open :
        Closed(w, wr, m) /\ Len(tr[m]) = w[m] /\ \A i \in DOMAIN u : ~IsChat(u[i], m)
  BY <1>1 DEF Spoken
<1>7. \A i \in DOMAIN u : u[i].type = "chat_message" /\ u[i].done =>
        /\ Closed(w, wr, u[i].msg) /\ u[i].text = Text(w[u[i].msg])
        /\ \A j \in DOMAIN u : IsChat(u[j], u[i].msg) => j <= i
  BY <1>1 DEF Spoken
<1>8. ASSUME NEW i \in DOMAIN u, u[i].type = "chat_message", ~u[i].done
      PROVE  \E k \in Nat :
               /\ u[i].text = <<k>> /\ u[i].msg \in DOMAIN w
               /\ Heard(tr, u[i].msg) < k /\ k <= w[u[i].msg]
               /\ \A l \in Nat : \A j \in DOMAIN u : IsDelta(u[j], u[i].msg, l) /\ j < i => l < k
               /\ \A l \in Nat : Heard(tr, u[i].msg) < l /\ l < k => \E j \in DOMAIN u : j < i /\ IsDelta(u[j], u[i].msg, l)
  <2>1. i \in DOMAIN b /\ u[i] = b[i]
    BY <1>1
  <2>2. PICK k \in Nat :
          /\ u[i].text = <<k>> /\ u[i].msg \in DOMAIN w
          /\ Heard(tr, u[i].msg) < k /\ k <= w[u[i].msg]
          /\ \A l \in Nat : \A j \in DOMAIN b : IsDelta(b[j], u[i].msg, l) /\ j < i => l < k
          /\ \A l \in Nat : Heard(tr, u[i].msg) < l /\ l < k => \E j \in DOMAIN b : j < i /\ IsDelta(b[j], u[i].msg, l)
    BY <1>8, <2>1 DEF Spoken
  <2> WITNESS k \in Nat
  <2> QED
    BY <1>1, <1>3, <2>2
<1>9. ASSUME NEW i \in DOMAIN u, u[i].type = "error"
      PROVE  /\ \A m \in open : \E k \in DOMAIN u : k < i /\ IsFinal(u[k], m)
             /\ \A j \in DOMAIN u : j < i /\ u[j].type = "chat_message" =>
                  \E k \in DOMAIN u : k < i /\ IsFinal(u[k], u[j].msg)
  <2>1. i \in DOMAIN b /\ b[i].type = "error"
    BY <1>1, <1>9
  <2>2. /\ \A m \in open : \E k \in DOMAIN b : k < i /\ IsFinal(b[k], m)
        /\ \A j \in DOMAIN b : j < i /\ b[j].type = "chat_message" =>
             \E k \in DOMAIN b : k < i /\ IsFinal(b[k], b[j].msg)
    BY <2>1 DEF Spoken
  <2> QED
    BY <1>1, <1>3, <2>2
<1>10. Spoken(u, w, wr, tr, open, FALSE)
  BY <1>4, <1>5, <1>6, <1>7, <1>8, <1>9 DEF Spoken
<1> QED
  BY <1>10 DEF u

(* The tail of a sequence, by where its positions come from.                *)
LEMMA TailMoves ==
  ASSUME NEW b \in Seq(Events), b # <<>>
  PROVE  \E g : /\ \A i \in DOMAIN Tail(b) : g[i] \in DOMAIN b /\ 1 < g[i] /\ g[i] # 1 /\ Tail(b)[i] = b[g[i]]
                /\ \A l \in DOMAIN b : l = 1 \/ \E j \in DOMAIN Tail(b) : g[j] = l /\ Tail(b)[j] = b[l]
                /\ \A i, j \in DOMAIN Tail(b) : (i < j <=> g[i] < g[j]) /\ (i <= j <=> g[i] <= g[j])
<1> DEFINE u == Tail(b)
           g == [i \in DOMAIN u |-> i + 1]
<1>1. /\ 1 \in DOMAIN b
      /\ \A i \in DOMAIN u : i \in Nat /\ 1 <= i /\ i + 1 \in DOMAIN b /\ u[i] = b[i + 1]
      /\ \A i \in DOMAIN b : i = 1 \/ (i - 1 \in DOMAIN u /\ u[i - 1] = b[i])
  BY TailIs
<1>2. \A i \in DOMAIN b : i \in Nat /\ 1 <= i
  BY PositionsAre
<1> HIDE DEF u
<1>3. \A i \in DOMAIN u : g[i] \in DOMAIN b /\ 1 < g[i] /\ g[i] # 1 /\ u[i] = b[g[i]]
  BY <1>1
<1>4. ASSUME NEW l \in DOMAIN b, l # 1
      PROVE  \E j \in DOMAIN u : g[j] = l /\ u[j] = b[l]
  <2>1. l - 1 \in DOMAIN u /\ u[l - 1] = b[l]
    BY <1>1, <1>4
  <2>2. g[l - 1] = l
    BY <1>2, <2>1
  <2> QED
    BY <2>1, <2>2
<1>5. \A i, j \in DOMAIN u : (i < j <=> g[i] < g[j]) /\ (i <= j <=> g[i] <= g[j])
  BY <1>1
<1> HIDE DEF g
<1>6. /\ \A i \in DOMAIN u : g[i] \in DOMAIN b /\ 1 < g[i] /\ g[i] # 1 /\ u[i] = b[g[i]]
      /\ \A l \in DOMAIN b : l = 1 \/ \E j \in DOMAIN u : g[j] = l /\ u[j] = b[l]
      /\ \A i, j \in DOMAIN u : (i < j <=> g[i] < g[j]) /\ (i <= j <=> g[i] <= g[j])
  BY <1>3, <1>4, <1>5
<1> QED
  BY <1>6 DEF u

(* The client takes a delta: it is the next fragment of its message.        *)
LEMMA SpokenTakenDelta ==
  ASSUME NEW b \in Seq(Events), b # <<>>, NEW w \in Seq(Nat), NEW wr, NEW tr, NEW open, NEW live, NEW nt,
         Spoken(b, w, wr, tr, open, live), b[1].type = "chat_message", ~b[1].done,
         DOMAIN nt = DOMAIN tr \union {b[1].msg},
         \A m \in DOMAIN tr : m # b[1].msg => nt[m] = tr[m],
         nt[b[1].msg] = IF b[1].msg \in DOMAIN tr THEN tr[b[1].msg] \o b[1].text ELSE b[1].text
  PROVE  Spoken(Tail(b), w, wr, nt, open \union {b[1].msg}, live)
<1> DEFINE u == Tail(b)
           m == b[1].msg
           no == open \union {m}
<1>1. 1 \in DOMAIN b /\ \A i \in DOMAIN b : i \in Nat /\ 1 <= i
  BY TailIs, PositionsAre
<1>2. PICK g : /\ \A i \in DOMAIN u : g[i] \in DOMAIN b /\ 1 < g[i] /\ g[i] # 1 /\ u[i] = b[g[i]]
               /\ \A l \in DOMAIN b : l = 1 \/ \E j \in DOMAIN u : g[j] = l /\ u[j] = b[l]
               /\ \A i, j \in DOMAIN u : (i < j <=> g[i] < g[j]) /\ (i <= j <=> g[i] <= g[j])
  BY TailMoves
<1> HIDE DEF u
<1>3. PICK n \in Nat :
        /\ b[1].text = <<n>> /\ m \in DOMAIN w
        /\ Heard(tr, m) < n /\ n <= w[m]
        /\ \A k \in Nat : Heard(tr, m) < k /\ k < n => \E j \in DOMAIN b : j < 1 /\ IsDelta(b[j], m, k)
  BY <1>1 DEF Spoken
<1>4. \A x \in DOMAIN tr : x \in DOMAIN w /\ Len(tr[x]) \in Nat /\ tr[x] = Text(Len(tr[x])) /\ Len(tr[x]) <= w[x]
  BY DEF Spoken
<1>5. Heard(tr, m) \in Nat /\ n = Heard(tr, m) + 1
  <2>1. Heard(tr, m) \in Nat
    BY <1>4 DEF Heard
  <2>2. ~(Heard(tr, m) + 1 < n)
    BY <1>1, <1>3, <2>1
  <2> QED
    BY <1>3, <2>1, <2>2
<1>6. b[1].type = "chat_message" /\ b[1].msg = m /\ ~b[1].done /\ b[1].text = <<n>> /\ IsDelta(b[1], m, n)
  BY <1>3 DEF IsDelta
<1>7. nt[m] = Text(n) /\ Len(nt[m]) = n
  <2>1. CASE m \in DOMAIN tr
    <3> DEFINE h == Len(tr[m])
    <3>1. h \in Nat /\ tr[m] = Text(h) /\ n = h + 1
      BY <1>4, <1>5, <2>1 DEF Heard
    <3>2. nt[m] = tr[m] \o <<n>>
      BY <1>3, <2>1
    <3> HIDE DEF h
    <3> QED
      BY <1>5, <3>1, <3>2, TextIs
  <2>2. CASE m \notin DOMAIN tr
    <3>1. nt[m] = <<n>>
      BY <1>3, <2>2
    <3>2. n = 1
      BY <1>5, <2>2 DEF Heard
    <3>3. <<1>> = Text(1) /\ Len(Text(1)) = 1
      BY TextIs
    <3> QED
      BY <3>1, <3>2, <3>3
  <2> QED
    BY <2>1, <2>2
<1>8. /\ DOMAIN nt = DOMAIN tr \union {m}
      /\ \A x \in DOMAIN tr : x # m => nt[x] = tr[x]
  OBVIOUS
<1> HIDE DEF m
<1>9. Heard(nt, m) = n /\ \A x : x # m => Heard(nt, x) = Heard(tr, x)
  BY <1>7, <1>8 DEF Heard
<1>10. m \notin DOMAIN tr \ open
  BY <1>1, <1>6 DEF Spoken, IsChat
<1>11. \A x \in DOMAIN nt : x \in DOMAIN w /\ Len(nt[x]) \in Nat /\ nt[x] = Text(Len(nt[x])) /\ Len(nt[x]) <= w[x]
  BY <1>3, <1>4, <1>7, <1>8
<1>12. no \subseteq DOMAIN nt
  BY <1>8 DEF Spoken
<1>13. ASSUME NEW x \in DOMAIN nt \ no
       PROVE  Closed(w, wr, x) /\ Len(nt[x]) = w[x] /\ \A i \in DOMAIN u : ~IsChat(u[i], x)
  <2>1. x \in DOMAIN tr \ open /\ nt[x] = tr[x]
    BY <1>8
  <2>2. Closed(w, wr, x) /\ Len(tr[x]) = w[x] /\ \A i \in DOMAIN b : ~IsChat(b[i], x)
    BY <2>1 DEF Spoken
  <2> QED
    BY <1>2, <2>1, <2>2
<1>14. ASSUME NEW i \in DOMAIN u, u[i].type = "chat_message", u[i].done
       PROVE  /\ Closed(w, wr, u[i].msg) /\ u[i].text = Text(w[u[i].msg])
              /\ \A j \in DOMAIN u : IsChat(u[j], u[i].msg) => j <= i
  <2>1. /\ Closed(w, wr, u[i].msg) /\ u[i].text = Text(w[u[i].msg])
        /\ \A j \in DOMAIN b : IsChat(b[j], u[i].msg) => j <= g[i]
    BY <1>2, <1>14 DEF Spoken
  <2> QED
    BY <1>2, <2>1
<1>15. ASSUME NEW i \in DOMAIN u, u[i].type = "chat_message", ~u[i].done
       PROVE  \E k \in Nat :
                /\ u[i].text = <<k>> /\ u[i].msg \in DOMAIN w
                /\ Heard(nt, u[i].msg) < k /\ k <= w[u[i].msg]
                /\ \A l \in Nat : \A j \in DOMAIN u : IsDelta(u[j], u[i].msg, l) /\ j < i => l < k
                /\ \A l \in Nat : Heard(nt, u[i].msg) < l /\ l < k => \E j \in DOMAIN u : j < i /\ IsDelta(u[j], u[i].msg, l)
  <2> DEFINE q == g[i]
  <2>0. q \in DOMAIN b /\ u[i] = b[q] /\ b[q].type = "chat_message" /\ ~b[q].done
    BY <1>2, <1>15
  <2> HIDE DEF q
  <2>a. PICK k \in Nat :
          /\ b[q].text = <<k>> /\ b[q].msg \in DOMAIN w
          /\ Heard(tr, b[q].msg) < k /\ k <= w[b[q].msg]
          /\ \A l \in Nat : \A j \in DOMAIN b : IsDelta(b[j], b[q].msg, l) /\ j < q => l < k
          /\ \A l \in Nat : Heard(tr, b[q].msg) < l /\ l < k => \E j \in DOMAIN b : j < q /\ IsDelta(b[j], b[q].msg, l)
    BY <2>0 DEF Spoken
  <2>1.   /\ k \in Nat
          /\ u[i].text = <<k>> /\ u[i].msg \in DOMAIN w
          /\ Heard(tr, u[i].msg) < k /\ k <= w[u[i].msg]
          /\ \A l \in Nat : \A j \in DOMAIN b : IsDelta(b[j], u[i].msg, l) /\ j < g[i] => l < k
          /\ \A l \in Nat : Heard(tr, u[i].msg) < l /\ l < k => \E j \in DOMAIN b : j < g[i] /\ IsDelta(b[j], u[i].msg, l)
    BY <2>0, <2>a DEF q
  <2>2. Heard(nt, u[i].msg) < k
    <3>1. CASE u[i].msg = m
      <4>1. 1 < g[i] /\ IsDelta(b[1], u[i].msg, n)
        BY <1>2, <1>6, <3>1
      <4>2. n < k
        BY <1>1, <2>1, <4>1
      <4> QED
        BY <1>9, <3>1, <4>2
    <3>2. CASE u[i].msg # m
      BY <1>9, <2>1, <3>2
    <3> QED
      BY <3>1, <3>2
  <2>3. \A l \in Nat : \A j \in DOMAIN u : IsDelta(u[j], u[i].msg, l) /\ j < i => l < k
    BY <1>2, <2>1
  <2>4. ASSUME NEW l \in Nat, Heard(nt, u[i].msg) < l, l < k
        PROVE  \E j \in DOMAIN u : j < i /\ IsDelta(u[j], u[i].msg, l)
    <3>1. Heard(tr, u[i].msg) < l /\ (u[i].msg = m => l # n)
      <4>1. CASE u[i].msg = m
        <5>1. n < l
          BY <1>9, <2>4, <4>1
        <5> HIDE DEF no
        <5> QED
          BY <1>3, <1>5, <4>1, <5>1
      <4>2. CASE u[i].msg # m
        BY <1>9, <2>4, <4>2
      <4> QED
        BY <4>1, <4>2
    <3>2. PICK j \in DOMAIN b : j < g[i] /\ IsDelta(b[j], u[i].msg, l)
      BY <2>1, <2>4, <3>1
    <3>3. j # 1
      BY <1>6, <3>1, <3>2 DEF IsDelta
    <3> QED
      BY <1>2, <3>2, <3>3
  <2> WITNESS k \in Nat
  <2> QED
    BY <2>1, <2>2, <2>3, <2>4
<1>16. ASSUME NEW i \in DOMAIN u, u[i].type = "error"
       PROVE  /\ \A x \in no : \E k \in DOMAIN u : k < i /\ IsFinal(u[k], x)
              /\ \A j \in DOMAIN u : j < i /\ u[j].type = "chat_message" =>
                   \E k \in DOMAIN u : k < i /\ IsFinal(u[k], u[j].msg)
  <2>1. /\ \A x \in open : \E k \in DOMAIN b : k < g[i] /\ IsFinal(b[k], x)
        /\ \A j \in DOMAIN b : j < g[i] /\ b[j].type = "chat_message" =>
             \E k \in DOMAIN b : k < g[i] /\ IsFinal(b[k], b[j].msg)
    <3> DEFINE q == g[i]
    <3>1. q \in DOMAIN b /\ b[q].type = "error"
      BY <1>2, <1>16
    <3> HIDE DEF q
    <3>2. /\ \A x \in open : \E k \in DOMAIN b : k < q /\ IsFinal(b[k], x)
          /\ \A j \in DOMAIN b : j < q /\ b[j].type = "chat_message" =>
               \E k \in DOMAIN b : k < q /\ IsFinal(b[k], b[j].msg)
      BY <3>1 DEF Spoken
    <3> QED
      BY <3>2 DEF q
  <2>2. \E k \in DOMAIN b : k < g[i] /\ IsFinal(b[k], m)
    BY <1>1, <1>2, <1>6, <2>1
  <2>3. ASSUME NEW x, NEW l \in DOMAIN b, l < g[i], IsFinal(b[l], x)
        PROVE  \E k \in DOMAIN u : k < i /\ IsFinal(u[k], x)
    <3>1. l # 1
      BY <1>6, <2>3 DEF IsFinal
    <3> QED
      BY <1>2, <2>3, <3>1
  <2>4. ASSUME NEW j \in DOMAIN u, j < i, u[j].type = "chat_message"
        PROVE  \E k \in DOMAIN u : k < i /\ IsFinal(u[k], u[j].msg)
    <3>1. g[j] \in DOMAIN b /\ u[j] = b[g[j]] /\ g[j] < g[i]
      BY <1>2, <2>4
    <3>2. PICK l \in DOMAIN b : l < g[i] /\ IsFinal(b[l], u[j].msg)
      BY <2>1, <2>4, <3>1
    <3> QED
      BY <2>3, <3>2
  <2>5. \A x \in no : \E k \in DOMAIN u : k < i /\ IsFinal(u[k], x)
    BY <2>1, <2>2, <2>3
  <2> QED
    BY <2>4, <2>5
<1>17. ASSUME live, NEW x \in DOMAIN w
       PROVE  IF Closed(w, wr, x) THEN x \in DOMAIN nt \ no \/ \E i \in DOMAIN u : IsFinal(u[i], x)
              ELSE \A k \in Nat : Heard(nt, x) < k /\ k <= w[x] => \E i \in DOMAIN u : IsDelta(u[i], x, k)
  <2>1. IF Closed(w, wr, x) THEN x \in DOMAIN tr \ open \/ \E i \in DOMAIN b : IsFinal(b[i], x)
        ELSE \A k \in Nat : Heard(tr, x) < k /\ k <= w[x] => \E i \in DOMAIN b : IsDelta(b[i], x, k)
    BY <1>17 DEF Spoken
  <2>2. x \in DOMAIN tr \ open => x \in DOMAIN nt \ no
    BY <1>8, <1>10
  <2>3. ASSUME NEW i \in DOMAIN b, IsFinal(b[i], x)
        PROVE  \E j \in DOMAIN u : IsFinal(u[j], x)
    <3>1. i # 1
      BY <1>6, <2>3 DEF IsFinal
    <3> QED
      BY <1>2, <2>3, <3>1
  <2>4. ASSUME ~Closed(w, wr, x), NEW k \in Nat, Heard(nt, x) < k, k <= w[x]
        PROVE  \E i \in DOMAIN u : IsDelta(u[i], x, k)
    <3>1. Heard(tr, x) < k /\ (x = m => k # n)
      <4>1. CASE x = m
        <5>1. n < k
          BY <1>9, <2>4, <4>1
        <5> HIDE DEF no
        <5> QED
          BY <1>3, <1>5, <4>1, <5>1
      <4>2. CASE x # m
        BY <1>9, <2>4, <4>2
      <4> QED
        BY <4>1, <4>2
    <3>2. PICK i \in DOMAIN b : IsDelta(b[i], x, k)
      BY <2>1, <2>4, <3>1
    <3>3. i # 1
      BY <1>6, <3>1, <3>2 DEF IsDelta
    <3> QED
      BY <1>2, <3>2, <3>3
  <2> QED
    BY <2>1, <2>2, <2>3, <2>4
<1> HIDE DEF no
<1>18. Spoken(u, w, wr, nt, no, live)
  BY <1>11, <1>12, <1>13, <1>14, <1>15, <1>16, <1>17 DEF Spoken
<1> QED
  BY <1>18 DEF u, no, m

(* The client takes a final text: nothing of its message is under way after *)
(* it.                                                                      *)
LEMMA SpokenTakenFinal ==
  ASSUME NEW b \in Seq(Events), b # <<>>, NEW w \in Seq(Nat), NEW wr, NEW tr, NEW open, NEW live, NEW nt,
         Spoken(b, w, wr, tr, open, live), b[1].type = "chat_message", b[1].done,
         DOMAIN nt = DOMAIN tr \union {b[1].msg},
         \A m \in DOMAIN tr : m # b[1].msg => nt[m] = tr[m],
         nt[b[1].msg] = b[1].text
  PROVE  Spoken(Tail(b), w, wr, nt, open \ {b[1].msg}, live)
<1> DEFINE u == Tail(b)
           m == b[1].msg
           no == open \ {m}
<1>1. 1 \in DOMAIN b /\ \A i \in DOMAIN b : i \in Nat /\ 1 <= i
  BY TailIs, PositionsAre
<1>2. PICK g : /\ \A i \in DOMAIN u : g[i] \in DOMAIN b /\ 1 < g[i] /\ g[i] # 1 /\ u[i] = b[g[i]]
               /\ \A l \in DOMAIN b : l = 1 \/ \E j \in DOMAIN u : g[j] = l /\ u[j] = b[l]
               /\ \A i, j \in DOMAIN u : (i < j <=> g[i] < g[j]) /\ (i <= j <=> g[i] <= g[j])
  BY TailMoves
<1> HIDE DEF u
<1>3. /\ Closed(w, wr, m) /\ b[1].text = Text(w[m])
      /\ \A j \in DOMAIN b : IsChat(b[j], m) => j <= 1
  BY <1>1 DEF Spoken
<1>4. \A x \in DOMAIN tr : x \in DOMAIN w /\ Len(tr[x]) \in Nat /\ tr[x] = Text(Len(tr[x])) /\ Len(tr[x]) <= w[x]
  BY DEF Spoken
<1>5. m \in DOMAIN w /\ w[m] \in Nat
  <2>1. m \in DOMAIN w
    BY <1>3 DEF Closed
  <2> HIDE DEF m
  <2> QED
    BY <2>1
<1>6. b[1].type = "chat_message" /\ b[1].msg = m /\ b[1].done
  OBVIOUS
<1>7. nt[m] = Text(w[m]) /\ Len(nt[m]) = w[m]
  <2>1. nt[m] = Text(w[m])
    BY <1>3
  <2> HIDE DEF m
  <2> QED
    BY <1>5, <2>1, TextIs
<1>8. /\ DOMAIN nt = DOMAIN tr \union {m}
      /\ \A x \in DOMAIN tr : x # m => nt[x] = tr[x]
  OBVIOUS
<1> HIDE DEF m
<1>9. \A x : x # m => Heard(nt, x) = Heard(tr, x)
  BY <1>8 DEF Heard
<1>10. \A i \in DOMAIN u : ~IsChat(u[i], m)
  BY <1>1, <1>2, <1>3
<1>11. \A x \in DOMAIN nt : x \in DOMAIN w /\ Len(nt[x]) \in Nat /\ nt[x] = Text(Len(nt[x])) /\ Len(nt[x]) <= w[x]
  <2>1. w[m] <= w[m]
    BY <1>5
  <2>2. \A x \in DOMAIN nt : x = m \/ (x \in DOMAIN tr /\ nt[x] = tr[x])
    BY <1>8
  <2>3. m \in DOMAIN w /\ Len(nt[m]) \in Nat /\ nt[m] = Text(Len(nt[m])) /\ Len(nt[m]) <= w[m]
    BY <1>5, <1>7, <2>1
  <2> QED
    BY <1>4, <2>2, <2>3
<1>12. no \subseteq DOMAIN nt
  BY <1>8 DEF Spoken
<1>13. ASSUME NEW x \in DOMAIN nt \ no
       PROVE  Closed(w, wr, x) /\ Len(nt[x]) = w[x] /\ \A i \in DOMAIN u : ~IsChat(u[i], x)
  <2>1. CASE x = m
    BY <1>3, <1>7, <1>10, <2>1
  <2>2. CASE x # m
    <3>1. x \in DOMAIN tr \ open /\ nt[x] = tr[x]
      BY <1>8, <2>2
    <3>2. Closed(w, wr, x) /\ Len(tr[x]) = w[x] /\ \A i \in DOMAIN b : ~IsChat(b[i], x)
      BY <3>1 DEF Spoken
    <3> QED
      BY <1>2, <3>1, <3>2
  <2> QED
    BY <2>1, <2>2
<1>14. ASSUME NEW i \in DOMAIN u, u[i].type = "chat_message", u[i].done
       PROVE  /\ Closed(w, wr, u[i].msg) /\ u[i].text = Text(w[u[i].msg])
              /\ \A j \in DOMAIN u : IsChat(u[j], u[i].msg) => j <= i
  <2>1. /\ Closed(w, wr, u[i].msg) /\ u[i].text = Text(w[u[i].msg])
        /\ \A j \in DOMAIN b : IsChat(b[j], u[i].msg) => j <= g[i]
    BY <1>2, <1>14 DEF Spoken
  <2> QED
    BY <1>2, <2>1
<1>15. ASSUME NEW i \in DOMAIN u, u[i].type = "chat_message", ~u[i].done
       PROVE  \E k \in Nat :
                /\ u[i].text = <<k>> /\ u[i].msg \in DOMAIN w
                /\ Heard(nt, u[i].msg) < k /\ k <= w[u[i].msg]
                /\ \A l \in Nat : \A j \in DOMAIN u : IsDelta(u[j], u[i].msg, l) /\ j < i => l < k
                /\ \A l \in Nat : Heard(nt, u[i].msg) < l /\ l < k => \E j \in DOMAIN u : j < i /\ IsDelta(u[j], u[i].msg, l)
  <2> DEFINE q == g[i]
  <2>0. q \in DOMAIN b /\ u[i] = b[q] /\ b[q].type = "chat_message" /\ ~b[q].done
    BY <1>2, <1>15
  <2> HIDE DEF q
  <2>a. PICK k \in Nat :
          /\ b[q].text = <<k>> /\ b[q].msg \in DOMAIN w
          /\ Heard(tr, b[q].msg) < k /\ k <= w[b[q].msg]
          /\ \A l \in Nat : \A j \in DOMAIN b : IsDelta(b[j], b[q].msg, l) /\ j < q => l < k
          /\ \A l \in Nat : Heard(tr, b[q].msg) < l /\ l < k => \E j \in DOMAIN b : j < q /\ IsDelta(b[j], b[q].msg, l)
    BY <2>0 DEF Spoken
  <2>1.   /\ k \in Nat
          /\ u[i].text = <<k>> /\ u[i].msg \in DOMAIN w
          /\ Heard(tr, u[i].msg) < k /\ k <= w[u[i].msg]
          /\ \A l \in Nat : \A j \in DOMAIN b : IsDelta(b[j], u[i].msg, l) /\ j < g[i] => l < k
          /\ \A l \in Nat : Heard(tr, u[i].msg) < l /\ l < k => \E j \in DOMAIN b : j < g[i] /\ IsDelta(b[j], u[i].msg, l)
    BY <2>0, <2>a DEF q
  <2>2. u[i].msg # m
    BY <1>10, <1>15 DEF IsChat
  <2>3. Heard(nt, u[i].msg) = Heard(tr, u[i].msg)
    BY <1>9, <2>2
  <2>4. \A l \in Nat : \A j \in DOMAIN u : IsDelta(u[j], u[i].msg, l) /\ j < i => l < k
    BY <1>2, <2>1
  <2>5. ASSUME NEW l \in Nat, Heard(nt, u[i].msg) < l, l < k
        PROVE  \E j \in DOMAIN u : j < i /\ IsDelta(u[j], u[i].msg, l)
    <3>1. PICK j \in DOMAIN b : j < g[i] /\ IsDelta(b[j], u[i].msg, l)
      BY <2>1, <2>3, <2>5
    <3>2. j # 1
      BY <1>6, <3>1 DEF IsDelta
    <3> QED
      BY <1>2, <3>1, <3>2
  <2> WITNESS k \in Nat
  <2> QED
    BY <2>1, <2>3, <2>4, <2>5
<1>16. ASSUME NEW i \in DOMAIN u, u[i].type = "error"
       PROVE  /\ \A x \in no : \E k \in DOMAIN u : k < i /\ IsFinal(u[k], x)
              /\ \A j \in DOMAIN u : j < i /\ u[j].type = "chat_message" =>
                   \E k \in DOMAIN u : k < i /\ IsFinal(u[k], u[j].msg)
  <2>1. /\ \A x \in open : \E k \in DOMAIN b : k < g[i] /\ IsFinal(b[k], x)
        /\ \A j \in DOMAIN b : j < g[i] /\ b[j].type = "chat_message" =>
             \E k \in DOMAIN b : k < g[i] /\ IsFinal(b[k], b[j].msg)
    <3> DEFINE q == g[i]
    <3>1. q \in DOMAIN b /\ b[q].type = "error"
      BY <1>2, <1>16
    <3> HIDE DEF q
    <3>2. /\ \A x \in open : \E k \in DOMAIN b : k < q /\ IsFinal(b[k], x)
          /\ \A j \in DOMAIN b : j < q /\ b[j].type = "chat_message" =>
               \E k \in DOMAIN b : k < q /\ IsFinal(b[k], b[j].msg)
      BY <3>1 DEF Spoken
    <3> QED
      BY <3>2 DEF q
  <2>2. ASSUME NEW x, NEW l \in DOMAIN b, l < g[i], IsFinal(b[l], x), x # m
        PROVE  \E k \in DOMAIN u : k < i /\ IsFinal(u[k], x)
    <3>1. l # 1
      BY <1>6, <2>2 DEF IsFinal
    <3> QED
      BY <1>2, <2>2, <3>1
  <2>3. ASSUME NEW j \in DOMAIN u, j < i, u[j].type = "chat_message"
        PROVE  \E k \in DOMAIN u : k < i /\ IsFinal(u[k], u[j].msg)
    <3>1. g[j] \in DOMAIN b /\ u[j] = b[g[j]] /\ g[j] < g[i] /\ u[j].msg # m
      BY <1>2, <1>10, <2>3 DEF IsChat
    <3>2. PICK l \in DOMAIN b : l < g[i] /\ IsFinal(b[l], u[j].msg)
      BY <2>1, <2>3, <3>1
    <3> QED
      BY <2>2, <3>1, <3>2
  <2>4. \A x \in no : \E k \in DOMAIN u : k < i /\ IsFinal(u[k], x)
    BY <2>1, <2>2
  <2> QED
    BY <2>3, <2>4
<1>17. ASSUME live, NEW x \in DOMAIN w
       PROVE  IF Closed(w, wr, x) THEN x \in DOMAIN nt \ no \/ \E i \in DOMAIN u : IsFinal(u[i], x)
              ELSE \A k \in Nat : Heard(nt, x) < k /\ k <= w[x] => \E i \in DOMAIN u : IsDelta(u[i], x, k)
  <2>1. IF Closed(w, wr, x) THEN x \in DOMAIN tr \ open \/ \E i \in DOMAIN b : IsFinal(b[i], x)
        ELSE \A k \in Nat : Heard(tr, x) < k /\ k <= w[x] => \E i \in DOMAIN b : IsDelta(b[i], x, k)
    BY <1>17 DEF Spoken
  <2>2. CASE x = m
    BY <1>3, <1>8, <2>2
  <2>3. CASE x # m
    <3>1. x \in DOMAIN tr \ open => x \in DOMAIN nt \ no
      BY <1>8
    <3>2. ASSUME NEW i \in DOMAIN b, IsFinal(b[i], x)
          PROVE  \E j \in DOMAIN u : IsFinal(u[j], x)
      <4>1. i # 1
        BY <1>6, <2>3, <3>2 DEF IsFinal
      <4> QED
        BY <1>2, <3>2, <4>1
    <3>3. ASSUME NEW k, NEW i \in DOMAIN b, IsDelta(b[i], x, k)
          PROVE  \E j \in DOMAIN u : IsDelta(u[j], x, k)
      <4>1. i # 1
        BY <1>6, <3>3 DEF IsDelta
      <4> QED
        BY <1>2, <3>3, <4>1
    <3>4. Heard(nt, x) = Heard(tr, x)
      BY <1>9, <2>3
    <3> QED
      BY <2>1, <3>1, <3>2, <3>3, <3>4
  <2> QED
    BY <2>2, <2>3
<1> HIDE DEF no
<1>18. Spoken(u, w, wr, nt, no, live)
  BY <1>11, <1>12, <1>13, <1>14, <1>15, <1>16, <1>17 DEF Spoken
<1> QED
  BY <1>18 DEF u, no, m
-----------------------------------------------------------------------------
(* Frames and the connection.                                               *)

(* The frames, by their types.                                              *)
LEMMA FrameIs ==
  ASSUME NEW f \in Frames
  PROVE  /\ f.type \in {"init", "context_update", "user_message", "confirm_action", "reject_action"}
         /\ f.type = "init" => f.route \in Routes
         /\ f.type = "context_update" => f.route \in Routes
         /\ f.type = "user_message" => f.turn \in Nat
         /\ f.type \in {"confirm_action", "reject_action"} => f.card \in Nat
BY DEF Frames

(* A frame that is no user message is put behind the others.                *)
LEMMA OrderedOther ==
  ASSUME NEW f \in Seq(Frames), NEW e \in Frames, ~IsTurn(e), NEW tn, Ordered(f, tn)
  PROVE  Ordered(Append(f, e), tn)
<1> DEFINE u == Append(f, e)
           z == Len(f) + 1
<1>1. /\ DOMAIN u = DOMAIN f \union {z} /\ u[z] = e
      /\ \A i \in DOMAIN f : u[i] = f[i]
  BY AppendIs
<1> HIDE DEF u, z
<1>2. Ordered(u, tn)
  BY <1>1 DEF Ordered
<1> QED
  BY <1>2 DEF u

(* The next turn is put behind the others.                                  *)
LEMMA OrderedMore ==
  ASSUME NEW f \in Seq(Frames), NEW e \in Frames, NEW tn \in Nat, NEW n, n = tn + 1,
         IsTurn(e), e.turn = n, Ordered(f, tn)
  PROVE  Ordered(Append(f, e), n)
<1> DEFINE u == Append(f, e)
           z == Len(f) + 1
<1>1. /\ DOMAIN u = DOMAIN f \union {z} /\ u[z] = e
      /\ \A i \in DOMAIN f : i < z /\ u[i] = f[i]
  BY AppendIs
<1>2. z \in Nat /\ (\A i \in DOMAIN f : i \in Nat /\ f[i] \in Frames)
  BY PositionsAre
<1> HIDE DEF u, z
<1>3. ASSUME NEW i \in DOMAIN u, IsTurn(u[i])
      PROVE  /\ u[i].turn <= n
             /\ \A t \in u[i].turn + 1 .. n : \E j \in DOMAIN u : i < j /\ IsTurn(u[j]) /\ u[j].turn = t
             /\ \A j \in DOMAIN u : i < j /\ IsTurn(u[j]) => u[i].turn < u[j].turn
  <2>1. CASE i = z
    <3>1. \A j \in DOMAIN u : ~(z < j)
      BY <1>1, <1>2
    <3>2. u[i].turn = n /\ n + 1 .. n = {}
      BY <1>1, <2>1
    <3> QED
      BY <2>1, <3>1, <3>2
  <2>2. CASE i \in DOMAIN f
    <3> DEFINE s == f[i].turn
    <3>1. u[i] = f[i] /\ s \in Nat /\ i < z
      BY <1>1, <1>2, <1>3, <2>2, FrameIs DEF IsTurn
    <3>2. /\ s <= tn
          /\ \A t \in s + 1 .. tn : \E j \in DOMAIN f : i < j /\ IsTurn(f[j]) /\ f[j].turn = t
          /\ \A j \in DOMAIN f : i < j /\ IsTurn(f[j]) => s < f[j].turn
      BY <1>3, <2>2, <3>1 DEF Ordered
    <3> HIDE DEF s
    <3>3. \A t \in s + 1 .. n : t \in s + 1 .. tn \/ t = n
      BY <3>1
    <3>4. \A t \in s + 1 .. n : \E j \in DOMAIN u : i < j /\ IsTurn(u[j]) /\ u[j].turn = t
      BY <1>1, <3>1, <3>2, <3>3
    <3>5. \A j \in DOMAIN u : i < j /\ IsTurn(u[j]) => s < u[j].turn
      BY <1>1, <3>1, <3>2
    <3>6. s <= n
      BY <3>1, <3>2
    <3> QED
      BY <3>1, <3>4, <3>5, <3>6 DEF s
  <2> QED
    BY <1>1, <2>1, <2>2
<1>4. Ordered(u, n)
  BY <1>3 DEF Ordered
<1> QED
  BY <1>4 DEF u

(* The agent takes the first frame.                                         *)
LEMMA OrderedTail ==
  ASSUME NEW f \in Seq(Frames), f # <<>>, NEW tn, Ordered(f, tn)
  PROVE  Ordered(Tail(f), tn)
<1> DEFINE u == Tail(f)
<1>1. /\ \A i \in DOMAIN u : i \in Nat /\ 1 <= i /\ i + 1 \in DOMAIN f /\ u[i] = f[i + 1]
      /\ \A i \in DOMAIN f : i = 1 \/ (i - 1 \in DOMAIN u /\ u[i - 1] = f[i])
  BY TailIs
<1>2. \A i \in DOMAIN f : i \in Nat
  BY PositionsAre
<1> HIDE DEF u
<1>3. ASSUME NEW i \in DOMAIN u, IsTurn(u[i])
      PROVE  /\ u[i].turn <= tn
             /\ \A t \in u[i].turn + 1 .. tn : \E j \in DOMAIN u : i < j /\ IsTurn(u[j]) /\ u[j].turn = t
             /\ \A j \in DOMAIN u : i < j /\ IsTurn(u[j]) => u[i].turn < u[j].turn
  <2> DEFINE k == i + 1
  <2>1. k \in DOMAIN f /\ u[i] = f[k] /\ i \in Nat /\ 1 <= i
    BY <1>1
  <2> HIDE DEF k
  <2>2. /\ u[i].turn <= tn
        /\ \A t \in u[i].turn + 1 .. tn : \E j \in DOMAIN f : k < j /\ IsTurn(f[j]) /\ f[j].turn = t
        /\ \A j \in DOMAIN f : k < j /\ IsTurn(f[j]) => u[i].turn < f[j].turn
    BY <1>3, <2>1 DEF Ordered
  <2>3. ASSUME NEW l \in DOMAIN f, k < l
        PROVE  \E j \in DOMAIN u : i < j /\ u[j] = f[l]
    <3>1. l \in Nat /\ l # 1 /\ i < l - 1
      BY <1>2, <2>1, <2>3 DEF k
    <3> QED
      BY <1>1, <3>1
  <2>4. ASSUME NEW j \in DOMAIN u, i < j
        PROVE  \E l \in DOMAIN f : k < l /\ u[j] = f[l]
    <3>1. j + 1 \in DOMAIN f /\ u[j] = f[j + 1] /\ k < j + 1
      BY <1>1, <2>1, <2>4 DEF k
    <3> QED
      BY <3>1
  <2>5. \A t \in u[i].turn + 1 .. tn : \E j \in DOMAIN u : i < j /\ IsTurn(u[j]) /\ u[j].turn = t
    BY <2>2, <2>3
  <2>6. \A j \in DOMAIN u : i < j /\ IsTurn(u[j]) => u[i].turn < u[j].turn
    BY <2>2, <2>4
  <2> QED
    BY <2>2, <2>5, <2>6
<1>4. Ordered(u, tn)
  BY <1>3 DEF Ordered
<1> QED
  BY <1>4 DEF u

(* A frame is put behind the others, or swallowed.                          *)
LEMMA SendIs ==
  ASSUME Typed, Linked, NEW frame \in Frames, Send(frame)
  PROVE  /\ queue' \in Seq(Frames) /\ wire' \in Seq(Frames)
         /\ UNCHANGED <<socket, back, agentVars>>
         /\ socket = "connecting" => wire' = <<>>
         /\ socket = "open" => queue' = <<>>
         /\ Unhandled' = IF socket = "gone" THEN Unhandled ELSE Append(Unhandled, frame)
<1>1. queue \in Seq(Frames) /\ wire \in Seq(Frames) /\ socket \in {"connecting", "open", "gone"}
  BY DEF Typed
<1>2. UNCHANGED <<socket, back, agentVars>>
  BY DEF Send
<1>3. CASE socket = "connecting"
  <2>1. queue' = Append(queue, frame) /\ wire' = wire /\ wire = <<>>
    BY <1>3 DEF Send, Linked
  <2>2. <<>> \o Append(queue, frame) = Append(<<>> \o queue, frame)
    BY <1>1
  <2> QED
    BY <1>1, <1>2, <1>3, <2>1, <2>2 DEF Unhandled
<1>4. CASE socket = "open"
  <2>1. wire' = Append(wire, frame) /\ queue' = queue /\ queue = <<>>
    BY <1>4 DEF Send, Linked
  <2>2. Append(wire, frame) \o <<>> = Append(wire \o <<>>, frame)
    BY <1>1
  <2> QED
    BY <1>1, <1>2, <1>4, <2>1, <2>2 DEF Unhandled
<1>5. CASE socket = "gone"
  <2>1. wire' = wire /\ queue' = queue
    BY <1>5 DEF Send
  <2> QED
    BY <1>1, <1>2, <1>5, <2>1 DEF Unhandled
<1> QED
  BY <1>1, <1>3, <1>4, <1>5

(* The agent takes the frame that is next.                                  *)
LEMMA TakesIs ==
  ASSUME Typed, Linked, NEW type, Takes(type)
  PROVE  /\ wire' \in Seq(Frames) /\ socket # "connecting" /\ answering = 0
         /\ UNCHANGED <<clientVars, socket, queue>>
         /\ Head(wire) \in Frames /\ Head(wire).type = type
         /\ 1 \in DOMAIN Unhandled /\ Head(wire) = Unhandled[1] /\ Unhandled # <<>>
         /\ Unhandled' = Tail(Unhandled)
<1>1. queue \in Seq(Frames) /\ wire \in Seq(Frames) /\ wire # <<>> /\ wire' = Tail(wire) /\ queue' = queue
  BY DEF Typed, Takes
<1>2. socket # "connecting" /\ answering = 0 /\ UNCHANGED <<clientVars, socket, queue>> /\ Head(wire).type = type
  BY DEF Takes, Linked
<1>3. Tail(wire) \in Seq(Frames) /\ Head(wire) = wire[1] /\ 1 \in DOMAIN wire /\ wire[1] \in Frames
  BY <1>1, TailIs
<1>4. 1 \in DOMAIN Unhandled /\ Unhandled[1] = wire[1] /\ Unhandled \in Seq(Frames)
  BY <1>1, <1>3, ConcatIs DEF Unhandled
<1>5. Unhandled # <<>>
  BY <1>4
<1>6. Tail(wire \o queue) = Tail(wire) \o queue
  BY <1>1
<1> QED
  BY <1>1, <1>2, <1>3, <1>4, <1>5, <1>6 DEF Unhandled

-----------------------------------------------------------------------------
(* What the actions do.                                                     *)

SameCards ==
  /\ DOMAIN views' = DOMAIN views /\ views' \in [DOMAIN views -> View]
  /\ \A c \in DOMAIN views : views'[c].state = views[c].state /\ views'[c].turn = views[c].turn

UserActs ==
  SendMessage \/ (\E r \in Routes : UpdateContext(r)) \/ (\E c \in DOMAIN views : Confirm(c) \/ Reject(c))

Quiet == (\E c \in 1 .. MaxCards : WorkingTimeout(c)) \/ Dispose \/ UNCHANGED vars

(* What is said of working and of timers leaves the rest of a view alone.   *)
LEMMA ViewMarks ==
  ASSUME NEW D, NEW v \in [D -> View], NEW c, NEW x \in BOOLEAN,
         NEW nv, nv = [d \in D |-> IF d = c THEN [v[d] EXCEPT !.working = x] ELSE v[d]]
  PROVE  /\ DOMAIN nv = D /\ nv \in [D -> View]
         /\ \A d \in D : nv[d].state = v[d].state /\ nv[d].turn = v[d].turn
<1>1. \A d \in D : v[d] \in View
  OBVIOUS
<1>2. \A r \in View : /\ [r EXCEPT !.working = x] \in View
                      /\ [r EXCEPT !.working = x].state = r.state
                      /\ [r EXCEPT !.working = x].turn = r.turn
  BY DEF View
<1> QED
  BY <1>1, <1>2

(* The user sends a frame; a message of the user is the next turn.          *)
LEMMA UserIs ==
  ASSUME Typed, Linked, UserActs
  PROVE  /\ \E frame \in Frames :
              /\ Send(frame)
              /\ IsTurn(frame) => frame.turn = turns + 1 /\ turns' = turns + 1
              /\ ~IsTurn(frame) => turns' = turns
              /\ frame.type \in {"confirm_action", "reject_action"} => frame.card \in DOMAIN store
         /\ SameCards /\ UNCHANGED <<subscribed, streams, transcript>>
<1>1. turns \in Nat /\ views \in [DOMAIN views -> View] /\ DOMAIN views \subseteq DOMAIN store /\ DOMAIN store \subseteq Nat
  BY DEF Typed
<1>2. UNCHANGED views => SameCards
  BY <1>1 DEF SameCards
<1>3. CASE SendMessage
  <2> DEFINE frame == UserMessage(turns + 1)
  <2>1. frame \in Frames /\ IsTurn(frame) /\ frame.type = "user_message" /\ frame.turn = turns + 1
    BY <1>1 DEF Frames, UserMessage, IsTurn
  <2>2. Send(frame) /\ turns' = turns + 1 /\ UNCHANGED <<views, subscribed, streams, transcript>>
    BY <1>3 DEF SendMessage
  <2> HIDE DEF frame
  <2> QED
    BY <1>2, <2>1, <2>2
<1>4. ASSUME NEW r \in Routes, UpdateContext(r)
      PROVE  /\ \E frame \in Frames :
                  /\ Send(frame)
                  /\ IsTurn(frame) => frame.turn = turns + 1 /\ turns' = turns + 1
                  /\ ~IsTurn(frame) => turns' = turns
                  /\ frame.type \in {"confirm_action", "reject_action"} => frame.card \in DOMAIN store
             /\ SameCards /\ UNCHANGED <<subscribed, streams, transcript>>
  <2> DEFINE frame == ContextTo(r)
  <2>1. frame \in Frames /\ ~IsTurn(frame) /\ frame.type = "context_update"
    BY DEF Frames, ContextTo, IsTurn
  <2>2. Send(frame) /\ UNCHANGED <<views, turns, subscribed, streams, transcript>>
    BY <1>4 DEF UpdateContext, clientVars
  <2> HIDE DEF frame
  <2> QED
    BY <1>2, <2>1, <2>2
<1>5. ASSUME NEW c \in DOMAIN views, Confirm(c) \/ Reject(c)
      PROVE  /\ \E frame \in Frames :
                  /\ Send(frame)
                  /\ IsTurn(frame) => frame.turn = turns + 1 /\ turns' = turns + 1
                  /\ ~IsTurn(frame) => turns' = turns
                  /\ frame.type \in {"confirm_action", "reject_action"} => frame.card \in DOMAIN store
             /\ SameCards /\ UNCHANGED <<subscribed, streams, transcript>>
  <2>1. c \in Nat /\ c \in DOMAIN store
    BY <1>1
  <2>2. PICK frame \in Frames : Decide(c, frame) /\ ~IsTurn(frame) /\ frame.card = c
    BY <1>5, <2>1 DEF Frames, Confirm, Reject, ConfirmOf, RejectOf, IsTurn
  <2>3. Send(frame) /\ UNCHANGED <<turns, subscribed, streams, transcript>> /\ MarkWorking(c)
    BY <2>2 DEF Decide
  <2>4. SameCards
    <3>1. CASE UNCHANGED views
      BY <1>2, <3>1
    <3>2. CASE views' = [views EXCEPT ![c].working = TRUE]
      <4>1. PICK x \in BOOLEAN : views' = [d \in DOMAIN views |->
                                     IF d = c THEN [views[d] EXCEPT !.working = x] ELSE views[d]]
        BY <3>2, Zenon
      <4>2. /\ DOMAIN views' = DOMAIN views /\ views' \in [DOMAIN views -> View]
            /\ \A d \in DOMAIN views : views'[d].state = views[d].state /\ views'[d].turn = views[d].turn
        <5>1. views \in [DOMAIN views -> View]
          BY <1>1
        <5> QED
          BY <4>1, <5>1, ViewMarks, SMTT(60)
      <4> QED
        BY <4>2 DEF SameCards
    <3> QED
      BY <2>3, <3>1, <3>2 DEF MarkWorking
  <2> QED
    BY <2>1, <2>2, <2>3, <2>4
<1> QED
  BY <1>3, <1>4, <1>5 DEF UserActs

(* A timer, the end of the session: the cards stay as they are.             *)
LEMMA QuietIs ==
  ASSUME Typed, Quiet
  PROVE  /\ SameCards /\ subscribed' \in BOOLEAN
         /\ UNCHANGED <<streams, transcript, turns, agentVars, linkVars>>
<1>1. views \in [DOMAIN views -> View] /\ subscribed \in BOOLEAN
  BY DEF Typed
<1>2. UNCHANGED views => SameCards
  BY <1>1 DEF SameCards
<1>3. ASSUME NEW c \in 1 .. MaxCards, WorkingTimeout(c)
      PROVE  /\ SameCards /\ subscribed' \in BOOLEAN
             /\ UNCHANGED <<streams, transcript, turns, agentVars, linkVars>>
  <2>1. views' = [views EXCEPT ![c].working = FALSE]
    BY <1>3 DEF WorkingTimeout, HandBack
  <2>2. SameCards
    <3>1. PICK x \in BOOLEAN : views' = [d \in DOMAIN views |->
                                   IF d = c THEN [views[d] EXCEPT !.working = x] ELSE views[d]]
      BY <2>1, Zenon
    <3>2. /\ DOMAIN views' = DOMAIN views /\ views' \in [DOMAIN views -> View]
          /\ \A d \in DOMAIN views : views'[d].state = views[d].state /\ views'[d].turn = views[d].turn
      <4>1. views \in [DOMAIN views -> View]
        BY <1>1
      <4> QED
        BY <3>1, <4>1, ViewMarks, SMTT(60)
    <3> QED
      BY <3>2 DEF SameCards
  <2> QED
    BY <1>1, <1>3, <2>2 DEF WorkingTimeout
<1>4. CASE Dispose
  BY <1>1, <1>2, <1>4 DEF Dispose
<1>5. CASE UNCHANGED vars
  BY <1>1, <1>2, <1>5 DEF vars, clientVars
<1> QED
  BY <1>3, <1>4, <1>5 DEF Quiet

(* An event arrives; only a proposal and a change of state touch a card.    *)
LEMMA ReceiveIs ==
  ASSUME Typed, Cards, Receive
  PROVE  /\ back # <<>> /\ Head(back) = back[1] /\ back[1] \in Events /\ back' = Tail(back) /\ back' \in Seq(Events)
         /\ UNCHANGED <<turns, subscribed, agentVars, socket, queue, wire>>
         /\ views' \in [DOMAIN views' -> View] /\ DOMAIN views' \subseteq DOMAIN store
         /\ \A c : c \in DOMAIN views' <=> (c \in DOMAIN views \/ IsOffer(back[1], c))
         /\ \A c \in DOMAIN views : views'[c].turn = views[c].turn
         /\ \A c \in DOMAIN views : views'[c].state = IF IsChange(back[1], c) THEN back[1].state ELSE views[c].state
         /\ \A c : IsOffer(back[1], c) => views'[c].state = "validated" /\ views'[c].turn = turns
<1>1. /\ turns \in Nat /\ back \in Seq(Events)
      /\ views \in [DOMAIN views -> View] /\ DOMAIN views \subseteq DOMAIN store
  BY DEF Typed
<1>2. back # <<>> /\ back' = Tail(back) /\ UNCHANGED <<turns, subscribed, agentVars, socket, queue, wire>>
  BY DEF Receive, ChatArrives, CardArrives, StateArrives, ErrorArrives, Arrives
<1>3. Head(back) = back[1] /\ 1 \in DOMAIN back /\ back[1] \in Events /\ Tail(back) \in Seq(Events)
  BY <1>1, <1>2, TailIs
<1>4. CASE ChatArrives \/ ErrorArrives
  <2>1. back[1].type \in {"chat_message", "error"} /\ UNCHANGED views
    BY <1>3, <1>4 DEF ChatArrives, ErrorArrives, Arrives
  <2>2. \A c : ~IsOffer(back[1], c) /\ ~IsChange(back[1], c)
    BY <2>1 DEF IsOffer, IsChange
  <2> QED
    BY <1>1, <1>2, <1>3, <2>1, <2>2
<1>5. CASE CardArrives
  <2> DEFINE card == back[1].card
             view == [state |-> "validated", turn |-> turns, working |-> FALSE, result |-> "none"]
  <2>1. /\ back[1].type = "action_proposal"
        /\ views' = [c \in DOMAIN views \union {card} |-> IF c = card THEN view ELSE views[c]]
    BY <1>3, <1>5 DEF CardArrives, Arrives, AnchorTurn
  <2>2. view \in View /\ view.state = "validated" /\ view.turn = turns
    BY <1>1 DEF View, States
  <2>3. \A c : (IsOffer(back[1], c) <=> c = card) /\ ~IsChange(back[1], c)
    BY <2>1 DEF IsOffer, IsChange
  <2>4. card \in DOMAIN store \ DOMAIN views
    BY <1>3, <2>1 DEF Cards, Mirrored
  <2> HIDE DEF card, view
  <2>5. DOMAIN views' = DOMAIN views \union {card}
    BY <2>1
  <2>6. views'[card] = view /\ \A c \in DOMAIN views : views'[c] = views[c]
    BY <2>1, <2>4
  <2>7. views' \in [DOMAIN views' -> View]
    BY <1>1, <2>1, <2>2
  <2> QED
    BY <1>1, <1>2, <1>3, <2>2, <2>3, <2>4, <2>5, <2>6, <2>7
<1>6. CASE StateArrives
  <2> DEFINE h == back[1]
             card == back[1].card
  <2>1. /\ h.type = "proposal_state_changed"
        /\ views' = IF card \in DOMAIN views
                      THEN [views EXCEPT ![card].state = h.state, ![card].working = FALSE, ![card].result = h.result]
                      ELSE views
    BY <1>3, <1>6 DEF StateArrives, Arrives, Applies
  <2>2. \A c : (IsChange(h, c) <=> c = card) /\ ~IsOffer(h, c)
    BY <2>1 DEF IsOffer, IsChange
  <2>3. h.state \in States /\ h.result \in {"none", "value", "null"}
    BY <1>3, <2>1, EventIs DEF States
  <2> HIDE DEF h, card
  <2>4. CASE card \in DOMAIN views
    <3> DEFINE r == views[card]
               r1 == [r EXCEPT !.state = h.state]
               r2 == [r1 EXCEPT !.working = FALSE]
               r3 == [r2 EXCEPT !.result = h.result]
    <3>1. views' = [c \in DOMAIN views |-> IF c = card THEN r3 ELSE views[c]]
      <4>1. views' = [views EXCEPT ![card].state = h.state, ![card].working = FALSE, ![card].result = h.result]
        BY <2>1, <2>4
      <4> QED
        BY <1>1, <2>4, <4>1
    <3>2. r3 \in View /\ r3.state = h.state /\ r3.turn = views[card].turn
      <4>1. r \in View
        BY <1>1, <2>4
      <4> HIDE DEF r
      <4>2. r1 \in View /\ r1.state = h.state /\ r1.turn = r.turn
        BY <2>3, <4>1 DEF View
      <4> HIDE DEF r1
      <4>3. r2 \in View /\ r2.state = h.state /\ r2.turn = r.turn
        BY <4>2 DEF View
      <4> HIDE DEF r2
      <4>4. r3 \in View /\ r3.state = h.state /\ r3.turn = r.turn
        BY <2>3, <4>3 DEF View
      <4> QED
        BY <4>4 DEF r
    <3> HIDE DEF r3
    <3>3. DOMAIN views' = DOMAIN views /\ views' \in [DOMAIN views -> View]
      BY <1>1, <3>1, <3>2
    <3>4. \A c \in DOMAIN views : views'[c] = IF c = card THEN r3 ELSE views[c]
      BY <3>1
    <3>5. \A c \in DOMAIN views : /\ views'[c].turn = views[c].turn
                                  /\ views'[c].state = IF IsChange(h, c) THEN h.state ELSE views[c].state
      BY <2>2, <3>2, <3>4
    <3> QED
      BY <1>1, <1>2, <1>3, <2>2, <3>3, <3>5 DEF h
  <2>5. CASE card \notin DOMAIN views
    <3>1. views' = views
      BY <2>1, <2>5
    <3>2. \A c \in DOMAIN views : ~IsChange(h, c)
      BY <2>2, <2>5
    <3> QED
      BY <1>1, <1>2, <1>3, <2>2, <3>1, <3>2 DEF h
  <2> QED
    BY <2>4, <2>5
<1> QED
  BY <1>4, <1>5, <1>6 DEF Receive

(* A sequence of a finite set's elements has each of them.                  *)
LEMMA SetSequences ==
  ASSUME NEW S, IsFiniteSet(S), NEW s \in SetToSeqs(S)
  PROVE  /\ DOMAIN s = 1 .. Len(s) /\ Len(s) \in Nat /\ \A i \in DOMAIN s : s[i] \in S
         /\ \A x \in S : \E i \in DOMAIN s : s[i] = x
<1> DEFINE n == Cardinality(S)
           D == 1 .. n
<1>1. n \in Nat
  BY FS_CardinalityType
<1>2. s \in [D -> S] /\ \A i, j \in D : i # j => s[i] # s[j]
  BY DEF SetToSeqs
<1> HIDE DEF n
<1>3. Len(s) = n /\ DOMAIN s = D
  BY <1>1, <1>2
<1>4. s \in Injection(D, S)
  BY <1>2 DEF Injection, IsInjective
<1>5. Cardinality(D) = n
  <2>1. Cardinality(1 .. n) = IF 1 > n THEN 0 ELSE n - 1 + 1
    BY <1>1, FS_Interval
  <2> QED
    BY <1>1, <2>1
<1>6. s \in Surjection(D, S)
  BY <1>4, <1>5, FS_Injection DEF n
<1>7. \A x \in S : \E i \in D : s[i] = x
  BY <1>6 DEF Surjection
<1> QED
  BY <1>1, <1>2, <1>3, <1>7

(* The agent decides cards and tells of each that it decided.               *)
Tells(e) ==
  /\ e \in Seq(Events) /\ Emits(e)
  /\ store' \in Seq([state : States, turn : Nat]) /\ DOMAIN store' = DOMAIN store
  /\ \A c \in DOMAIN store :
       /\ store'[c].turn = store[c].turn
       /\ store'[c].state = store[c].state
          \/ (store[c].state = "validated" /\ \E i \in DOMAIN e : IsChange(e[i], c))
  /\ \A i \in DOMAIN e :
       /\ e[i].type # "action_proposal"
       /\ e[i].type = "proposal_state_changed" =>
            e[i].card \in DOMAIN store' /\ store'[e[i].card].state = e[i].state

(* A function on 1..n is a sequence.                                        *)
LEMMA SeqFrom ==
  ASSUME NEW S, NEW n \in Nat, NEW f \in [1 .. n -> S]
  PROVE  f \in Seq(S)
BY SeqDef

(* One card is decided or answered for.                                     *)
LEMMA TellsOne ==
  ASSUME store \in Seq([state : States, turn : Nat]), NEW c \in DOMAIN store, NEW s \in States, NEW nst,
         nst = [store EXCEPT ![c].state = s]
  PROVE  /\ nst \in Seq([state : States, turn : Nat]) /\ DOMAIN nst = DOMAIN store
         /\ nst[c].state = s
         /\ \A d \in DOMAIN store : nst[d].turn = store[d].turn /\ (d # c => nst[d].state = store[d].state)
<1> DEFINE R == [state : States, turn : Nat]
           n == Len(store)
<1>0. store \in Seq(R)
  OBVIOUS
<1>2. \A r \in R : /\ [r EXCEPT !.state = s] \in R
                   /\ [r EXCEPT !.state = s].state = s /\ [r EXCEPT !.state = s].turn = r.turn
  OBVIOUS
<1>3. nst = [d \in DOMAIN store |-> IF d = c THEN [store[d] EXCEPT !.state = s] ELSE store[d]]
  BY Zenon
<1> HIDE DEF R
<1>1. n \in Nat /\ DOMAIN store = 1 .. n
  BY <1>0, PositionsAre
<1>4. \A d \in DOMAIN store : store[d] \in R
  BY <1>0, PositionsAre
<1> HIDE DEF n
<1>5. nst \in [1 .. n -> R]
  BY <1>1, <1>2, <1>3, <1>4
<1>6. nst \in Seq(R)
  BY <1>1, <1>5, SeqFrom, Zenon
<1>7. DOMAIN nst = DOMAIN store
  BY <1>3
<1>8. nst[c] = [store[c] EXCEPT !.state = s]
  BY <1>3
<1>9. \A d \in DOMAIN store : d # c => nst[d] = store[d]
  BY <1>3
<1> QED
  BY <1>2, <1>4, <1>6, <1>7, <1>8, <1>9 DEF R

(* The frames about cards: the route's change, the decisions.               *)
LEMMA HandlesIs ==
  ASSUME Typed, Linked, HandleContextUpdate \/ HandleConfirm \/ HandleReject
  PROVE  /\ (\E t : Takes(t)) /\ initialized /\ UNCHANGED <<initialized, answering, written, writing>>
         /\ \E e : Tells(e) /\ ((\A i \in DOMAIN e : e[i].type = "proposal_state_changed") \/ e = <<Failure>>)
<1> DEFINE R == [state : States, turn : Nat]
           Said(e) == (\A i \in DOMAIN e : e[i].type = "proposal_state_changed") \/ e = <<Failure>>
<1>0. store \in Seq(R)
  BY DEF Typed
<1>r. \A r \in R : r.state \in States /\ r.turn \in Nat
  OBVIOUS
<1> HIDE DEF R
<1>1. store \in Seq(R) /\ Len(store) \in Nat /\ DOMAIN store = 1 .. Len(store) /\ \A c \in DOMAIN store : store[c] \in R
  BY <1>0, PositionsAre
<1>2. CASE HandleContextUpdate
  <2> DEFINE pending == IF route' = route THEN {} ELSE {c \in DOMAIN store : store[c].state = "validated"}
  <2>1. /\ Takes("context_update") /\ initialized /\ UNCHANGED <<initialized, answering, written, writing>>
        /\ store' = [c \in DOMAIN store |->
                       IF c \in pending THEN [store[c] EXCEPT !.state = "expired"] ELSE store[c]]
        /\ \E cards \in SetToSeqs(pending) : Emits([i \in DOMAIN cards |-> Changed(cards[i], "expired", "null")])
    BY <1>2 DEF HandleContextUpdate
  <2>2. pending \subseteq DOMAIN store /\ \A c \in pending : store[c].state = "validated"
    OBVIOUS
  <2>3. IsFiniteSet(pending)
    <3>1. IsFiniteSet(1 .. Len(store))
      BY <1>1, FS_Interval
    <3> HIDE DEF pending
    <3> QED
      BY <1>1, <2>2, <3>1, FS_Subset
  <2> HIDE DEF pending
  <2>4. PICK cards \in SetToSeqs(pending) : Emits([i \in DOMAIN cards |-> Changed(cards[i], "expired", "null")])
    BY <2>1
  <2> DEFINE e == [i \in DOMAIN cards |-> Changed(cards[i], "expired", "null")]
  <2>5. /\ DOMAIN cards = 1 .. Len(cards) /\ Len(cards) \in Nat /\ \A i \in DOMAIN cards : cards[i] \in pending
        /\ \A x \in pending : \E i \in DOMAIN cards : cards[i] = x
    BY <2>3, SetSequences
  <2>6. \A c \in DOMAIN store : Changed(c, "expired", "null") \in Events
    BY <1>1 DEF Changed, Events, Terminal
  <2>7. DOMAIN e = DOMAIN cards /\ \A i \in DOMAIN e :
          /\ e[i] \in Events /\ e[i].type = "proposal_state_changed" /\ e[i].card = cards[i] /\ e[i].state = "expired"
    BY <2>2, <2>5, <2>6 DEF Changed
  <2>8. e \in Seq(Events)
    <3>1. e \in [1 .. Len(cards) -> Events]
      BY <2>2, <2>5, <2>6
    <3> HIDE DEF e
    <3> QED
      BY <2>5, <3>1
  <2>9. /\ \A c \in pending : store'[c] = [store[c] EXCEPT !.state = "expired"]
        /\ \A c \in DOMAIN store \ pending : store'[c] = store[c]
    BY <2>1, <2>2
  <2>10. \A r \in R : /\ [r EXCEPT !.state = "expired"] \in R
                      /\ [r EXCEPT !.state = "expired"].state = "expired"
                      /\ [r EXCEPT !.state = "expired"].turn = r.turn
    BY DEF R, States, Terminal
  <2>11. store' \in Seq(R) /\ DOMAIN store' = DOMAIN store
    <3>1. ASSUME NEW c \in 1 .. Len(store) PROVE store'[c] \in R
      <4>1. c \in DOMAIN store /\ store[c] \in R
        BY <1>1
      <4>2. CASE c \in pending
        BY <2>9, <2>10, <4>1, <4>2
      <4>3. CASE c \notin pending
        BY <2>9, <4>1, <4>3
      <4> QED
        BY <4>2, <4>3
    <3>2. DOMAIN store' = 1 .. Len(store) /\ store' = [c \in DOMAIN store' |-> store'[c]]
      BY <1>1, <2>1
    <3>3. store' \in [1 .. Len(store) -> R]
      BY <3>1, <3>2
    <3> QED
      BY <1>1, <3>2, <3>3
  <2>12. \A c \in DOMAIN store : c \in pending => \E i \in DOMAIN e : IsChange(e[i], c)
    BY <2>5, <2>7 DEF IsChange
  <2> HIDE DEF e
  <2>13. \A c \in DOMAIN store :
           /\ store'[c].turn = store[c].turn
           /\ store'[c].state = store[c].state
              \/ (store[c].state = "validated" /\ \E i \in DOMAIN e : IsChange(e[i], c))
    BY <1>1, <2>2, <2>9, <2>10, <2>12
  <2>14. ASSUME NEW i \in DOMAIN e
         PROVE  /\ e[i].type # "action_proposal"
                /\ e[i].card \in DOMAIN store' /\ store'[e[i].card].state = e[i].state
    <3>1. e[i].type = "proposal_state_changed" /\ e[i].card = cards[i] /\ e[i].state = "expired" /\ cards[i] \in pending
      BY <2>5, <2>7
    <3>2. store'[cards[i]].state = "expired" /\ cards[i] \in DOMAIN store
      <4> DEFINE c == cards[i]
      <4>1. c \in pending /\ c \in DOMAIN store /\ store[c] \in R
        BY <1>1, <2>2, <3>1
      <4> HIDE DEF c
      <4>2. store'[c] = [store[c] EXCEPT !.state = "expired"]
        BY <2>9, <4>1
      <4>3. store'[c].state = "expired"
        BY <2>10, <4>1, <4>2
      <4> QED
        BY <4>1, <4>3 DEF c
    <3> QED
      BY <2>11, <3>1, <3>2
  <2>15. Emits(e)
    BY <2>4 DEF e
  <2>16. Tells(e)
    BY <2>8, <2>11, <2>13, <2>14, <2>15 DEF Tells, R
  <2> QED
    BY <2>1, <2>7, <2>16
<1>3. ASSUME NEW type \in {"confirm_action", "reject_action"}, Takes(type)
      PROVE  Head(wire).card \in DOMAIN store
  <2>1. 1 \in DOMAIN Unhandled /\ Head(wire) = Unhandled[1] /\ Head(wire).type = type
    BY <1>3, TakesIs
  <2> QED
    BY <2>1 DEF Linked
<1>4. ASSUME NEW card \in DOMAIN store, NEW s \in Terminal, NEW result \in {"value", "null"},
             store[card].state = "validated", store' = [store EXCEPT ![card].state = s],
             Emits(<<Changed(card, s, result)>>)
      PROVE  \E e : Tells(e) /\ Said(e)
  <2> DEFINE x == Changed(card, s, result)
             e == <<x>>
  <2>1. x \in Events /\ x.type = "proposal_state_changed" /\ x.card = card /\ x.state = s
    BY <1>1, <1>4 DEF Changed, Events
  <2>2. e \in Seq(Events) /\ DOMAIN e = {1} /\ e[1] = x
    BY <2>1
  <2>3. s \in States
    BY DEF States
  <2>4. /\ store' \in Seq(R) /\ DOMAIN store' = DOMAIN store
        /\ store'[card].state = s
        /\ \A d \in DOMAIN store : store'[d].turn = store[d].turn /\ (d # card => store'[d].state = store[d].state)
    BY <1>1, <1>4, <2>3, TellsOne DEF R
  <2>5. Emits(e)
    BY <1>4
  <2> HIDE DEF x, e
  <2>6. Tells(e)
    BY <1>4, <2>1, <2>2, <2>4, <2>5 DEF Tells, IsChange, R
  <2> QED
    BY <2>1, <2>2, <2>6
<1>5. CASE HandleConfirm
  <2> DEFINE card == Head(wire).card
  <2>1. /\ Takes("confirm_action") /\ initialized /\ UNCHANGED <<initialized, answering, written, writing>>
        /\ \/ /\ store[card].state # "validated"
              /\ Emits(<<Changed(card, store[card].state, "null")>>)
              /\ UNCHANGED store
           \/ /\ store[card].state = "validated"
              /\ \E s \in {"executed", "failed", "expired"} :
                   /\ store' = [store EXCEPT ![card].state = s]
                   /\ Emits(TellOutcome(card, s))
    BY <1>5 DEF HandleConfirm
  <2>2. card \in DOMAIN store
    BY <1>3, <2>1
  <2> HIDE DEF card
  <2>3. CASE store[card].state = "validated"
    <3>1. PICK s \in {"executed", "failed", "expired"} :
            store' = [store EXCEPT ![card].state = s] /\ Emits(TellOutcome(card, s))
      BY <2>1, <2>3
    <3>2. PICK result \in {"value", "null"} : TellOutcome(card, s) = <<Changed(card, s, result)>>
      BY DEF TellOutcome
    <3>3. s \in Terminal /\ Emits(<<Changed(card, s, result)>>)
      BY <3>1, <3>2 DEF Terminal
    <3>4. \E e : Tells(e) /\ Said(e)
      BY <1>4, <2>2, <2>3, <3>1, <3>3
    <3> QED
      BY <2>1, <3>4
  <2>4. CASE store[card].state # "validated"
    <3> DEFINE x == Changed(card, store[card].state, "null")
               e == <<x>>
    <3>1. store[card].state \in Terminal /\ store' = store /\ Emits(e)
      BY <1>1, <1>r, <2>1, <2>2, <2>4 DEF States
    <3>2. x \in Events /\ x.type = "proposal_state_changed" /\ x.card = card /\ x.state = store[card].state
      BY <1>1, <2>2, <3>1 DEF Changed, Events
    <3>3. e \in Seq(Events) /\ DOMAIN e = {1} /\ e[1] = x
      BY <3>2
    <3> HIDE DEF x, e
    <3>4. Tells(e) /\ Said(e)
      BY <1>1, <2>2, <3>1, <3>2, <3>3 DEF Tells, R
    <3> QED
      BY <2>1, <3>4
  <2> QED
    BY <2>3, <2>4
<1>6. CASE HandleReject
  <2> DEFINE card == Head(wire).card
  <2>1. /\ Takes("reject_action") /\ initialized /\ UNCHANGED <<initialized, answering, written, writing>>
        /\ \/ /\ MayReject(card)
              /\ store' = [store EXCEPT ![card].state = "rejected"]
              /\ Emits(<<Changed(card, "rejected", "null")>>)
           \/ /\ ~MayReject(card)
              /\ Emits(<<Failure>>)
              /\ UNCHANGED store
    BY <1>6 DEF HandleReject
  <2>2. card \in DOMAIN store
    BY <1>3, <2>1
  <2> HIDE DEF card
  <2>3. CASE MayReject(card)
    <3>1. store[card].state = "validated"
      BY <2>3 DEF MayReject
    <3>2. "rejected" \in Terminal /\ "null" \in {"value", "null"}
      BY DEF Terminal
    <3>3. store' = [store EXCEPT ![card].state = "rejected"] /\ Emits(<<Changed(card, "rejected", "null")>>)
      BY <2>1, <2>3
    <3>4. \E e : Tells(e) /\ Said(e)
      BY <1>4, <2>2, <3>1, <3>2, <3>3
    <3> QED
      BY <2>1, <3>4
  <2>4. CASE ~MayReject(card)
    <3> DEFINE e == <<Failure>>
    <3>1. Emits(e) /\ store' = store
      BY <2>1, <2>4
    <3>2. Failure \in Events /\ Failure.type = "error"
      BY DEF Failure, Events
    <3>3. e \in Seq(Events) /\ DOMAIN e = {1} /\ e[1] = Failure
      BY <3>2
    <3> HIDE DEF e
    <3>4. Tells(e)
      BY <1>1, <3>1, <3>2, <3>3 DEF Tells, R
    <3> QED
      BY <2>1, <3>4 DEF e
  <2> QED
    BY <2>3, <2>4
<1> QED
  BY <1>2, <1>5, <1>6

-----------------------------------------------------------------------------
(* Within a user turn.                                                      *)

(* One event behind others, and what follows nothing.                       *)
LEMMA OneMore ==
  ASSUME NEW S, NEW s \in Seq(S), NEW t \in Seq(S), NEW x \in S
  PROVE  /\ s \o (t \o <<x>>) = Append(s \o t, x) /\ s \o <<x>> = Append(s, x)
         /\ t \o <<x>> = Append(t, x) /\ s \o <<>> = s /\ t \o <<>> = t
OBVIOUS

(* The final text of the open segment.                                      *)
LEMMA FlushedIs ==
  ASSUME Typed, writing => written # <<>>
  PROVE  /\ Flushed \in Seq(Events) /\ \A i \in DOMAIN Flushed : Flushed[i].type = "chat_message"
         /\ writing => LET e == Chat(Len(written), Text(Last(written)), TRUE)
                       IN  Flushed = <<e>> /\ e \in Events
         /\ ~writing => Flushed = <<>>
<1>1. CASE writing
  <2> DEFINE e == Chat(Len(written), Text(Last(written)), TRUE)
  <2>1. written \in Seq(Nat) /\ written # <<>>
    BY <1>1 DEF Typed
  <2>2. Len(written) \in Nat /\ Last(written) \in Nat
    <3>1. Len(written) \in DOMAIN written
      BY <2>1, EmptySeq, PositionsAre
    <3> QED
      BY <2>1, <3>1 DEF Last
  <2>3. e \in Events /\ e.type = "chat_message"
    <3>1. Text(Last(written)) \in Seq(Nat)
      BY <2>2, TextIs
    <3> HIDE DEF e
    <3>2. e.type = "chat_message"
      BY DEF e, Chat
    <3>3. e \in [type : {"chat_message"}, msg : Nat, text : Seq(Nat), done : BOOLEAN]
      BY <2>2, <3>1 DEF e, Chat
    <3> QED
      BY <3>2, <3>3 DEF Events
  <2>4. Flushed = <<e>>
    BY <1>1 DEF Flushed
  <2> HIDE DEF e
  <2>5. <<e>> \in Seq(Events) /\ DOMAIN <<e>> = {1} /\ <<e>>[1] = e
    BY <2>3
  <2> QED
    BY <1>1, <2>3, <2>4, <2>5 DEF e
<1>2. CASE ~writing
  <2>1. Flushed = <<>>
    BY <1>2 DEF Flushed
  <2>2. <<>> \in Seq(Events) /\ DOMAIN <<>> = {}
    OBVIOUS
  <2> QED
    BY <1>2, <2>1, <2>2
<1> QED
  BY <1>1, <1>2

(* The open segment is closed with its whole text.                          *)
LEMMA FlushedSpoken ==
  ASSUME Typed, writing => written # <<>>, Spoken(back, written, writing, transcript, streams, TRUE)
  PROVE  /\ back \o Flushed \in Seq(Events)
         /\ Spoken(back \o Flushed, written, FALSE, transcript, streams, TRUE)
<1>1. back \in Seq(Events) /\ written \in Seq(Nat) /\ writing \in BOOLEAN
  BY DEF Typed
<1>2. CASE writing
  <2> DEFINE z == Len(written)
             e == Chat(z, Text(Last(written)), TRUE)
  <2>1. Flushed = <<e>> /\ e \in Events
    BY <1>2, FlushedIs
  <2>2. e.type = "chat_message" /\ e.msg = z /\ e.done /\ e.text = Text(written[z])
    BY DEF Chat, Last
  <2>3. z \in DOMAIN written /\ written # <<>>
    BY <1>1, <1>2, EmptySeq, PositionsAre
  <2>4. \A m \in DOMAIN written : written[m] \in Nat
    BY <1>1, PositionsAre
  <2>5. ~Closed(written, writing, z) /\ Closed(written, FALSE, z)
    BY <1>2, <2>3 DEF Closed
  <2>6. \A m \in DOMAIN written : m # z => (Closed(written, FALSE, m) <=> Closed(written, writing, m))
    BY DEF Closed
  <2> HIDE DEF z, e
  <2>7. Grows(written, writing, written, FALSE)
    BY <2>4 DEF Grows, Closed
  <2>8. \A m \in DOMAIN written : ~IsChat(e, m) =>
          m \in DOMAIN written /\ written[m] = written[m] /\ (Closed(written, FALSE, m) <=> Closed(written, writing, m))
    BY <2>2, <2>6 DEF IsChat
  <2>9. Spoken(Append(back, e), written, FALSE, transcript, streams, TRUE)
    <3>1. /\ (e.type = "chat_message" => e.msg \in DOMAIN written /\ ~Closed(written, writing, e.msg))
          /\ (e.type = "chat_message" /\ e.done => Closed(written, FALSE, e.msg) /\ e.text = Text(written[e.msg]))
          /\ ~(e.type = "chat_message" /\ ~e.done) /\ e.type # "error"
      BY <2>2, <2>3, <2>5
    <3> QED
      BY <1>1, <2>1, <2>7, <2>8, <3>1, SpokenAppend
  <2>10. back \o <<e>> = Append(back, e) /\ back \o <<e>> \in Seq(Events)
    BY <1>1, <2>1
  <2> QED
    BY <2>1, <2>9, <2>10
<1>3. CASE ~writing
  <2>1. Flushed = <<>> /\ writing = FALSE
    BY <1>1, <1>3, FlushedIs
  <2>2. back \o <<>> = back
    BY <1>1
  <2> QED
    BY <1>1, <2>1, <2>2
<1> QED
  BY <1>2, <1>3

(* A message that begins: the first fragment of a message no one had.        *)
LEMMA Began ==
  ASSUME NEW w \in Seq(Nat)
  PROVE  LET nw == Append(w, 1)  z == Len(nw)
         IN  /\ nw \in Seq(Nat) /\ nw # <<>> /\ z \in Nat /\ nw[z] = 1 /\ Last(nw) = 1
             /\ z \in DOMAIN nw \ DOMAIN w
             /\ \A m \in DOMAIN nw : m # z => m \in DOMAIN w
             /\ \A m \in DOMAIN w : m # z /\ m \in DOMAIN nw /\ nw[m] = w[m] /\ w[m] <= nw[m]
<1> DEFINE nw == Append(w, 1)
           z == Len(w) + 1
<1>1. 1 \in Nat
  OBVIOUS
<1>2. /\ nw \in Seq(Nat) /\ Len(nw) = z /\ DOMAIN nw = DOMAIN w \union {z} /\ nw[z] = 1
      /\ \A i \in DOMAIN w : i < z /\ nw[i] = w[i]
  BY <1>1, AppendIs
<1>3. z \in Nat /\ z # 0 /\ \A i \in DOMAIN w : i \in Nat /\ i # z /\ w[i] \in Nat /\ w[i] <= w[i]
  <2>1. Len(w) \in Nat /\ \A i \in DOMAIN w : i \in Nat /\ i <= Len(w) /\ w[i] \in Nat
    BY PositionsAre
  <2> QED
    BY <2>1
<1> HIDE DEF nw, z
<1>4. nw # <<>>
  BY <1>2, <1>3
<1>5. Last(nw) = 1
  BY <1>2 DEF Last
<1>6. z \notin DOMAIN w /\ z \in DOMAIN nw
  BY <1>2, <1>3
<1>7. \A m \in DOMAIN w : m # z /\ m \in DOMAIN nw /\ nw[m] = w[m] /\ w[m] <= nw[m]
  BY <1>2, <1>3
<1>8. /\ nw \in Seq(Nat) /\ nw # <<>> /\ Len(nw) \in Nat /\ nw[Len(nw)] = 1 /\ Last(nw) = 1
      /\ Len(nw) \in DOMAIN nw \ DOMAIN w
      /\ \A m \in DOMAIN nw : m # Len(nw) => m \in DOMAIN w
      /\ \A m \in DOMAIN w : m # Len(nw) /\ m \in DOMAIN nw /\ nw[m] = w[m] /\ w[m] <= nw[m]
  BY <1>2, <1>3, <1>4, <1>5, <1>6, <1>7
<1> QED
  BY <1>8 DEF nw

(* A message that is being written gets its next fragment.                  *)
LEMMA Continued ==
  ASSUME NEW w \in Seq(Nat), w # <<>>, NEW wr, wr = TRUE,
         NEW nw, nw = [m \in DOMAIN w |-> IF m = Len(w) THEN w[m] + 1 ELSE w[m]]
  PROVE  /\ nw \in Seq(Nat) /\ nw # <<>> /\ Len(nw) = Len(w) /\ Len(nw) \in Nat
         /\ Last(nw) = nw[Len(nw)] /\ nw[Len(nw)] \in Nat /\ nw[Len(nw)] = w[Len(nw)] + 1
         /\ Len(nw) \in DOMAIN nw /\ DOMAIN nw = DOMAIN w /\ Grows(w, wr, nw, TRUE)
         /\ ~Closed(w, wr, Len(nw)) /\ ~Closed(nw, TRUE, Len(nw))
         /\ \A m \in DOMAIN nw : m # Len(nw) =>
              m \in DOMAIN w /\ nw[m] = w[m] /\ (Closed(nw, TRUE, m) <=> Closed(w, wr, m))
<1> DEFINE z == Len(w)
<1>1. z \in Nat /\ z \in DOMAIN w /\ DOMAIN w = 1 .. z /\ \A m \in DOMAIN w : w[m] \in Nat
  BY EmptySeq, PositionsAre
<1>2. nw = [m \in DOMAIN w |-> IF m = z THEN w[m] + 1 ELSE w[m]]
  OBVIOUS
<1> HIDE DEF z
<1>3. DOMAIN nw = DOMAIN w /\ nw[z] = w[z] + 1 /\ (\A m \in DOMAIN w : m # z => nw[m] = w[m])
  BY <1>1, <1>2
<1>4. nw[z] \in Nat /\ w[z] <= nw[z] /\ \A m \in DOMAIN w : w[m] <= w[m]
  BY <1>1, <1>3
<1>5. nw \in [1 .. z -> Nat]
  BY <1>1, <1>2
<1>6. nw \in Seq(Nat)
  BY <1>1, <1>5, SeqFrom, Zenon
<1>7. Len(nw) = z
  BY <1>1, <1>5, <1>6
<1>8. nw # <<>>
  BY <1>1, <1>3
<1>9. ~Closed(w, wr, z) /\ ~Closed(nw, TRUE, z)
  BY <1>7 DEF Closed, z
<1>10. \A m \in DOMAIN w : m # z => Closed(nw, TRUE, m) /\ Closed(w, wr, m)
  BY <1>3, <1>7 DEF Closed, z
<1>11. Grows(w, wr, nw, TRUE)
  BY <1>3, <1>4, <1>9, <1>10 DEF Grows
<1> QED
  BY <1>1, <1>3, <1>4, <1>6, <1>7, <1>8, <1>9, <1>10, <1>11 DEF Last, z

(* A step of the turn: the agent's messages grow, and while the connection  *)
(* lives, what is under way tells of it.                                    *)
LEMMA TurnIs ==
  ASSUME Typed, Linked, Messages, Turn
  PROVE  /\ socket # "connecting" /\ answering # 0
         /\ UNCHANGED <<clientVars, initialized, socket, queue, wire>>
         /\ written' \in Seq(Nat) /\ writing' \in BOOLEAN /\ answering' \in {answering, 0}
         /\ writing' => written' # <<>> /\ answering' # 0
         /\ Grows(written, writing, written', writing')
         /\ socket = "open" => Spoken(back', written', writing', transcript, streams, TRUE)
         /\ \/ /\ store' = store
               /\ \E e \in Seq(Events) : Emits(e) /\ \A i \in DOMAIN e : e[i].type \in {"chat_message", "error"}
            \/ /\ store' = Append(store, [state |-> "validated", turn |-> answering])
               /\ Emits(Flushed \o <<Proposal(Len(store'))>>)
<1> DEFINE card == [state |-> "validated", turn |-> answering]
           Chats(e) == \A i \in DOMAIN e : e[i].type \in {"chat_message", "error"}
<1>1. /\ written \in Seq(Nat) /\ writing \in BOOLEAN /\ back \in Seq(Events) /\ answering \in Nat
      /\ socket \in {"connecting", "open", "gone"} /\ store \in Seq([state : States, turn : Nat])
  BY DEF Typed
<1>2. /\ writing => written # <<>> /\ answering # 0
      /\ Spoken(back, written, writing, transcript, streams, socket # "gone")
  BY DEF Messages
<1>3. answering # 0 /\ UNCHANGED <<clientVars, initialized, socket, queue, wire>>
  BY DEF Turn, TextDelta, TextDone, Propose, Decline, TurnEnds, TurnStep
<1>4. socket # "connecting"
  BY <1>3 DEF Linked
<1>5. \A m \in DOMAIN written : written[m] \in Nat /\ written[m] <= written[m]
  <2>1. \A m \in DOMAIN written : written[m] \in Nat
    BY <1>1, PositionsAre
  <2> QED
    BY <2>1
<1>6. socket = "open" => Spoken(back, written, writing, transcript, streams, TRUE)
  BY <1>2
<1>7. socket = "open" => /\ back \o Flushed \in Seq(Events)
                         /\ Spoken(back \o Flushed, written, FALSE, transcript, streams, TRUE)
  BY <1>2, <1>6, FlushedSpoken
<1>8. Flushed \in Seq(Events) /\ \A i \in DOMAIN Flushed : Flushed[i].type = "chat_message"
  BY <1>2, FlushedIs
<1>9. Grows(written, writing, written, FALSE) /\ Grows(written, FALSE, written, FALSE)
  BY <1>5 DEF Grows, Closed
<1>10. ASSUME NEW x \in Events, x.type \in {"chat_message", "error"}
       PROVE  /\ Flushed \o <<x>> \in Seq(Events) /\ Chats(Flushed \o <<x>>)
              /\ back \o (Flushed \o <<x>>) = Append(back \o Flushed, x)
  <2>1. Flushed \o <<x>> = Append(Flushed, x) /\ back \o (Flushed \o <<x>>) = Append(back \o Flushed, x)
    BY <1>1, <1>8, OneMore
  <2>2. /\ Append(Flushed, x) \in Seq(Events)
        /\ DOMAIN Append(Flushed, x) = DOMAIN Flushed \union {Len(Flushed) + 1}
        /\ \A i \in DOMAIN Flushed : Append(Flushed, x)[i] = Flushed[i]
        /\ Append(Flushed, x)[Len(Flushed) + 1] = x
    BY <1>8, AppendIs
  <2>3. Chats(Append(Flushed, x))
    BY <1>8, <1>10, <2>2
  <2> QED
    BY <2>1, <2>2, <2>3
<1>11. ASSUME NEW e, Emits(e), socket = "open" PROVE back' = back \o e
  BY <1>11 DEF Emits
<1> DEFINE Said == /\ written' \in Seq(Nat) /\ writing' \in BOOLEAN /\ answering' \in {answering, 0}
                   /\ writing' => written' # <<>> /\ answering' # 0
                   /\ Grows(written, writing, written', writing')
                   /\ socket = "open" => Spoken(back', written', writing', transcript, streams, TRUE)
           Stored == \/ store' = store /\ \E e \in Seq(Events) : Emits(e) /\ Chats(e)
                     \/ store' = Append(store, card) /\ Emits(Flushed \o <<Proposal(Len(store'))>>)
<1>12. ASSUME TextDelta PROVE Said /\ Stored
  <2> DEFINE z == Len(written')
             x == Chat(z, <<Last(written')>>, FALSE)
  <2>1. /\ writing' = TRUE /\ answering' = answering /\ store' = store /\ Emits(<<x>>)
        /\ \/ writing /\ written' = [written EXCEPT ![Len(written)] = @ + 1]
           \/ ~writing /\ written' = Append(written, 1)
    BY <1>12 DEF TextDelta
  <2>2. /\ written' \in Seq(Nat) /\ written' # <<>> /\ z \in Nat /\ Last(written') = written'[z] /\ written'[z] \in Nat
        /\ z \in DOMAIN written' /\ Grows(written, writing, written', TRUE)
        /\ ~Closed(written, writing, z) /\ ~Closed(written', TRUE, z)
        /\ IF z \in DOMAIN written THEN written'[z] = written[z] + 1 ELSE written'[z] = 1
        /\ \A m \in DOMAIN written' : m # z =>
             m \in DOMAIN written /\ written'[m] = written[m] /\ (Closed(written', TRUE, m) <=> Closed(written, writing, m))
    <3>1. CASE writing
      <4>0. written' = [written EXCEPT ![Len(written)] = @ + 1]
        BY <2>1, <3>1
      <4>1. /\ written # <<>> /\ writing = TRUE
            /\ written' = [m \in DOMAIN written |-> IF m = Len(written) THEN written[m] + 1 ELSE written[m]]
        <5>1. written # <<>> /\ writing = TRUE
          BY <1>1, <1>2, <3>1
        <5>2. written' = [m \in DOMAIN written |-> IF m = Len(written) THEN written[m] + 1 ELSE written[m]]
          BY <4>0, Zenon
        <5> QED
          BY <5>1, <5>2
      <4>2. /\ written' \in Seq(Nat) /\ written' # <<>> /\ Len(written') = Len(written) /\ z \in Nat
            /\ Last(written') = written'[z] /\ written'[z] \in Nat /\ written'[z] = written[z] + 1
            /\ z \in DOMAIN written' /\ DOMAIN written' = DOMAIN written /\ Grows(written, writing, written', TRUE)
            /\ ~Closed(written, writing, z) /\ ~Closed(written', TRUE, z)
            /\ \A m \in DOMAIN written' : m # z =>
                 m \in DOMAIN written /\ written'[m] = written[m] /\ (Closed(written', TRUE, m) <=> Closed(written, writing, m))
        BY <1>1, <3>1, <4>1, Continued
      <4> HIDE DEF z
      <4> QED
        BY <4>2
    <3>2. CASE ~writing
      <4>1. written' = Append(written, 1)
        BY <2>1, <3>2
      <4>2. /\ written' \in Seq(Nat) /\ written' # <<>> /\ z \in Nat /\ Last(written') = 1 /\ written'[z] = 1
            /\ z \in DOMAIN written' \ DOMAIN written /\ Grows(written, writing, written', TRUE)
            /\ ~Closed(written, writing, z) /\ ~Closed(written', TRUE, z)
            /\ \A m \in DOMAIN written' : m # z =>
                 m \in DOMAIN written /\ written'[m] = written[m] /\ (Closed(written', TRUE, m) <=> Closed(written, writing, m))
        <5>1. written \in Seq(Nat)
          BY <1>1
        <5>2. /\ written' \in Seq(Nat) /\ written' # <<>> /\ z \in Nat /\ written'[z] = 1 /\ Last(written') = 1
              /\ z \in DOMAIN written' \ DOMAIN written
              /\ \A m \in DOMAIN written' : m # z => m \in DOMAIN written
              /\ \A m \in DOMAIN written :
                   m # z /\ m \in DOMAIN written' /\ written'[m] = written[m] /\ written[m] <= written'[m]
          BY <4>1, <5>1, Began
        <5>3. ~Closed(written, writing, z) /\ ~Closed(written', TRUE, z)
          BY <5>2 DEF Closed
        <5> HIDE DEF z
        <5>4. \A m \in DOMAIN written : Closed(written, writing, m) /\ (m # Len(written') => Closed(written', TRUE, m))
          BY <3>2, <5>2 DEF Closed
        <5>5. z = Len(written')
          BY DEF z
        <5>6. Grows(written, writing, written', TRUE)
          BY <5>2, <5>4, <5>5 DEF Grows
        <5> QED
          BY <5>2, <5>3, <5>4, <5>5, <5>6
      <4>3. 1 \in Nat
        OBVIOUS
      <4> HIDE DEF z
      <4> QED
        BY <4>2, <4>3
    <3> QED
      BY <3>1, <3>2
  <2>3. x.type = "chat_message" /\ x.msg = z /\ ~x.done /\ x.text = <<written'[z]>> /\ x \in Events
    <3>1. x = [type |-> "chat_message", msg |-> z, text |-> <<written'[z]>>, done |-> FALSE]
      BY <2>2 DEF Chat
    <3>2. <<written'[z]>> \in Seq(Nat)
      BY <2>2
    <3> HIDE DEF x, z
    <3> QED
      BY <2>2, <3>1, <3>2 DEF Events
  <2> HIDE DEF x, z
  <2>4. <<x>> \in Seq(Events) /\ Chats(<<x>>) /\ back \o <<x>> = Append(back, x)
    BY <1>1, <2>3
  <2>5. ASSUME socket = "open" PROVE Spoken(back', written', writing', transcript, streams, TRUE)
    <3>1. Spoken(back, written, writing, transcript, streams, TRUE) /\ back' = Append(back, x)
      BY <1>6, <1>11, <2>1, <2>4, <2>5
    <3>2. \A m \in DOMAIN written' : ~IsChat(x, m) =>
            m \in DOMAIN written /\ written'[m] = written[m] /\ (Closed(written', TRUE, m) <=> Closed(written, writing, m))
      BY <2>2, <2>3 DEF IsChat
    <3>3. /\ (x.type = "chat_message" => x.msg \in DOMAIN written' /\ ~Closed(written, writing, x.msg))
          /\ ~(x.type = "chat_message" /\ x.done) /\ x.type # "error"
          /\ (x.type = "chat_message" /\ ~x.done =>
                /\ ~Closed(written', TRUE, x.msg) /\ x.text = <<written'[x.msg]>>
                /\ IF x.msg \in DOMAIN written THEN written'[x.msg] = written[x.msg] + 1 ELSE written'[x.msg] = 1)
      BY <2>2, <2>3
    <3>4. Spoken(Append(back, x), written', TRUE, transcript, streams, TRUE)
      BY <1>1, <2>2, <2>3, <3>1, <3>2, <3>3, SpokenAppend
    <3> QED
      BY <2>1, <3>1, <3>4
  <2> QED
    BY <1>3, <2>1, <2>2, <2>4, <2>5
<1>13. ASSUME TextDone PROVE Said /\ Stored
  <2>1. writing' = FALSE /\ Emits(Flushed) /\ store' = store /\ answering' = answering /\ written' = written
    BY <1>13 DEF TextDone
  <2>2. Chats(Flushed)
    BY <1>8
  <2> QED
    BY <1>1, <1>7, <1>8, <1>9, <1>11, <2>1, <2>2
<1>14. ASSUME Propose PROVE Said /\ Stored
  <2> DEFINE x == Proposal(Len(store'))
  <2>1. /\ writing' = FALSE /\ Emits(Flushed \o <<x>>) /\ answering' = answering /\ written' = written
        /\ store' = Append(store, card)
    BY <1>14 DEF Propose
  <2>2. x \in Events /\ x.type = "action_proposal"
    <3>1. card \in [state : States, turn : Nat]
      BY <1>1 DEF States
    <3>2. Len(store') \in Nat
      BY <1>1, <2>1, <3>1
    <3> QED
      BY <3>2 DEF Proposal, Events
  <2> HIDE DEF x
  <2>3. back \o (Flushed \o <<x>>) = Append(back \o Flushed, x)
    BY <1>1, <1>8, <2>2, OneMore
  <2>4. ASSUME socket = "open" PROVE Spoken(back', written', writing', transcript, streams, TRUE)
    <3>1. /\ back' = Append(back \o Flushed, x) /\ back \o Flushed \in Seq(Events)
          /\ Spoken(back \o Flushed, written, FALSE, transcript, streams, TRUE)
      BY <1>7, <1>11, <2>1, <2>3, <2>4
    <3>2. Spoken(Append(back \o Flushed, x), written, FALSE, transcript, streams, TRUE)
      <4>1. \A m \in DOMAIN written : ~IsChat(x, m) =>
              m \in DOMAIN written /\ written[m] = written[m] /\ (Closed(written, FALSE, m) <=> Closed(written, FALSE, m))
        OBVIOUS
      <4>2. x.type # "chat_message" /\ x.type # "error"
        BY <2>2
      <4> QED
        BY <1>1, <1>9, <2>2, <3>1, <4>1, <4>2, SpokenAppend
    <3> QED
      BY <2>1, <3>1, <3>2
  <2> QED
    BY <1>1, <1>9, <2>1, <2>4 DEF x
<1>15. ASSUME Decline PROVE Said /\ Stored
  <2> DEFINE z == Len(written')
             x == Chat(z, Text(1), TRUE)
  <2>1. /\ writing' = FALSE /\ answering' = answering /\ store' = store /\ Emits(Flushed \o <<x>>)
        /\ written' = Append(written, 1)
    BY <1>15 DEF Decline
  <2>2. /\ written' \in Seq(Nat) /\ written' # <<>> /\ z \in Nat /\ Last(written') = 1 /\ written'[z] = 1
        /\ z \in DOMAIN written' \ DOMAIN written /\ Grows(written, FALSE, written', FALSE)
        /\ ~Closed(written, FALSE, z) /\ Closed(written', FALSE, z)
        /\ \A m \in DOMAIN written' : m # z =>
             m \in DOMAIN written /\ written'[m] = written[m] /\ (Closed(written', FALSE, m) <=> Closed(written, FALSE, m))
    <3>1. written \in Seq(Nat)
      BY <1>1
    <3>2. /\ written' \in Seq(Nat) /\ written' # <<>> /\ z \in Nat /\ written'[z] = 1 /\ Last(written') = 1
          /\ z \in DOMAIN written' \ DOMAIN written
          /\ \A m \in DOMAIN written' : m # z => m \in DOMAIN written
          /\ \A m \in DOMAIN written :
               m # z /\ m \in DOMAIN written' /\ written'[m] = written[m] /\ written[m] <= written'[m]
      BY <2>1, <3>1, Began
    <3> HIDE DEF z, x
    <3>3. /\ ~Closed(written, FALSE, z) /\ Closed(written', FALSE, z)
          /\ \A m \in DOMAIN written : Closed(written, FALSE, m) /\ Closed(written', FALSE, m)
      BY <3>2 DEF Closed
    <3>4. Grows(written, FALSE, written', FALSE)
      BY <3>2, <3>3 DEF Grows
    <3> QED
      BY <3>2, <3>3, <3>4
  <2>3. x.type = "chat_message" /\ x.msg = z /\ x.done /\ x.text = Text(written'[z]) /\ x \in Events
    <3>1. x = [type |-> "chat_message", msg |-> z, text |-> Text(1), done |-> TRUE]
      BY DEF Chat
    <3>2. Text(1) \in Seq(Nat)
      BY TextIs
    <3> HIDE DEF x, z
    <3> QED
      BY <2>2, <3>1, <3>2 DEF Events
  <2>4. Grows(written, writing, written', FALSE)
    BY <1>9, <2>2 DEF Grows
  <2> HIDE DEF x, z
  <2>5. /\ Flushed \o <<x>> \in Seq(Events) /\ Chats(Flushed \o <<x>>)
        /\ back \o (Flushed \o <<x>>) = Append(back \o Flushed, x)
    BY <1>10, <2>3
  <2>6. ASSUME socket = "open" PROVE Spoken(back', written', writing', transcript, streams, TRUE)
    <3>1. /\ back' = Append(back \o Flushed, x) /\ back \o Flushed \in Seq(Events)
          /\ Spoken(back \o Flushed, written, FALSE, transcript, streams, TRUE)
      BY <1>7, <1>11, <2>1, <2>5, <2>6
    <3>2. \A m \in DOMAIN written' : ~IsChat(x, m) =>
            m \in DOMAIN written /\ written'[m] = written[m] /\ (Closed(written', FALSE, m) <=> Closed(written, FALSE, m))
      BY <2>2, <2>3 DEF IsChat
    <3>3. /\ (x.type = "chat_message" => x.msg \in DOMAIN written' /\ ~Closed(written, FALSE, x.msg))
          /\ (x.type = "chat_message" /\ x.done => Closed(written', FALSE, x.msg) /\ x.text = Text(written'[x.msg]))
          /\ ~(x.type = "chat_message" /\ ~x.done) /\ x.type # "error"
      BY <2>2, <2>3
    <3>4. Spoken(Append(back \o Flushed, x), written', FALSE, transcript, streams, TRUE)
      BY <1>1, <2>2, <2>3, <3>1, <3>2, <3>3, SpokenAppend
    <3> QED
      BY <2>1, <3>1, <3>4
  <2> QED
    BY <1>1, <2>1, <2>2, <2>4, <2>5, <2>6
<1>16. ASSUME TurnEnds PROVE Said /\ Stored
  <2>1. writing' = FALSE /\ answering' = 0 /\ store' = store /\ written' = written
    BY <1>16 DEF TurnEnds
  <2>2. Emits(Flushed \o <<>>) \/ Emits(Flushed \o <<Failure>>)
    BY <1>16 DEF TurnEnds
  <2>3. CASE Emits(Flushed \o <<>>)
    <3>1. Flushed \o <<>> = Flushed /\ Chats(Flushed)
      BY <1>8
    <3>2. Emits(Flushed)
      BY <2>3, <3>1
    <3> QED
      BY <1>1, <1>7, <1>8, <1>9, <1>11, <2>1, <3>1, <3>2
  <2>4. CASE Emits(Flushed \o <<Failure>>)
    <3> DEFINE x == Failure
    <3>1. x \in Events /\ x.type = "error"
      BY DEF Failure, Events
    <3> HIDE DEF x
    <3>2. /\ Flushed \o <<x>> \in Seq(Events) /\ Chats(Flushed \o <<x>>)
          /\ back \o (Flushed \o <<x>>) = Append(back \o Flushed, x)
      BY <1>10, <3>1
    <3>3. Emits(Flushed \o <<x>>)
      BY <2>4 DEF x
    <3>4. ASSUME socket = "open" PROVE Spoken(back', written', writing', transcript, streams, TRUE)
      <4>1. /\ back' = Append(back \o Flushed, x) /\ back \o Flushed \in Seq(Events)
            /\ Spoken(back \o Flushed, written, FALSE, transcript, streams, TRUE)
        BY <1>7, <1>11, <3>2, <3>3, <3>4
      <4>2. Spoken(Append(back \o Flushed, x), written, FALSE, transcript, streams, TRUE)
        <5>1. \A m \in DOMAIN written : ~IsChat(x, m) =>
                m \in DOMAIN written /\ written[m] = written[m] /\ (Closed(written, FALSE, m) <=> Closed(written, FALSE, m))
          OBVIOUS
        <5>2. x.type # "chat_message" /\ \A m \in DOMAIN written : Closed(written, FALSE, m)
          BY <3>1 DEF Closed
        <5> QED
          BY <1>1, <1>9, <3>1, <4>1, <5>1, <5>2, SpokenAppend
      <4> QED
        BY <2>1, <4>1, <4>2
    <3> QED
      BY <1>1, <1>9, <2>1, <3>2, <3>3, <3>4
  <2> QED
    BY <2>2, <2>3, <2>4
<1>17. Said /\ Stored
  BY <1>12, <1>13, <1>14, <1>15, <1>16 DEF Turn
<1> HIDE DEF Said, Stored
<1> QED
  BY <1>3, <1>4, <1>17 DEF Said, Stored

-----------------------------------------------------------------------------
(* The steps and the invariants.                                            *)

(* What the agent tells of cards arrives or is lost.                        *)
LEMMA CardsTold ==
  ASSUME Typed, Cards, socket # "connecting", UNCHANGED <<views, turns, socket>>, NEW e, Tells(e)
  PROVE  Cards' /\ back' \in Seq(Events)
<1>1. /\ back \in Seq(Events) /\ socket \in {"open", "gone"} /\ DOMAIN views \subseteq DOMAIN store
      /\ e \in Seq(Events)
  BY DEF Typed, Tells
<1>2. /\ DOMAIN store' = DOMAIN store
      /\ \A c \in DOMAIN store :
           /\ store'[c].turn = store[c].turn
           /\ store'[c].state = store[c].state
              \/ (store[c].state = "validated" /\ \E i \in DOMAIN e : IsChange(e[i], c))
      /\ \A i \in DOMAIN e :
           /\ e[i].type # "action_proposal"
           /\ e[i].type = "proposal_state_changed" =>
                e[i].card \in DOMAIN store' /\ store'[e[i].card].state = e[i].state
  BY DEF Tells
<1>3. CASE socket = "open"
  <2>1. Mirrored(back, store, views, turns, TRUE)
    BY <1>3 DEF Cards, Mirrored
  <2>2. back' = back \o e /\ back \o e \in Seq(Events)
    BY <1>1, <1>3, ConcatIs DEF Tells, Emits
  <2>3. Mirrored(back \o e, store', views, turns, TRUE)
    BY <1>1, <1>2, <2>1, MirrorTells
  <2>4. Mirrored(back', store', views', turns', TRUE)
    BY <2>2, <2>3
  <2> QED
    BY <2>2, <2>4 DEF Cards, Mirrored
<1>4. CASE socket = "gone"
  <2>1. Mirrored(back, store, views, turns, FALSE)
    BY <1>4 DEF Cards, Mirrored
  <2>2. back' = back
    BY <1>4 DEF Tells, Emits
  <2>3. Mirrored(back, store', views, turns, FALSE)
    BY <1>1, <1>2, <2>1, MirrorTells
  <2>4. Mirrored(back', store', views', turns', FALSE)
    BY <2>2, <2>3
  <2>5. socket' = "gone"
    BY <1>4
  <2> QED
    BY <1>1, <2>2, <2>4, <2>5 DEF Cards, Mirrored
<1> QED
  BY <1>1, <1>3, <1>4

(* The agent's turns and the cards.                                         *)
LEMMA CardsTurn ==
  ASSUME Typed, Linked, Cards, Messages, Turn
  PROVE  /\ Cards' /\ back' \in Seq(Events)
         /\ store' \in Seq([state : States, turn : Nat]) /\ DOMAIN store \subseteq DOMAIN store'
<1>1. /\ back \in Seq(Events) /\ socket \in {"connecting", "open", "gone"} /\ DOMAIN views \subseteq DOMAIN store
      /\ store \in Seq([state : States, turn : Nat]) /\ turns \in Nat /\ answering \in Nat
  BY DEF Typed
<1>2. socket # "connecting" /\ UNCHANGED <<views, turns, socket>>
  BY TurnIs DEF clientVars
<1>3. ASSUME store' = store, NEW e \in Seq(Events), Emits(e), \A i \in DOMAIN e : e[i].type \in {"chat_message", "error"}
      PROVE  Cards' /\ back' \in Seq(Events)
  <2>1. Tells(e)
    BY <1>1, <1>3 DEF Tells
  <2> QED
    BY <1>2, <2>1, CardsTold
<1>4. ASSUME store' = Append(store, [state |-> "validated", turn |-> answering]),
             Emits(Flushed \o <<Proposal(Len(store'))>>)
      PROVE  /\ Cards' /\ back' \in Seq(Events)
             /\ store' \in Seq([state : States, turn : Nat]) /\ DOMAIN store \subseteq DOMAIN store'
  <2> DEFINE card == [state |-> "validated", turn |-> answering]
             d == Len(store) + 1
             x == Proposal(d)
             b == back \o Flushed
  <2>1. card \in [state : States, turn : Nat]
    BY <1>1 DEF States
  <2>2. /\ store' \in Seq([state : States, turn : Nat]) /\ Len(store') = d /\ d \in Nat
        /\ DOMAIN store \subseteq DOMAIN store'
    <3>1. /\ Append(store, card) \in Seq([state : States, turn : Nat]) /\ Len(Append(store, card)) = d
          /\ DOMAIN Append(store, card) = DOMAIN store \union {d}
      BY <1>1, <2>1, AppendIs
    <3>2. d \in Nat
      BY <1>1, PositionsAre
    <3>3. store' = Append(store, card)
      BY <1>4
    <3> QED
      BY <3>1, <3>2, <3>3
  <2>3. x \in Events /\ IsOffer(x, d)
    BY <2>2 DEF Proposal, Events, IsOffer
  <2>4. Emits(Flushed \o <<x>>)
    BY <1>4, <2>2
  <2>5. Flushed \in Seq(Events) /\ \A i \in DOMAIN Flushed : Flushed[i].type = "chat_message"
    BY FlushedIs DEF Messages
  <2>6. b \in Seq(Events) /\ back \o (Flushed \o <<x>>) = Append(b, x)
    BY <1>1, <2>3, <2>5, ConcatIs, OneMore
  <2>7. answering <= turns
    BY DEF Linked
  <2>8. \A c \in DOMAIN store :
          /\ store[c].turn = store[c].turn
          /\ store[c].state = store[c].state \/ (store[c].state = "validated" /\ \E i \in DOMAIN Flushed : IsChange(Flushed[i], c))
    OBVIOUS
  <2>9. \A i \in DOMAIN Flushed :
          /\ Flushed[i].type # "action_proposal"
          /\ Flushed[i].type = "proposal_state_changed" =>
               Flushed[i].card \in DOMAIN store /\ store[Flushed[i].card].state = Flushed[i].state
    BY <2>5
  <2>10. CASE socket = "open"
    <3>1. Mirrored(back, store, views, turns, TRUE)
      BY <2>10 DEF Cards, Mirrored
    <3>2. Mirrored(b, store, views, turns, TRUE)
      BY <1>1, <2>5, <2>8, <2>9, <3>1, MirrorTells
    <3> HIDE DEF b
    <3>3. Mirrored(Append(b, x), Append(store, [state |-> "validated", turn |-> answering]), views, turns, TRUE)
      BY <1>1, <2>3, <2>6, <2>7, <3>2, MirrorOffers
    <3>4. back' = Append(b, x) /\ Append(b, x) \in Seq(Events)
      BY <2>3, <2>4, <2>6, <2>10, AppendIs DEF Emits
    <3>5. Mirrored(back', store', views', turns', TRUE)
      BY <1>2, <1>4, <3>3, <3>4
    <3> QED
      BY <2>2, <3>4, <3>5 DEF Cards, Mirrored
  <2>11. CASE socket = "gone"
    <3>1. Mirrored(back, store, views, turns, FALSE)
      BY <2>11 DEF Cards, Mirrored
    <3>2. Mirrored(back, Append(store, [state |-> "validated", turn |-> answering]), views, turns, FALSE)
      BY <1>1, <2>3, <2>7, <3>1, MirrorOffers
    <3>3. back' = back /\ socket' = "gone"
      BY <1>2, <2>4, <2>11 DEF Emits
    <3>4. Mirrored(back', store', views', turns', FALSE)
      BY <1>2, <1>4, <3>2, <3>3
    <3> QED
      BY <1>1, <2>2, <3>3, <3>4 DEF Cards, Mirrored
  <2> QED
    BY <1>1, <1>2, <2>10, <2>11
<1> QED
  BY <1>1, <1>3, <1>4, TurnIs

(* Every step is one of these.                                              *)
LEMMA StepIs ==
  ASSUME [Next]_vars
  PROVE  \/ UserActs \/ Quiet \/ Receive \/ SocketOpens \/ SocketDies
         \/ HandleInit \/ HandleUserMessage \/ (HandleContextUpdate \/ HandleConfirm \/ HandleReject) \/ Turn
BY DEF Next, UserActs, Quiet, Agent

(* Types are kept.                                                          *)
LEMMA TypedStep ==
  ASSUME Typed, Linked, Cards, Messages, [Next]_vars
  PROVE  Typed'
<1>1. /\ turns \in Nat /\ subscribed \in BOOLEAN /\ socket \in {"connecting", "open", "gone"}
      /\ queue \in Seq(Frames) /\ wire \in Seq(Frames) /\ back \in Seq(Events)
      /\ initialized \in BOOLEAN /\ store \in Seq([state : States, turn : Nat]) /\ answering \in Nat
      /\ written \in Seq(Nat) /\ writing \in BOOLEAN
      /\ views \in [DOMAIN views -> View] /\ DOMAIN views \subseteq DOMAIN store
  BY DEF Typed
<1>2. CASE UserActs
  <2>1. SameCards /\ UNCHANGED subscribed
    BY <1>2, UserIs
  <2>2. PICK frame \in Frames : Send(frame) /\ turns' \in {turns, turns + 1}
    BY <1>2, UserIs
  <2>3. queue' \in Seq(Frames) /\ wire' \in Seq(Frames) /\ UNCHANGED <<socket, back, agentVars>>
    BY <2>2, SendIs
  <2> QED
    BY <1>1, <2>1, <2>2, <2>3 DEF Typed, SameCards, agentVars
<1>3. CASE Quiet
  <2>1. SameCards /\ subscribed' \in BOOLEAN /\ UNCHANGED <<turns, agentVars, linkVars>>
    BY <1>3, QuietIs
  <2> QED
    BY <1>1, <2>1 DEF Typed, SameCards, agentVars, linkVars
<1>4. CASE Receive
  <2>1. /\ back' \in Seq(Events) /\ UNCHANGED <<turns, subscribed, agentVars, socket, queue, wire>>
        /\ views' \in [DOMAIN views' -> View] /\ DOMAIN views' \subseteq DOMAIN store
    BY <1>4, ReceiveIs
  <2> QED
    BY <1>1, <2>1 DEF Typed, agentVars
<1>5. CASE SocketOpens
  <2>1. queue' \in Seq(Frames)
    BY <1>5 DEF SocketOpens
  <2> QED
    BY <1>1, <1>5, <2>1 DEF Typed, SocketOpens, clientVars, agentVars
<1>6. CASE SocketDies
  <2>1. wire' \in Seq(Frames)
    <3>1. PICK n \in 0 .. Len(wire) : wire' = SubSeq(wire, 1, n)
      BY <1>6 DEF SocketDies
    <3> QED
      BY <1>1, <3>1, CutIs
  <2>2. back' \in Seq(Events)
    <3>1. PICK n \in 0 .. Len(back) : back' = SubSeq(back, 1, n)
      BY <1>6 DEF SocketDies
    <3> QED
      BY <1>1, <3>1, CutIs
  <2> QED
    BY <1>1, <1>6, <2>1, <2>2 DEF Typed, SocketDies, clientVars, agentVars
<1>7. CASE HandleInit
  <2>1. wire' \in Seq(Frames) /\ UNCHANGED <<clientVars, socket, queue>>
    BY <1>7, TakesIs DEF HandleInit
  <2>2. initialized' = TRUE /\ UNCHANGED <<store, answering, written, writing, back>>
    BY <1>7 DEF HandleInit
  <2> QED
    BY <1>1, <2>1, <2>2 DEF Typed, clientVars
<1>8. CASE HandleUserMessage
  <2>1. /\ wire' \in Seq(Frames) /\ UNCHANGED <<clientVars, socket, queue>>
        /\ Head(wire) \in Frames /\ Head(wire).type = "user_message"
    BY <1>8, TakesIs DEF HandleUserMessage
  <2>2. answering' = Head(wire).turn /\ UNCHANGED <<initialized, store, written, writing, back>>
    BY <1>8 DEF HandleUserMessage
  <2>3. answering' \in Nat
    BY <2>1, <2>2, FrameIs
  <2> QED
    BY <1>1, <2>1, <2>2, <2>3 DEF Typed, clientVars
<1>9. CASE HandleContextUpdate \/ HandleConfirm \/ HandleReject
  <2>1. UNCHANGED <<initialized, answering, written, writing>>
    BY <1>9, HandlesIs
  <2>2. PICK e : Tells(e)
    BY <1>9, HandlesIs
  <2>3. wire' \in Seq(Frames) /\ socket # "connecting" /\ UNCHANGED <<clientVars, socket, queue>>
    BY <1>9, HandlesIs, TakesIs
  <2>4. back' \in Seq(Events)
    BY <2>2, <2>3, CardsTold DEF clientVars
  <2>5. store' \in Seq([state : States, turn : Nat]) /\ DOMAIN store' = DOMAIN store
    BY <2>2 DEF Tells
  <2> QED
    BY <1>1, <2>1, <2>3, <2>4, <2>5 DEF Typed, clientVars
<1>10. CASE Turn
  <2>1. /\ UNCHANGED <<clientVars, initialized, socket, queue, wire>>
        /\ written' \in Seq(Nat) /\ writing' \in BOOLEAN /\ answering' \in {answering, 0}
    BY <1>10, TurnIs
  <2>2. /\ back' \in Seq(Events)
        /\ store' \in Seq([state : States, turn : Nat]) /\ DOMAIN store \subseteq DOMAIN store'
    BY <1>10, CardsTurn
  <2> QED
    BY <1>1, <2>1, <2>2 DEF Typed, clientVars
<1> QED
  BY <1>2, <1>3, <1>4, <1>5, <1>6, <1>7, <1>8, <1>9, <1>10, StepIs

(* The frames under way stay as they should.                                *)
LEMMA LinkStep ==
  ASSUME Typed, Linked, Sent, Cards, Messages, [Next]_vars
  PROVE  Linked' /\ Sent'
<1>1. /\ turns \in Nat /\ socket \in {"connecting", "open", "gone"} /\ answering \in Nat
      /\ queue \in Seq(Frames) /\ wire \in Seq(Frames) /\ Unhandled \in Seq(Frames)
      /\ initialized \in BOOLEAN
  BY ConcatIs DEF Typed, Unhandled
<1>2. \A i \in DOMAIN Unhandled : i \in Nat /\ 1 <= i /\ Unhandled[i] \in Frames /\ 1 \in DOMAIN Unhandled
  <2>1. Len(Unhandled) \in Nat /\ DOMAIN Unhandled = 1 .. Len(Unhandled)
    BY <1>1, PositionsAre
  <2>2. \A i \in 1 .. Len(Unhandled) : 1 \in 1 .. Len(Unhandled)
    BY <2>1
  <2> QED
    BY <1>1, <2>1, <2>2, PositionsAre
<1>3. /\ answering <= turns
      /\ \A i \in DOMAIN Unhandled :
           /\ IsTurn(Unhandled[i]) => Unhandled[i].turn <= turns
           /\ Unhandled[i].type \in {"confirm_action", "reject_action"} => Unhandled[i].card \in DOMAIN store
      /\ socket = "connecting" => wire = <<>> /\ answering = 0
      /\ socket = "open" => queue = <<>>
  BY DEF Linked
<1>4. ASSUME UNCHANGED <<socket, queue, wire, turns, initialized>>, answering' \in {answering, 0},
             DOMAIN store \subseteq DOMAIN store'
      PROVE  Linked' /\ Sent'
  <2>1. Unhandled' = Unhandled /\ answering' <= turns'
    BY <1>1, <1>3, <1>4 DEF Unhandled
  <2>2. Linked'
    BY <1>3, <1>4, <2>1 DEF Linked
  <2>3. Sent'
    BY <1>4, <2>1 DEF Sent
  <2> QED
    BY <2>2, <2>3
<1>5. CASE UserActs
  <2>1. PICK frame \in Frames :
          /\ Send(frame)
          /\ IsTurn(frame) => frame.turn = turns + 1 /\ turns' = turns + 1
          /\ ~IsTurn(frame) => turns' = turns
          /\ frame.type \in {"confirm_action", "reject_action"} => frame.card \in DOMAIN store
    BY <1>5, UserIs
  <2>2. /\ UNCHANGED <<socket, agentVars>>
        /\ socket = "connecting" => wire' = <<>>
        /\ socket = "open" => queue' = <<>>
        /\ Unhandled' = IF socket = "gone" THEN Unhandled ELSE Append(Unhandled, frame)
    BY <2>1, SendIs
  <2>3. /\ UNCHANGED <<initialized, answering, store>> /\ turns' \in Nat /\ turns <= turns'
        /\ IsTurn(frame) => frame.turn <= turns'
    BY <1>1, <2>1, <2>2 DEF agentVars
  <2>4. /\ answering' <= turns'
        /\ \A i \in DOMAIN Unhandled :
             /\ IsTurn(Unhandled[i]) => Unhandled[i].turn <= turns'
             /\ Unhandled[i].type \in {"confirm_action", "reject_action"} => Unhandled[i].card \in DOMAIN store'
    <3>1. answering' <= turns'
      BY <1>1, <1>3, <2>3
    <3>2. ASSUME NEW i \in DOMAIN Unhandled, IsTurn(Unhandled[i])
          PROVE  Unhandled[i].turn <= turns'
      <4> DEFINE n == Unhandled[i].turn
      <4>1. n \in Nat /\ n <= turns
        BY <1>2, <1>3, <3>2, FrameIs DEF IsTurn
      <4> HIDE DEF n
      <4>2. n <= turns'
        BY <1>1, <2>3, <4>1
      <4> QED
        BY <4>2 DEF n
    <3> QED
      BY <1>3, <2>3, <3>1, <3>2
  <2>5. CASE socket = "gone"
    <3>1. Unhandled' = Unhandled /\ socket' = "gone"
      BY <2>2, <2>5
    <3>2. Linked'
      BY <2>2, <2>4, <3>1 DEF Linked
    <3>3. Sent'
      BY <2>3, <3>1 DEF Sent
    <3> QED
      BY <3>2, <3>3
  <2>6. CASE socket # "gone"
    <3> DEFINE u == Append(Unhandled, frame)
               z == Len(Unhandled) + 1
    <3>1. Unhandled' = u /\ socket' = socket
      BY <2>2, <2>6
    <3>2. /\ DOMAIN u = DOMAIN Unhandled \union {z} /\ u[z] = frame /\ u \in Seq(Frames)
          /\ \A i \in DOMAIN Unhandled : u[i] = Unhandled[i]
      BY <1>1, AppendIs
    <3>3. u # <<>>
      BY <3>2
    <3>4. Ordered(u, turns')
      <4>1. Ordered(Unhandled, turns)
        BY <2>6 DEF Sent
      <4>2. CASE IsTurn(frame)
        BY <1>1, <2>1, <4>1, <4>2, OrderedMore
      <4>3. CASE ~IsTurn(frame)
        <5>1. turns' = turns
          BY <2>1, <4>3
        <5> QED
          BY <1>1, <4>1, <4>3, <5>1, OrderedOther
      <4> QED
        BY <4>2, <4>3
    <3> HIDE DEF u, z
    <3>5. initialized \/ u[1].type = "init"
      <4>1. SUFFICES ASSUME ~initialized PROVE u[1].type = "init"
        OBVIOUS
      <4>2. Unhandled # <<>> /\ Unhandled[1].type = "init"
        BY <2>6, <4>1 DEF Sent
      <4>3. 1 \in DOMAIN Unhandled
        BY <1>1, <4>2, TailIs
      <4> QED
        BY <3>2, <4>2, <4>3
    <3>6. \A i \in DOMAIN u :
            /\ IsTurn(u[i]) => u[i].turn <= turns'
            /\ u[i].type \in {"confirm_action", "reject_action"} => u[i].card \in DOMAIN store'
      BY <2>1, <2>3, <2>4, <3>2
    <3>7. Linked'
      BY <1>3, <2>2, <2>3, <2>4, <3>1, <3>6 DEF Linked
    <3>8. Sent'
      BY <2>3, <3>1, <3>3, <3>4, <3>5 DEF Sent
    <3> QED
      BY <3>7, <3>8
  <2> QED
    BY <2>5, <2>6
<1>6. CASE Quiet
  BY <1>4, <1>6, QuietIs DEF agentVars, linkVars
<1>7. CASE Receive
  BY <1>4, <1>7, ReceiveIs DEF agentVars
<1>8. CASE SocketOpens
  <2>1. /\ socket = "connecting" /\ socket' = "open" /\ wire' = queue /\ queue' = <<>>
        /\ UNCHANGED <<turns, initialized, answering, store>>
    BY <1>8 DEF SocketOpens, clientVars, agentVars
  <2>2. Unhandled' = Unhandled
    <3>1. wire = <<>> /\ <<>> \o queue = queue /\ queue \o <<>> = queue
      BY <1>1, <1>3, <2>1
    <3> QED
      BY <2>1, <3>1 DEF Unhandled
  <2>3. Linked'
    BY <1>3, <2>1, <2>2 DEF Linked
  <2>4. Sent'
    BY <2>1, <2>2 DEF Sent
  <2> QED
    BY <2>3, <2>4
<1>9. CASE SocketDies
  <2>1. socket # "gone" /\ socket' = "gone" /\ queue' = queue /\ UNCHANGED <<turns, initialized, answering, store>>
    BY <1>9 DEF SocketDies, clientVars, agentVars
  <2>2. PICK n \in 0 .. Len(wire) : wire' = SubSeq(wire, 1, n)
    BY <1>9 DEF SocketDies
  <2>3. /\ wire' \in Seq(Frames)
        /\ \A i \in DOMAIN wire' : i \in DOMAIN wire /\ wire'[i] = wire[i]
    BY <1>1, <2>2, CutIs
  <2>4. /\ Unhandled' \in Seq(Frames)
        /\ \A i \in DOMAIN Unhandled' : i \in DOMAIN Unhandled /\ Unhandled'[i] = Unhandled[i]
    <3>1. CASE socket = "connecting"
      <4>1. wire = <<>> /\ Len(wire) = 0
        BY <1>3, <3>1
      <4>2. wire' = <<>>
        BY <1>1, <2>2, <4>1
      <4> QED
        BY <1>1, <2>1, <4>1, <4>2 DEF Unhandled
    <3>2. CASE socket = "open"
      <4>1. queue = <<>> /\ wire \o <<>> = wire /\ wire' \o <<>> = wire'
        BY <1>1, <1>3, <2>3, <3>2
      <4> QED
        BY <1>1, <2>1, <2>3, <4>1 DEF Unhandled
    <3> QED
      BY <1>1, <2>1, <3>1, <3>2
  <2>5. Linked'
    BY <1>3, <2>1, <2>4 DEF Linked
  <2>6. initialized' \/ Unhandled' = <<>> \/ Unhandled'[1].type = "init"
    <3>1. SUFFICES ASSUME ~initialized, Unhandled' # <<>> PROVE Unhandled'[1].type = "init"
      BY <2>1
    <3>2. 1 \in DOMAIN Unhandled'
      BY <2>4, <3>1, TailIs
    <3>3. Unhandled'[1] = Unhandled[1] /\ Unhandled # <<>>
      BY <2>4, <3>2
    <3> QED
      BY <3>1, <3>3 DEF Sent
  <2>7. Sent'
    BY <2>1, <2>6 DEF Sent
  <2> QED
    BY <2>5, <2>7
<1>10. ASSUME NEW t, Takes(t), initialized', answering' \in Nat, answering' <= turns, DOMAIN store' = DOMAIN store
       PROVE  Linked' /\ Sent'
  <2>1. /\ socket # "connecting" /\ UNCHANGED <<socket, queue, turns>>
        /\ Unhandled # <<>> /\ Unhandled' = Tail(Unhandled)
    BY <1>10, TakesIs DEF clientVars
  <2>2. \A i \in DOMAIN Unhandled' : \E k \in DOMAIN Unhandled : Unhandled'[i] = Unhandled[k]
    BY <1>1, <2>1, TailIs
  <2>3. Linked'
    BY <1>3, <1>10, <2>1, <2>2 DEF Linked
  <2>4. socket' # "gone" => Ordered(Unhandled', turns')
    BY <1>1, <2>1, OrderedTail DEF Sent
  <2>5. Sent'
    BY <1>10, <2>1, <2>4 DEF Sent
  <2> QED
    BY <2>3, <2>5
<1>11. CASE HandleInit
  <2>1. Takes("init") /\ initialized' = TRUE /\ UNCHANGED <<store, answering>>
    BY <1>11 DEF HandleInit
  <2> QED
    BY <1>1, <1>3, <1>10, <2>1
<1>12. CASE HandleUserMessage
  <2>1. /\ Takes("user_message") /\ initialized' = initialized /\ initialized /\ store' = store
        /\ answering' = Head(wire).turn
    BY <1>12 DEF HandleUserMessage
  <2>2. /\ 1 \in DOMAIN Unhandled /\ Head(wire) = Unhandled[1]
        /\ Head(wire) \in Frames /\ Head(wire).type = "user_message"
    BY <2>1, TakesIs
  <2>3. answering' \in Nat /\ answering' <= turns
    BY <1>3, <2>1, <2>2, FrameIs DEF IsTurn
  <2> QED
    BY <1>10, <2>1, <2>3
<1>13. CASE HandleContextUpdate \/ HandleConfirm \/ HandleReject
  <2>1. initialized /\ UNCHANGED <<initialized, answering>>
    BY <1>13, HandlesIs
  <2>2. PICK t : Takes(t)
    BY <1>13, HandlesIs
  <2>3. DOMAIN store' = DOMAIN store
    BY <1>13, HandlesIs DEF Tells
  <2> QED
    BY <1>1, <1>3, <1>10, <2>1, <2>2, <2>3
<1>14. CASE Turn
  <2>1. UNCHANGED <<clientVars, initialized, socket, queue, wire>> /\ answering' \in {answering, 0}
    BY <1>14, TurnIs
  <2>2. DOMAIN store \subseteq DOMAIN store'
    BY <1>14, CardsTurn
  <2> QED
    BY <1>4, <2>1, <2>2 DEF clientVars
<1> QED
  BY <1>5, <1>6, <1>7, <1>8, <1>9, <1>11, <1>12, <1>13, <1>14, StepIs

(* The cards under way stay as they should.                                 *)
LEMMA CardsStep ==
  ASSUME Typed, Linked, Cards, Messages, [Next]_vars
  PROVE  Cards'
<1>1. /\ turns \in Nat /\ socket \in {"connecting", "open", "gone"} /\ back \in Seq(Events)
      /\ DOMAIN views \subseteq DOMAIN store /\ \A c \in DOMAIN store : store[c].turn \in Nat
  <2>1. store \in Seq([state : States, turn : Nat])
    BY DEF Typed
  <2>2. \A c \in DOMAIN store : store[c] \in [state : States, turn : Nat]
    BY <2>1, PositionsAre
  <2>3. \A c \in DOMAIN store : store[c].turn \in Nat
    BY <2>2
  <2> QED
    BY <2>3 DEF Typed
<1>2. ASSUME SameCards, UNCHANGED <<back, store, socket>>, turns' \in Nat, turns <= turns'
      PROVE  Cards'
  <2>1. /\ DOMAIN views' = DOMAIN views
        /\ \A c \in DOMAIN views : views'[c].state = views[c].state /\ views'[c].turn = views[c].turn
    BY <1>2 DEF SameCards
  <2>2. CASE socket # "gone"
    <3>1. Mirrored(back, store, views, turns, TRUE)
      BY <2>2 DEF Cards, Mirrored
    <3>2. Mirrored(back, store, views', turns', TRUE)
      BY <1>1, <1>2, <2>1, <3>1, MirrorSame
    <3>3. Mirrored(back', store', views', turns', TRUE)
      BY <1>2, <3>2
    <3> QED
      BY <3>3 DEF Cards, Mirrored
  <2>3. CASE socket = "gone"
    <3>1. Mirrored(back, store, views, turns, FALSE)
      BY <2>3 DEF Cards, Mirrored
    <3>2. Mirrored(back, store, views', turns', FALSE)
      BY <1>1, <1>2, <2>1, <3>1, MirrorSame
    <3>3. Mirrored(back', store', views', turns', FALSE) /\ socket' = "gone"
      BY <1>2, <2>3, <3>2
    <3> QED
      BY <3>3 DEF Cards, Mirrored
  <2> QED
    BY <2>2, <2>3
<1>3. ASSUME UNCHANGED <<views, back, store, socket, turns>>
      PROVE  Cards'
  BY <1>3 DEF Cards
<1>4. CASE UserActs
  <2>1. SameCards
    BY <1>4, UserIs
  <2>2. PICK frame \in Frames : Send(frame) /\ turns' \in {turns, turns + 1}
    BY <1>4, UserIs
  <2>3. UNCHANGED <<back, store, socket>>
    BY <2>2, SendIs DEF agentVars
  <2>4. turns' \in Nat /\ turns <= turns'
    BY <1>1, <2>2
  <2> QED
    BY <1>2, <2>1, <2>3, <2>4
<1>5. CASE Quiet
  <2>1. SameCards /\ UNCHANGED <<turns, back, store, socket>>
    BY <1>5, QuietIs DEF agentVars, linkVars
  <2>2. turns' \in Nat /\ turns <= turns'
    BY <1>1, <2>1
  <2> QED
    BY <1>2, <2>1, <2>2
<1>6. CASE Receive
  <2>1. /\ back # <<>> /\ back' = Tail(back) /\ UNCHANGED <<turns, store, socket>>
        /\ \A c : c \in DOMAIN views' <=> (c \in DOMAIN views \/ IsOffer(back[1], c))
        /\ \A c \in DOMAIN views : views'[c].turn = views[c].turn
        /\ \A c \in DOMAIN views : views'[c].state = IF IsChange(back[1], c) THEN back[1].state ELSE views[c].state
        /\ \A c : IsOffer(back[1], c) => views'[c].state = "validated" /\ views'[c].turn = turns
    BY <1>6, ReceiveIs DEF agentVars
  <2>2. CASE socket # "gone"
    <3>1. Mirrored(back, store, views, turns, TRUE)
      BY <2>2 DEF Cards, Mirrored
    <3>2. Mirrored(Tail(back), store, views', turns, TRUE)
      BY <1>1, <2>1, <3>1, MirrorTaken
    <3>3. Mirrored(back', store', views', turns', TRUE)
      BY <2>1, <3>2
    <3> QED
      BY <3>3 DEF Cards, Mirrored
  <2>3. CASE socket = "gone"
    <3>1. Mirrored(back, store, views, turns, FALSE)
      BY <2>3 DEF Cards, Mirrored
    <3>2. Mirrored(Tail(back), store, views', turns, FALSE)
      BY <1>1, <2>1, <3>1, MirrorTaken
    <3>3. Mirrored(back', store', views', turns', FALSE) /\ socket' = "gone"
      BY <2>1, <2>3, <3>2
    <3> QED
      BY <3>3 DEF Cards, Mirrored
  <2> QED
    BY <2>2, <2>3
<1>7. CASE SocketOpens
  <2>1. socket # "gone" /\ UNCHANGED <<views, back, store, turns>>
    BY <1>7 DEF SocketOpens, clientVars, agentVars
  <2>2. Mirrored(back, store, views, turns, TRUE)
    BY <2>1 DEF Cards, Mirrored
  <2>3. Mirrored(back', store', views', turns', TRUE)
    BY <2>1, <2>2
  <2> QED
    BY <2>3 DEF Cards, Mirrored
<1>8. CASE SocketDies
  <2>1. socket' = "gone" /\ UNCHANGED <<views, store, turns>>
    BY <1>8 DEF SocketDies, clientVars, agentVars
  <2>2. PICK n \in 0 .. Len(back) : back' = SubSeq(back, 1, n)
    BY <1>8 DEF SocketDies
  <2>3. Mirrored(back, store, views, turns, FALSE)
    BY DEF Cards, Mirrored
  <2>4. Mirrored(SubSeq(back, 1, n), store, views, turns, FALSE)
    BY <1>1, <2>3, MirrorCut
  <2>5. Mirrored(back', store', views', turns', FALSE)
    BY <2>1, <2>2, <2>4
  <2> QED
    BY <2>1, <2>5 DEF Cards, Mirrored
<1>9. CASE HandleInit \/ HandleUserMessage
  <2>1. UNCHANGED <<store, back>> /\ \E t : Takes(t)
    BY <1>9 DEF HandleInit, HandleUserMessage
  <2>2. UNCHANGED <<clientVars, socket>>
    BY <2>1, TakesIs
  <2> QED
    BY <1>3, <2>1, <2>2 DEF clientVars
<1>10. CASE HandleContextUpdate \/ HandleConfirm \/ HandleReject
  <2>1. PICK e : Tells(e)
    BY <1>10, HandlesIs
  <2>2. socket # "connecting" /\ UNCHANGED <<clientVars, socket>>
    BY <1>10, HandlesIs, TakesIs
  <2> QED
    BY <2>1, <2>2, CardsTold DEF clientVars
<1>11. CASE Turn
  BY <1>11, CardsTurn
<1> QED
  BY <1>4, <1>5, <1>6, <1>7, <1>8, <1>9, <1>10, <1>11, StepIs

(* The messages under way stay as they should.                              *)
LEMMA MessagesStep ==
  ASSUME Typed, Linked, Cards, Messages, [Next]_vars
  PROVE  Messages'
<1>1. /\ socket \in {"connecting", "open", "gone"} /\ back \in Seq(Events)
      /\ written \in Seq(Nat) /\ writing \in BOOLEAN
  BY DEF Typed
<1>2. writing => written # <<>> /\ answering # 0
  BY DEF Messages
<1>3. ASSUME UNCHANGED <<back, written, writing, transcript, streams, socket>>,
             UNCHANGED answering \/ answering = 0
      PROVE  Messages'
  BY <1>3 DEF Messages
<1>4. CASE UserActs
  <2>1. UNCHANGED <<streams, transcript>>
    BY <1>4, UserIs
  <2>2. PICK frame \in Frames : Send(frame)
    BY <1>4, UserIs
  <2>3. UNCHANGED <<back, written, writing, answering, socket>>
    BY <2>2, SendIs DEF agentVars
  <2> QED
    BY <1>3, <2>1, <2>3
<1>5. CASE Quiet
  BY <1>3, <1>5, QuietIs DEF agentVars, linkVars
<1>6. CASE Receive
  <2>1. /\ back # <<>> /\ Head(back) = back[1] /\ back[1] \in Events /\ back' = Tail(back)
        /\ UNCHANGED <<written, writing, answering, socket>>
    BY <1>6, ReceiveIs DEF agentVars
  <2>2. ASSUME NEW live, Spoken(back, written, writing, transcript, streams, live)
        PROVE  Spoken(back', written', writing', transcript', streams', live)
    <3>1. CASE ChatArrives
      <4> DEFINE m == back[1].msg
      <4>1. /\ back[1].type = "chat_message"
            /\ streams' = IF back[1].done THEN streams \ {m} ELSE streams \union {m}
            /\ transcript' = [x \in DOMAIN transcript \union {m} |-> IF x = m THEN Fold(back[1]) ELSE transcript[x]]
        BY <2>1, <3>1 DEF ChatArrives, Arrives
      <4>2. /\ DOMAIN transcript' = DOMAIN transcript \union {m}
            /\ \A x \in DOMAIN transcript : x # m => transcript'[x] = transcript[x]
            /\ transcript'[m] = Fold(back[1])
        BY <4>1
      <4>3. CASE back[1].done
        <5>1. streams' = streams \ {m} /\ transcript'[m] = back[1].text
          BY <4>1, <4>2, <4>3 DEF Fold
        <5>2. Spoken(Tail(back), written, writing, transcript', streams \ {m}, live)
          BY <1>1, <2>1, <2>2, <4>1, <4>2, <4>3, <5>1, SpokenTakenFinal
        <5> QED
          BY <2>1, <5>1, <5>2
      <4>4. CASE ~back[1].done
        <5>1. /\ streams' = streams \union {m}
              /\ transcript'[m] = IF m \in DOMAIN transcript THEN transcript[m] \o back[1].text ELSE back[1].text
          BY <4>1, <4>2, <4>4 DEF Fold
        <5>2. Spoken(Tail(back), written, writing, transcript', streams \union {m}, live)
          BY <1>1, <2>1, <2>2, <4>1, <4>2, <4>4, <5>1, SpokenTakenDelta
        <5> QED
          BY <2>1, <5>1, <5>2
      <4> QED
        BY <4>3, <4>4
    <3>2. CASE CardArrives \/ StateArrives \/ ErrorArrives
      <4>1. /\ back[1].type # "chat_message" /\ transcript' = transcript
            /\ streams' = IF back[1].type = "error" THEN {} ELSE streams
        BY <2>1, <3>2 DEF CardArrives, StateArrives, ErrorArrives, Arrives
      <4>2. /\ Spoken(Tail(back), written, writing, transcript, streams, live)
            /\ back[1].type = "error" => streams = {}
        BY <1>1, <2>1, <2>2, <4>1, SpokenTaken
      <4>3. streams' = streams
        BY <4>1, <4>2
      <4> QED
        BY <2>1, <4>1, <4>2, <4>3
    <3> QED
      BY <1>6, <3>1, <3>2 DEF Receive
  <2>3. CASE socket # "gone"
    <3>1. Spoken(back, written, writing, transcript, streams, TRUE)
      BY <2>3 DEF Messages, Spoken
    <3>2. Spoken(back', written', writing', transcript', streams', TRUE)
      BY <2>2, <3>1
    <3> QED
      BY <1>2, <2>1, <3>2 DEF Messages, Spoken
  <2>4. CASE socket = "gone"
    <3>1. Spoken(back, written, writing, transcript, streams, FALSE)
      BY <2>4 DEF Messages, Spoken
    <3>2. Spoken(back', written', writing', transcript', streams', FALSE) /\ socket' = "gone"
      BY <2>1, <2>2, <2>4, <3>1
    <3> QED
      BY <1>2, <2>1, <3>2 DEF Messages, Spoken
  <2> QED
    BY <2>3, <2>4
<1>7. CASE SocketOpens
  <2>1. socket # "gone" /\ UNCHANGED <<back, written, writing, answering, transcript, streams>>
    BY <1>7 DEF SocketOpens, clientVars, agentVars
  <2>2. Spoken(back, written, writing, transcript, streams, TRUE)
    BY <2>1 DEF Messages, Spoken
  <2>3. Spoken(back', written', writing', transcript', streams', TRUE)
    BY <2>1, <2>2
  <2> QED
    BY <1>2, <2>1, <2>3 DEF Messages, Spoken
<1>8. CASE SocketDies
  <2>1. socket' = "gone" /\ UNCHANGED <<written, writing, answering, transcript, streams>>
    BY <1>8 DEF SocketDies, clientVars, agentVars
  <2>2. PICK n \in 0 .. Len(back) : back' = SubSeq(back, 1, n)
    BY <1>8 DEF SocketDies
  <2>3. Spoken(back, written, writing, transcript, streams, FALSE)
    BY DEF Messages, Spoken
  <2>4. Spoken(SubSeq(back, 1, n), written, writing, transcript, streams, FALSE)
    BY <1>1, <2>3, SpokenCut
  <2>5. Spoken(back', written', writing', transcript', streams', FALSE)
    BY <2>1, <2>2, <2>4
  <2> QED
    BY <1>2, <2>1, <2>5 DEF Messages, Spoken
<1>9. CASE HandleInit \/ HandleUserMessage
  <2>1. UNCHANGED <<back, written, writing>> /\ \E t : Takes(t)
    BY <1>9 DEF HandleInit, HandleUserMessage
  <2>2. UNCHANGED <<clientVars, socket>> /\ answering = 0
    BY <2>1, TakesIs
  <2> QED
    BY <1>3, <2>1, <2>2 DEF clientVars
<1>10. CASE HandleContextUpdate \/ HandleConfirm \/ HandleReject
  <2>1. UNCHANGED <<answering, written, writing>>
    BY <1>10, HandlesIs
  <2>2. PICK e : Tells(e) /\ ((\A i \in DOMAIN e : e[i].type = "proposal_state_changed") \/ e = <<Failure>>)
    BY <1>10, HandlesIs
  <2>3. socket # "connecting" /\ answering = 0 /\ UNCHANGED <<streams, transcript, socket>>
    BY <1>10, HandlesIs, TakesIs DEF clientVars
  <2>4. ~writing /\ e \in Seq(Events) /\ Emits(e)
    BY <1>2, <2>2, <2>3 DEF Tells
  <2>5. CASE socket = "open"
    <3>1. Spoken(back, written, writing, transcript, streams, TRUE) /\ back' = back \o e
      BY <2>4, <2>5 DEF Messages, Spoken, Emits
    <3>2. Spoken(back \o e, written, writing, transcript, streams, TRUE)
      <4>1. CASE \A i \in DOMAIN e : e[i].type = "proposal_state_changed"
        BY <1>1, <2>4, <3>1, <4>1, SpokenConcat
      <4>2. CASE e = <<Failure>>
        <5> DEFINE x == Failure
        <5>1. x \in Events /\ x.type = "error"
          BY DEF Failure, Events
        <5> HIDE DEF x
        <5>2. back \o <<x>> = Append(back, x)
          BY <1>1, <5>1
        <5>3. \A m \in DOMAIN written : written[m] \in Nat /\ written[m] <= written[m]
          <6>1. \A m \in DOMAIN written : written[m] \in Nat
            BY <1>1, PositionsAre
          <6> QED
            BY <6>1
        <5>4. Grows(written, writing, written, writing)
          BY <5>3 DEF Grows
        <5>5. \A m \in DOMAIN written : ~IsChat(x, m) =>
                m \in DOMAIN written /\ written[m] = written[m] /\ (Closed(written, writing, m) <=> Closed(written, writing, m))
          OBVIOUS
        <5>6. x.type # "chat_message" /\ \A m \in DOMAIN written : Closed(written, writing, m)
          BY <2>4, <5>1 DEF Closed
        <5>7. Spoken(Append(back, x), written, writing, transcript, streams, TRUE)
          BY <1>1, <3>1, <5>1, <5>4, <5>5, <5>6, SpokenAppend
        <5>8. e = <<x>>
          BY <4>2 DEF x
        <5> QED
          BY <5>2, <5>7, <5>8
      <4> QED
        BY <2>2, <4>1, <4>2
    <3>3. Spoken(back', written', writing', transcript', streams', TRUE)
      BY <2>1, <2>3, <3>1, <3>2
    <3> QED
      BY <1>2, <2>1, <3>3 DEF Messages, Spoken
  <2>6. CASE socket = "gone"
    BY <1>3, <2>1, <2>3, <2>4, <2>6 DEF Emits
  <2> QED
    BY <1>1, <2>3, <2>5, <2>6
<1>11. CASE Turn
  <2>1. /\ socket # "connecting" /\ UNCHANGED <<streams, transcript, socket>>
        /\ written' \in Seq(Nat) /\ writing' \in BOOLEAN
        /\ writing' => written' # <<>> /\ answering' # 0
        /\ Grows(written, writing, written', writing')
        /\ socket = "open" => Spoken(back', written', writing', transcript, streams, TRUE)
    BY <1>11, TurnIs DEF clientVars
  <2>2. CASE socket = "open"
    <3>1. Spoken(back', written', writing', transcript', streams', TRUE)
      BY <2>1, <2>2
    <3> QED
      BY <2>1, <3>1 DEF Messages, Spoken
  <2>3. CASE socket = "gone"
    <3>1. Spoken(back, written, writing, transcript, streams, FALSE)
      BY <2>3 DEF Messages, Spoken
    <3>2. Spoken(back, written', writing', transcript, streams, FALSE)
      BY <1>1, <2>1, <3>1, SpokenLost
    <3>3. back' = back
      BY <1>11, <2>3, TurnIs DEF Emits
    <3>4. Spoken(back', written', writing', transcript', streams', FALSE) /\ socket' = "gone"
      BY <2>1, <2>3, <3>2, <3>3
    <3> QED
      BY <2>1, <3>4 DEF Messages, Spoken
  <2> QED
    BY <1>1, <2>1, <2>2, <2>3
<1> QED
  BY <1>4, <1>5, <1>6, <1>7, <1>8, <1>9, <1>10, <1>11, StepIs

-----------------------------------------------------------------------------
(* The properties.                                                          *)

IInv == Typed /\ Linked /\ Sent /\ Cards /\ Messages

(* Nothing is shown, sent or written at the start.                          *)
LEMMA Starts == Init => IInv
<1> SUFFICES ASSUME Init PROVE IInv
  OBVIOUS
<1>1. PICK r \in Routes : queue = <<InitFrame(r)>>
  BY DEF Init
<1> DEFINE f == InitFrame(r)
<1>2. f \in Frames /\ f.type = "init"
  BY DEF InitFrame, Frames
<1> HIDE DEF f
<1>3. /\ queue \in Seq(Frames) /\ wire = <<>> /\ <<>> \o queue = queue
      /\ DOMAIN queue = {1} /\ queue[1] = f /\ queue # <<>>
  BY <1>1, <1>2 DEF f, Init
<1>4. Unhandled = queue
  BY <1>3 DEF Unhandled
<1>5. DOMAIN views = {} /\ DOMAIN store = {} /\ DOMAIN back = {} /\ DOMAIN written = {} /\ DOMAIN transcript = {}
  BY DEF Init
<1>6. views \in [DOMAIN views -> View]
  BY DEF Init
<1>7. /\ turns = 0 /\ subscribed = TRUE /\ socket = "connecting" /\ back = <<>> /\ initialized = FALSE
      /\ store = <<>> /\ answering = 0 /\ written = <<>> /\ writing = FALSE /\ streams = {}
  BY DEF Init
<1>8. Typed
  <2>1. wire \in Seq(Frames) /\ back \in Seq(Events) /\ written \in Seq(Nat)
    BY <1>3, <1>7
  <2>2. store \in Seq([state : States, turn : Nat])
    BY <1>7
  <2>3. turns \in Nat /\ answering \in Nat
    BY <1>7
  <2> QED
    BY <1>3, <1>5, <1>6, <1>7, <2>1, <2>2, <2>3 DEF Typed
<1>9. Linked
  BY <1>2, <1>3, <1>4, <1>7 DEF Linked, IsTurn
<1>10. Sent
  <2>1. Ordered(queue, 0)
    BY <1>2, <1>3 DEF Ordered, IsTurn
  <2> QED
    BY <1>2, <1>3, <1>4, <1>7, <2>1 DEF Sent
<1>11. Cards
  BY <1>5, <1>7 DEF Cards, Mirrored
<1>12. Messages
  BY <1>5, <1>7 DEF Messages, Spoken
<1> QED
  BY <1>8, <1>9, <1>10, <1>11, <1>12 DEF IInv

(* The five parts carry each other from step to step.                       *)
THEOREM ClientInvariant == Spec => []IInv
<1>1. Init => IInv
  BY Starts
<1>2. IInv /\ [Next]_vars => IInv'
  BY TypedStep, LinkStep, CardsStep, MessagesStep DEF IInv
<1> QED
  BY <1>1, <1>2, PTL DEF Spec

(* The first frame the agent gets is the init, and while the connection     *)
(* lives the turns still to be handled are the last ones typed, in order    *)
(* (websocket.ts:54-61, 79-85).                                             *)
THEOREM FirstThingsFirst == Spec => []FramesInOrder
<1>1. IInv => FramesInOrder
  <2> SUFFICES ASSUME Typed, Sent PROVE FramesInOrder
    BY DEF IInv
  <2> DEFINE frames == wire \o queue
  <2>0. frames = Unhandled
    BY DEF Unhandled
  <2>1. frames \in Seq(Frames) /\ turns \in Nat
    BY ConcatIs DEF Typed
  <2> HIDE DEF frames
  <2>2. (\A i \in DOMAIN frames : i \in Nat /\ frames[i] \in Frames) /\ (frames # <<>> => Head(frames) = frames[1])
    BY <2>1, PositionsAre, TailIs
  <2>3. ~initialized /\ frames # <<>> => Head(frames).type = "init"
    BY <2>0, <2>2 DEF Sent
  <2>4. ASSUME socket # "gone", NEW i \in DOMAIN frames, frames[i].type = "user_message"
        PROVE  LET behind == {j \in DOMAIN frames : i < j /\ frames[j].type = "user_message"}
               IN  /\ \A t \in frames[i].turn + 1 .. turns : \E j \in behind : frames[j].turn = t
                   /\ \A j, k \in behind \union {i} : j < k => frames[j].turn < frames[k].turn
                   /\ \A j \in behind \union {i} : frames[j].turn <= turns
    <3> DEFINE behind == {j \in DOMAIN frames : i < j /\ frames[j].type = "user_message"}
    <3>1. Ordered(frames, turns)
      BY <2>0, <2>4 DEF Sent
    <3>2. /\ frames[i].turn <= turns
          /\ \A t \in frames[i].turn + 1 .. turns : \E j \in DOMAIN frames : i < j /\ IsTurn(frames[j]) /\ frames[j].turn = t
      BY <2>4, <3>1 DEF Ordered, IsTurn
    <3>3. \A j, k \in DOMAIN frames : IsTurn(frames[j]) /\ IsTurn(frames[k]) /\ j < k => frames[j].turn < frames[k].turn
      BY <3>1 DEF Ordered
    <3>4. \A j \in DOMAIN frames : IsTurn(frames[j]) => frames[j].turn <= turns
      BY <3>1 DEF Ordered
    <3>5. \A j \in behind \union {i} : j \in DOMAIN frames /\ IsTurn(frames[j])
      BY <2>4 DEF IsTurn
    <3>6. \A t \in frames[i].turn + 1 .. turns : \E j \in behind : frames[j].turn = t
      BY <3>2 DEF IsTurn
    <3> QED
      BY <3>3, <3>4, <3>5, <3>6
  <2> QED
    BY <2>3, <2>4 DEF FramesInOrder, frames
<1> QED
  BY <1>1, ClientInvariant, PTL

(* While the connection lives, what is on its way makes up the difference   *)
(* between the client's cards and the store (session.ts:256-291).           *)
THEOREM ViewsFollow == Spec => []ViewsTrackStore
<1>1. IInv => ViewsTrackStore
  <2> SUFFICES ASSUME Typed, Cards PROVE ViewsTrackStore
    BY DEF IInv
  <2>1. back \in Seq(Events) /\ Len(back) \in Nat /\ DOMAIN back = 1 .. Len(back) /\ \A i \in DOMAIN back : back[i] \in Events
    BY PositionsAre DEF Typed
  <2>2. \A c \in DOMAIN views : views[c].turn >= store[c].turn
    BY DEF Cards, Mirrored
  <2>3. ASSUME socket # "gone", NEW c \in DOMAIN store
        PROVE  LET about == {i \in DOMAIN back : back[i].type = "proposal_state_changed" /\ back[i].card = c}
               IN  IF about # {}
                   THEN \A i \in about : (\A j \in about : j <= i) => back[i].state = store[c].state
                   ELSE store[c].state = IF c \in DOMAIN views THEN views[c].state
                                         ELSE IF Contains(back, Proposal(c)) THEN "validated"
                                         ELSE "missing"
    <3> DEFINE about == {i \in DOMAIN back : back[i].type = "proposal_state_changed" /\ back[i].card = c}
    <3>1. /\ c \in DOMAIN views \/ \E i \in DOMAIN back : IsOffer(back[i], c)
          /\ \/ store[c].state = IF c \in DOMAIN views THEN views[c].state ELSE "validated"
             \/ \E i \in DOMAIN back : IsChange(back[i], c)
      BY <2>3 DEF Cards, Mirrored
    <3>2. \A i \in about : back[i].state = store[c].state
      BY DEF Cards, Mirrored
    <3>3. (\E i \in DOMAIN back : IsOffer(back[i], c)) => Contains(back, Proposal(c))
      <4>1. ASSUME NEW i \in DOMAIN back, IsOffer(back[i], c) PROVE back[i] = Proposal(c)
        <5>1. back[i].type = "action_proposal" /\ back[i].card = c /\ back[i] \in Events
          BY <2>1, <4>1 DEF IsOffer
        <5>2. back[i] \in [type : {"action_proposal"}, card : Nat]
          BY <5>1 DEF Events
        <5> QED
          BY <5>1, <5>2 DEF Proposal
      <4> QED
        BY <2>1, <4>1 DEF Contains
    <3>4. about = {} => ~\E i \in DOMAIN back : IsChange(back[i], c)
      BY DEF IsChange
    <3>5. CASE about # {}
      BY <3>2, <3>5
    <3>6. CASE about = {}
      <4>1. store[c].state = IF c \in DOMAIN views THEN views[c].state ELSE "validated"
        BY <3>1, <3>4, <3>6
      <4>2. c \notin DOMAIN views => Contains(back, Proposal(c))
        BY <3>1, <3>3
      <4> QED
        BY <3>6, <4>1, <4>2
    <3> QED
      BY <3>5, <3>6
  <2> QED
    BY <2>2, <2>3 DEF ViewsTrackStore
<1> QED
  BY <1>1, ClientInvariant, PTL

(* An entry of the transcript is what the agent wrote, so far or in whole   *)
(* (session.ts:231-255, 292-295).                                           *)
THEOREM TranscriptTrue == Spec => []TranscriptFaithful
<1>1. IInv => TranscriptFaithful
  <2> SUFFICES ASSUME Typed, Messages, NEW m \in DOMAIN transcript
               PROVE  /\ IsPrefix(transcript[m], Text(written[m]))
                      /\ m \notin streams => transcript[m] = Text(written[m])
    BY DEF IInv, TranscriptFaithful
  <2> DEFINE n == Len(transcript[m])
             w == written[m]
  <2>1. m \in DOMAIN written /\ n \in Nat /\ transcript[m] = Text(n) /\ n <= w
    BY DEF Messages, Spoken
  <2>2. w \in Nat
    BY <2>1, PositionsAre DEF Typed
  <2>3. m \notin streams => n = w
    BY DEF Messages, Spoken
  <2> HIDE DEF n, w
  <2>4. n \in 0 .. w
    BY <2>1, <2>2
  <2>5. IsPrefix(Text(n), Text(w))
    BY <2>2, <2>4, TextIs
  <2>6. IsPrefix(transcript[m], Text(w)) /\ (m \notin streams => transcript[m] = Text(w))
    BY <2>1, <2>3, <2>5
  <2> QED
    BY <2>6 DEF w
<1> QED
  BY <1>1, ClientInvariant, PTL

(* A card that was decided stays as it was decided on screen                *)
(* (session.ts:184-191, 272-291; agent.rs:541-550).                         *)
THEOREM DecisionsLast == Spec => DecisionsStand
<1> DEFINE Stand == \A c \in DOMAIN views : views[c].state # "validated" => views'[c].state = views[c].state
<1>1. IInv /\ [Next]_vars => [Stand]_vars
  <2> SUFFICES ASSUME Typed, Linked, Cards, Messages, [Next]_vars,
                      NEW c \in DOMAIN views, views[c].state # "validated"
               PROVE  views'[c].state = views[c].state
    BY DEF IInv
  <2>1. views[c].state = store[c].state
    BY DEF Cards, Mirrored
  <2>2. CASE UserActs
    BY <2>2, UserIs DEF SameCards
  <2>3. CASE Quiet
    BY <2>3, QuietIs DEF SameCards
  <2>4. CASE Receive
    <3>1. views'[c].state = IF IsChange(back[1], c) THEN back[1].state ELSE views[c].state
      BY <2>4, ReceiveIs
    <3>2. 1 \in DOMAIN back
      BY <2>4, ReceiveIs, TailIs DEF Typed
    <3>3. IsChange(back[1], c) => back[1].state = store[c].state
      BY <3>2 DEF Cards, Mirrored, IsChange
    <3> QED
      BY <2>1, <3>1, <3>3
  <2>5. CASE SocketOpens \/ SocketDies
    BY <2>5 DEF SocketOpens, SocketDies, clientVars
  <2>6. CASE HandleInit \/ HandleUserMessage
    BY <2>6, TakesIs DEF HandleInit, HandleUserMessage, clientVars
  <2>7. CASE HandleContextUpdate \/ HandleConfirm \/ HandleReject
    BY <2>7, HandlesIs, TakesIs DEF clientVars
  <2>8. CASE Turn
    BY <2>8, TurnIs DEF clientVars
  <2> QED
    BY <2>2, <2>3, <2>4, <2>5, <2>6, <2>7, <2>8, StepIs
<1>2. Spec => [][Stand]_vars
  BY <1>1, ClientInvariant, PTL DEF Spec
<1> QED
  BY <1>2 DEF DecisionsStand
=============================================================================
