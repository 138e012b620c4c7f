---------------------------- MODULE ClientSession ----------------------------
(***************************************************************************)
(* The React client (AgentSession of session.ts over the transport of      *)
(* websocket.ts) against the agent it talks to, with a connection between  *)
(* them that delays both directions and can die.                           *)
(*                                                                         *)
(*     user -> queue -> wire -> agent -> back -> views, transcript, busy   *)
(*           (until the socket opens)                                      *)
(*                                                                         *)
(* The client folds server events into what it shows; nothing it shows is  *)
(* ever read back from the server. The agent is AgentSession.tla seen from *)
(* outside: it takes one frame at a time, and within a user turn its       *)
(* events reach the socket one by one.                                     *)
(***************************************************************************)
EXTENDS Naturals, Sequences, SequencesExt

CONSTANTS
  Routes,             \* the routes of the application
  WorkingTimeoutMs,   \* the option: "undefined", "null" or "number"
  MaxSends,           \* bound: client events after init
  MaxCards,           \* bound: cards the agent proposes
  MaxMessages,        \* bound: assistant messages
  MaxFragments        \* bound: deltas of one assistant message

ASSUME OptionAssumption == WorkingTimeoutMs \in {"undefined", "null", "number"}

ASSUME ClientBounds ==
  /\ Routes # {}
  /\ MaxSends \in Nat /\ MaxCards \in Nat /\ MaxMessages \in Nat /\ MaxFragments \in Nat

VARIABLES
  views,       \* #views: card |-> what is shown of it
  timers,      \* #workingTimers: cards whose timer is armed
  awaiting,    \* #awaitingReply
  streams,     \* #openStreams: messages with deltas and no final text
  transcript,  \* #transcript, assistant entries: message |-> text
  turns,       \* #clientMsgCounter: user entries of the transcript
  subscribed,  \* whether the session listens to its transport
  sends,       \* client events sent (bounds the model)
  socket,      \* readyState as far as send and open can tell
  queue,       \* events sent before the socket opened
  wire,        \* frames on their way to the agent
  back,        \* events on their way to the client
  initialized, \* FramePump::initialized
  route,       \* the route of the session's context
  store,       \* ProposalStore: each card's state and the turn it answers
  answering,   \* the user turn being handled, 0 for none
  written,     \* fragments of each assistant message
  writing      \* whether the last message is an open segment

clientVars == <<views, timers, awaiting, streams, transcript, turns, subscribed>>
agentVars  == <<initialized, route, store, answering, written, writing>>
linkVars   == <<socket, queue, wire, back>>
vars == <<clientVars, sends, agentVars, linkVars>>

Terminal == {"executed", "failed", "rejected", "expired"}

(* Frames and events, as far as a branch of the other side reads them.      *)
InitFrame(r)   == [type |-> "init", route |-> r]
ContextTo(r)   == [type |-> "context_update", route |-> r]
UserMessage(t) == [type |-> "user_message", turn |-> t]
ConfirmOf(c)   == [type |-> "confirm_action", card |-> c]
RejectOf(c)    == [type |-> "reject_action", card |-> c]

(* A result is "value" when the handler's, "null" when there is none: the   *)
(* serialisation of None is null, never an absent field.                    *)
Chat(m, text, done)   == [type |-> "chat_message", msg |-> m, text |-> text, done |-> done]
Proposal(c)           == [type |-> "action_proposal", card |-> c]
Changed(c, s, result) == [type |-> "proposal_state_changed", card |-> c, state |-> s, result |-> result]
Failure               == [type |-> "error"]

(* The text of a message with n fragments.                                  *)
Text(n) == [i \in 1..n |-> i]

Init ==
  /\ views = <<>> /\ timers = {} /\ awaiting = FALSE
  /\ streams = {} /\ transcript = <<>> /\ turns = 0
  /\ subscribed = TRUE /\ sends = 0
  /\ socket = "connecting" /\ wire = <<>> /\ back = <<>>
  /\ \E r \in Routes : queue = <<InitFrame(r)>> /\ route = r
  /\ initialized = FALSE
  /\ store = <<>> /\ answering = 0 /\ written = <<>> /\ writing = FALSE

-----------------------------------------------------------------------------
(* The client: what the user does. *)

(* The option `null` is the default's number, too: `??` replaces both.      *)
EffectiveTimeout == IF WorkingTimeoutMs = "number" THEN "number" ELSE "default"

(* The transport queues until the socket opens; a socket that is gone       *)
(* swallows what it is given.                                               *)
Send(frame) ==
  /\ sends < MaxSends
  /\ sends' = sends + 1
  /\ CASE socket = "connecting" -> queue' = Append(queue, frame) /\ UNCHANGED wire
       [] socket = "open"       -> wire' = Append(wire, frame) /\ UNCHANGED queue
       [] socket = "gone"       -> UNCHANGED <<queue, wire>>
  /\ UNCHANGED <<socket, back, agentVars>>

SendMessage ==
  /\ turns' = turns + 1
  /\ awaiting' = TRUE
  /\ Send(UserMessage(turns + 1))
  /\ UNCHANGED <<views, timers, streams, transcript, subscribed>>

UpdateContext(r) ==
  /\ Send(ContextTo(r))
  /\ UNCHANGED clientVars

MarkWorking(c) ==
  IF views[c].state = "validated"
    THEN /\ views' = [views EXCEPT ![c].working = TRUE]
         /\ timers' = IF EffectiveTimeout = "null" THEN timers ELSE timers \union {c}
    ELSE UNCHANGED <<views, timers>>

(* Nothing stops a second decision: the view offers itself again as soon as *)
(* its timer has fired.                                                     *)
Decide(c, frame) ==
  /\ MarkWorking(c)
  /\ Send(frame)
  /\ UNCHANGED <<awaiting, streams, transcript, turns, subscribed>>

Confirm(c) == Decide(c, ConfirmOf(c))
Reject(c)  == Decide(c, RejectOf(c))

(* Mutant: the timer fires and the card stays as it is. *)
HandBackNever(c) == views

(* The timer hands the decision back to the user.                           *)
HandBack(c) == [views EXCEPT ![c].working = FALSE]

WorkingTimeout(c) ==
  /\ c \in timers
  /\ timers' = timers \ {c}
  /\ views' = HandBack(c)
  /\ UNCHANGED <<awaiting, streams, transcript, turns, subscribed, sends, agentVars, linkVars>>

(* It stops listening; what the user does afterwards is still sent.         *)
Dispose ==
  /\ subscribed
  /\ subscribed' = FALSE
  /\ timers' = {}
  /\ UNCHANGED <<views, awaiting, streams, transcript, turns, sends, agentVars, linkVars>>

-----------------------------------------------------------------------------
(* The client: what it makes of a server event. *)

Arrives(type) ==
  /\ subscribed
  /\ back # <<>> /\ Head(back).type = type
  /\ back' = Tail(back)
  /\ awaiting' = FALSE
  /\ UNCHANGED <<turns, subscribed, sends, agentVars, socket, queue, wire>>

(* Mutant: a final text is appended like a delta. *)
FoldAppending(event) ==
  IF event.msg \in DOMAIN transcript THEN transcript[event.msg] \o event.text ELSE event.text

(* The final text replaces what accumulated; a delta continues it.          *)
Fold(event) ==
  IF event.done \/ event.msg \notin DOMAIN transcript
    THEN event.text
    ELSE transcript[event.msg] \o event.text

ChatArrives ==
  /\ Arrives("chat_message")
  /\ LET event == Head(back)
     IN  /\ streams' = IF event.done THEN streams \ {event.msg} ELSE streams \union {event.msg}
         /\ transcript' = [m \in DOMAIN transcript \union {event.msg} |->
                             IF m = event.msg THEN Fold(event) ELSE transcript[m]]
  /\ UNCHANGED <<views, timers>>

(* The card is anchored to the last user entry of the transcript.           *)
AnchorTurn == turns

CardArrives ==
  /\ Arrives("action_proposal")
  /\ LET card == Head(back).card
         view == [state |-> "validated", turn |-> AnchorTurn, working |-> FALSE, result |-> "none"]
     IN  views' = [c \in DOMAIN views \union {card} |-> IF c = card THEN view ELSE views[c]]
  /\ UNCHANGED <<timers, streams, transcript>>

ClearWorkingTimer(c) == timers \ {c}

(* Mutant: only a card that waits for an answer takes one. *)
AppliesToWorking(c) == c \in DOMAIN views /\ views[c].working

(* A change of a card the client never saw is dropped.                      *)
Applies(c) == c \in DOMAIN views

StateArrives ==
  /\ Arrives("proposal_state_changed")
  /\ LET event == Head(back)
     IN  /\ timers' = ClearWorkingTimer(event.card)
         /\ views' = IF Applies(event.card)
                       THEN [views EXCEPT ![event.card].state = event.state,
                                          ![event.card].working = FALSE,
                                          ![event.card].result = event.result]
                       ELSE views
  /\ UNCHANGED <<streams, transcript>>

ErrorArrives ==
  /\ Arrives("error")
  /\ streams' = {}
  /\ UNCHANGED <<views, timers, transcript>>

Receive == ChatArrives \/ CardArrives \/ StateArrives \/ ErrorArrives

-----------------------------------------------------------------------------
(* The connection. *)

(* Mutant: the queue is flushed from its end. *)
SocketOpensReversed ==
  /\ socket = "connecting"
  /\ socket' = "open"
  /\ wire' = Reverse(queue)
  /\ queue' = <<>>
  /\ UNCHANGED <<clientVars, sends, agentVars, back>>

SocketOpens ==
  /\ socket = "connecting"
  /\ socket' = "open"
  /\ wire' = queue
  /\ queue' = <<>>
  /\ UNCHANGED <<clientVars, sends, agentVars, back>>

(* What was under way in either direction arrives up to some point.         *)
SocketDies ==
  /\ socket # "gone"
  /\ socket' = "gone"
  /\ \E n \in 0..Len(wire) : wire' = SubSeq(wire, 1, n)
  /\ \E n \in 0..Len(back) : back' = SubSeq(back, 1, n)
  /\ UNCHANGED <<clientVars, sends, agentVars, queue>>

-----------------------------------------------------------------------------
(* The agent. Its events are lost once the socket is gone. *)

Emits(events) == back' = IF socket = "open" THEN back \o events ELSE back

Takes(type) ==
  /\ answering = 0
  /\ wire # <<>> /\ Head(wire).type = type
  /\ wire' = Tail(wire)
  /\ UNCHANGED <<clientVars, sends, socket, queue>>

HandleInit ==
  /\ Takes("init")
  /\ initialized' = TRUE
  /\ route' = Head(wire).route
  /\ UNCHANGED <<store, answering, written, writing, back>>

(* A route change expires what is pending, an event for each, in the order  *)
(* of the ids, which are texts (prop_10 comes before prop_2): in any order. *)
HandleContextUpdate ==
  /\ Takes("context_update") /\ initialized
  /\ route' = Head(wire).route
  /\ LET pending == IF route' = route THEN {} ELSE {c \in DOMAIN store : store[c].state = "validated"}
     IN  /\ store' = [c \in DOMAIN store |->
                        IF c \in pending THEN [store[c] EXCEPT !.state = "expired"] ELSE store[c]]
         /\ \E cards \in SetToSeqs(pending) :
              Emits([i \in DOMAIN cards |-> Changed(cards[i], "expired", "null")])
  /\ UNCHANGED <<initialized, answering, written, writing>>

(* Mutant: only success is reported. *)
TellOutcomeExecuted(c, s) == IF s = "executed" THEN <<Changed(c, s, "value")>> ELSE <<>>

(* What the client is told of a confirmed card's outcome.                   *)
TellOutcome(c, s) == <<Changed(c, s, IF s = "executed" THEN "value" ELSE "null")>>

(* A card that is no longer pending is answered with its state and without  *)
(* a result; otherwise revalidation or the handler decides.                 *)
HandleConfirm ==
  /\ Takes("confirm_action") /\ initialized
  /\ LET card == Head(wire).card
     IN  \/ /\ store[card].state # "validated"
            /\ Emits(<<Changed(card, store[card].state, "null")>>)
            /\ UNCHANGED store
         \/ /\ store[card].state = "validated"
            /\ \E s \in {"executed", "failed", "expired"} :
                 /\ store' = [store EXCEPT ![card].state = s]
                 /\ Emits(TellOutcome(card, s))
  /\ UNCHANGED <<initialized, route, answering, written, writing>>

(* Mutant: a card can be rejected after it was decided. *)
MayRejectAny(c) == TRUE

MayReject(c) == store[c].state = "validated"

HandleReject ==
  /\ Takes("reject_action") /\ initialized
  /\ LET card == Head(wire).card
     IN  \/ /\ MayReject(card)
            /\ store' = [store EXCEPT ![card].state = "rejected"]
            /\ Emits(<<Changed(card, "rejected", "null")>>)
         \/ /\ ~MayReject(card)
            /\ Emits(<<Failure>>)
            /\ UNCHANGED store
  /\ UNCHANGED <<initialized, route, answering, written, writing>>

HandleUserMessage ==
  /\ Takes("user_message") /\ initialized
  /\ answering' = Head(wire).turn
  /\ UNCHANGED <<initialized, route, store, written, writing, back>>

-----------------------------------------------------------------------------
(* The agent within a user turn. *)

TurnStep ==
  /\ answering # 0
  /\ UNCHANGED <<clientVars, sends, initialized, route, socket, queue, wire>>

TextDelta ==
  /\ TurnStep
  /\ \/ /\ writing /\ Last(written) < MaxFragments
        /\ written' = [written EXCEPT ![Len(written)] = @ + 1]
     \/ /\ ~writing /\ Len(written) < MaxMessages
        /\ written' = Append(written, 1)
  /\ writing' = TRUE
  /\ Emits(<<Chat(Len(written'), <<Last(written')>>, FALSE)>>)
  /\ UNCHANGED <<store, answering>>

(* flush_segment: the final text of the open segment, if there is one.      *)
Flushed == IF writing THEN <<Chat(Len(written), Text(Last(written)), TRUE)>> ELSE <<>>

TextDone ==
  /\ TurnStep
  /\ writing
  /\ writing' = FALSE
  /\ Emits(Flushed)
  /\ UNCHANGED <<store, answering, written>>

Propose ==
  /\ TurnStep
  /\ Len(store) < MaxCards
  /\ store' = Append(store, [state |-> "validated", turn |-> answering])
  /\ writing' = FALSE
  /\ Emits(Flushed \o <<Proposal(Len(store'))>>)
  /\ UNCHANGED <<answering, written>>

(* A call that cannot be proposed is declined in a message of its own.      *)
Decline ==
  /\ TurnStep
  /\ Len(written) < MaxMessages
  /\ written' = Append(written, 1)
  /\ writing' = FALSE
  /\ Emits(Flushed \o <<Chat(Len(written'), Text(1), TRUE)>>)
  /\ UNCHANGED <<store, answering>>

(* The turn ends with its stream, or with the provider's error.             *)
TurnEnds ==
  /\ TurnStep
  /\ answering' = 0
  /\ writing' = FALSE
  /\ \E last \in {<<>>, <<Failure>>} : Emits(Flushed \o last)
  /\ UNCHANGED <<store, written>>

Turn == TextDelta \/ TextDone \/ Propose \/ Decline \/ TurnEnds

Agent ==
  \/ HandleInit \/ HandleContextUpdate \/ HandleConfirm
  \/ HandleReject \/ HandleUserMessage \/ Turn

-----------------------------------------------------------------------------

Next ==
  \/ SendMessage
  \/ \E r \in Routes : UpdateContext(r)
  \/ \E c \in DOMAIN views : Confirm(c) \/ Reject(c)
  \/ \E c \in 1..MaxCards : WorkingTimeout(c)
  \/ Dispose
  \/ Receive
  \/ SocketOpens \/ SocketDies
  \/ Agent

Spec == Init /\ [][Next]_vars

(* Timers fire, the browser dispatches what it received, and the agent,     *)
(* whose task the runtime polls, takes its next frame. A turn ends, because *)
(* a provider's stream does. Nothing obliges the user or the connection.    *)
Fairness ==
  /\ \A c \in 1..MaxCards : WF_vars(WorkingTimeout(c))
  /\ WF_vars(Receive)
  /\ WF_vars(Agent)
  /\ WF_vars(TurnEnds)

FairSpec == Spec /\ Fairness
-----------------------------------------------------------------------------
(* What the client promises. *)

Working(c) == c \in DOMAIN views /\ views[c].working
Decided(c) == c \in DOMAIN views /\ views[c].state # "validated"

(* A card that was decided stays as it was decided on screen: an answer that *)
(* comes late, a second decision after the working timeout or an expiry that *)
(* crosses a confirm never turns it into something else, and no timeout      *)
(* makes it pending again (session.ts:184-191, 272-291; agent.rs:541-550).   *)
DecisionsStand ==
  [][\A c \in DOMAIN views :
       views[c].state # "validated" => views'[c].state = views[c].state]_vars

(* While the connection lives, what is on its way to the client makes up    *)
(* exactly the difference between its views and the store: whatever the     *)
(* client shows as pending without an answer under way is pending at the    *)
(* agent, and a card still unseen is under way (session.ts:256-291). A card *)
(* is never kept with a turn before the one it answers, though it can be    *)
(* kept with a later one (session.ts:261-263).                              *)
ViewsTrackStore ==
  /\ \A c \in DOMAIN views : views[c].turn >= store[c].turn
  /\ socket # "gone" /\ subscribed => \A c \in DOMAIN store :
      LET about == {i \in DOMAIN back : back[i].type = "proposal_state_changed" /\ back[i].card = c}
      IN  IF about # {}
          THEN \A i \in about : (\A j \in about : j <= i) => back[i].state = store[c].state
          ELSE store[c].state = IF c \in DOMAIN views THEN views[c].state
                                ELSE IF Contains(back, Proposal(c)) THEN "validated"
                                ELSE "missing"

(* An entry of the transcript is what the agent wrote: the whole text once  *)
(* the message is closed, its first fragments until then, however deltas,   *)
(* final texts and errors interleave (session.ts:231-255, 292-295).         *)
TranscriptFaithful ==
  \A m \in DOMAIN transcript :
    /\ IsPrefix(transcript[m], Text(written[m]))
    /\ m \notin streams => transcript[m] = Text(written[m])

(* Nothing overtakes: the first frame the agent gets is the init, or the    *)
(* frame pump would refuse it and close the session, and until              *)
(* the socket is gone the user turns still to be handled are the last ones  *)
(* typed, in order, whether they were sent before the socket opened or      *)
(* after (websocket.ts:54-61, 79-85).                                       *)
FramesInOrder ==
  LET frames == wire \o queue
  IN  /\ ~initialized /\ frames # <<>> => Head(frames).type = "init"
      /\ socket # "gone" => \A i \in DOMAIN frames : frames[i].type = "user_message" =>
           LET behind == {j \in DOMAIN frames : i < j /\ frames[j].type = "user_message"}
           IN  /\ \A t \in frames[i].turn + 1 .. turns : \E j \in behind : frames[j].turn = t
               /\ \A j, k \in behind \union {i} : j < k => frames[j].turn < frames[k].turn
               /\ \A j \in behind \union {i} : frames[j].turn <= turns

(* No card is "on it" forever, not even when the decision or its answer is  *)
(* lost with the connection (session.ts:95-100).                            *)
WorkingEnds ==
  \A c \in 1..MaxCards :
    Working(c) ~> (~subscribed \/ ~Working(c))

(* While the connection lives, a decided card gets its outcome, though the  *)
(* agent may be in the middle of another turn (agent.rs:529-556, 641-682).  *)
DecisionSettles ==
  \A c \in 1..MaxCards :
    Working(c) ~> (~subscribed \/ socket = "gone" \/ Decided(c))

(* The client does not show an assistant message as being written after the *)
(* agent stopped writing it (session.ts:124, 232-236, 294; agent.rs:418).   *)
StreamingEnds ==
  (streams # {}) ~> (~subscribed \/ socket = "gone" \/ streams = {})

(* The client waits for nothing forever: not for a decided card, not for    *)
(* the rest of a message.                                                   *)
WaitingEnds == WorkingEnds /\ StreamingEnds

-----------------------------------------------------------------------------
(* What comments say of the client, and the code does not keep. *)

(* "`executed` (with `result`)" (spec/SPEC.md:231): a card shown as         *)
(* executed comes with the handler's result.                                *)
ExecutedShowsResult ==
  \A c \in DOMAIN views : views[c].state = "executed" => views[c].result = "value"
=============================================================================
