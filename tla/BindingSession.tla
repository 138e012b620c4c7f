--------------------------- MODULE BindingSession ---------------------------
(***************************************************************************)
(* One envelope session behind the Node or the Python binding. The host    *)
(* calls handle() whenever a frame arrives, without waiting for the last   *)
(* call; one FramePump takes the frames, and each call has its own sink.   *)
(*                                                                         *)
(* Node: the wrapper chains the calls on a promise and the native session  *)
(* keeps its pump under a mutex; events go to the call's callback, which   *)
(* the JS thread runs later. Python: handle() puts the call into the       *)
(* channel of a worker task, started with the first call, and the host     *)
(* pulls the events from an iterator it may abandon.                       *)
(*                                                                         *)
(* In a turn the agent calls the host's own functions; what one does is    *)
(* translated on both sides of the boundary. A JSON value is the sequence  *)
(* of its keys (a nest of objects with one member) and a leaf.             *)
(*                                                                         *)
(* The i-th event of call k is <<k, i>>. The order between the callbacks   *)
(* of a call and the resolution of its promise is left open: they are      *)
(* separate threadsafe functions, each first in first out.                 *)
(***************************************************************************)
EXTENDS Naturals, Sequences, Functions

CONSTANTS
  Bindings,    \* "node", "python"
  MaxCalls,    \* bound: calls of handle()
  MaxEvents    \* bound: events emitted before a turn emits one more

ASSUME BindingAssumption ==
  Bindings \subseteq {"node", "python"} /\ MaxCalls \in Nat /\ MaxEvents \in Nat \ {0}

VARIABLES
  binding,     \* the binding of this session
  frames,      \* frames[k]: the frame call k was made with
  queue,       \* calls made and not begun: #queue, or the worker's channel
  worker,      \* the Python worker: "none", "running", "panicked"; Node's session always runs
  pump,        \* FramePump: [initialized, closed]
  closedBy,    \* the session's closed flag: 0, or the call that set it
  turn,        \* the call being handled and where, in a host function or not: [call, at, asked]
  answer,      \* history: what a host function just did, and what the agent got: [seam, does, outcome]
  handled,     \* history: the calls the pump took, in order
  emits,       \* emits[k]: events call k emitted
  sink,        \* sink[k]: those not seen by the host yet
  got,         \* got[k]: those the host saw
  ended,       \* calls whose handling is over: the native promise is done, the sender dropped
  settled,     \* calls the host sees ended: the promise resolved, the iterator stopped
  abandoned,   \* calls whose iterator the host dropped
  socket       \* the socket of bindAgentSocket: "open", "closed"

callVars == <<frames, queue, worker, handled, ended>>
outVars == <<emits, sink, got, settled, abandoned, socket>>
vars == <<binding, callVars, pump, closedBy, turn, answer, outVars>>

Frames == {"init", "event", "malformed"}
CallIds == 1 .. MaxCalls
Idle == [call |-> 0, at |-> "idle", asked |-> FALSE]
NoAnswer == [seam |-> "none", does |-> [how |-> "none", value |-> <<>>], outcome |-> <<>>]
FramePump == [initialized |-> FALSE, closed |-> FALSE]

Init ==
  /\ binding \in Bindings
  /\ frames = <<>> /\ queue = <<>> /\ handled = <<>> /\ ended = {}
  /\ worker = IF binding = "python" THEN "none" ELSE "running"
  /\ pump = FramePump /\ closedBy = 0 /\ turn = Idle /\ answer = NoAnswer
  /\ emits = [k \in CallIds |-> 0]
  /\ sink = [k \in CallIds |-> <<>>] /\ got = [k \in CallIds |-> <<>>]
  /\ settled = {} /\ abandoned = {} /\ socket = "open"

-----------------------------------------------------------------------------
(* What a host function does: it returns a value, raises Rejected, raises   *)
(* something else, or returns what is no JSON. The marker is a value that   *)
(* looks like the wrapper's own rejection.                                  *)

Marker == <<"rejected", "text">>
Values == {<<"null">>, <<"true">>, <<"false">>, <<"text">>, <<"preview">>, Marker}
Returns(v) == [how |-> "returns", value |-> v]
Deeds == {Returns(v) : v \in Values} \cup [how : {"raises Rejected", "raises", "no JSON"}, value : {<<>>}]

Rejected == <<"Rejected">>
Internal == <<"Internal">>
Ok(v) == <<"Ok">> \o v
Allow == <<"Allow">>
Deny == <<"Deny">>

(* Mutant: a result crosses the boundary without its envelope.              *)
wrapHandlerBare(does) ==
  CASE does.how = "returns" -> does.value
    [] does.how = "raises Rejected" -> Marker
    [] OTHER -> <<>>

(* The wrapper's total envelope, <<>> for a rejected promise.               *)
wrapHandler(does) ==
  CASE does.how = "returns" -> <<"ok">> \o does.value
    [] does.how = "raises Rejected" -> Marker
    [] OTHER -> <<>>

handler_outcome(value) ==
  CASE Len(value) > 1 /\ Head(value) = "ok" -> Ok(Tail(value))
    [] value = Marker -> Rejected
    [] OTHER -> Internal

handler_error(does) == IF does.how = "raises Rejected" THEN Rejected ELSE Internal

JsHandler(does) == handler_outcome(wrapHandler(does))
PyHandler(does) == IF does.how = "returns" THEN Ok(does.value) ELSE handler_error(does)

Previews(outcome) == IF Head(outcome) = "Ok" /\ outcome # Ok(<<"preview">>) THEN Internal ELSE outcome
JsDryRun(does) == Previews(JsHandler(does))
PyDryRun(does) == Previews(PyHandler(does))

(* The wrapper turns what authorize raises into a reason to deny.           *)
JsAuthorize(does) == IF does.how \in {"raises Rejected", "raises"} THEN Returns(<<"text">>) ELSE does
JsAuthz(decided) == IF decided \in {Returns(<<"null">>), Returns(<<"true">>)} THEN Allow ELSE Deny
PyAuthz(does) ==
  IF does.how = "returns" /\ does.value \in {<<"null">>, <<"true">>} THEN Allow ELSE Deny

(* Python only: a context param of the declarative mapping is "mapped", one *)
(* that has no value <<>>; a slot builder's failure leaves the slots empty. *)
PyContextResolver(does) ==
  IF does = Returns(<<"null">>) THEN <<"mapped">>
  ELSE IF does.how = "returns" THEN does.value ELSE <<>>

PySlots(does) == IF does = Returns(Marker) THEN does.value ELSE <<>>

Outcome(b, seam, does) ==
  CASE seam = "execute" -> IF b = "node" THEN JsHandler(does) ELSE PyHandler(does)
    [] seam = "dry_run" -> IF b = "node" THEN JsDryRun(does) ELSE PyDryRun(does)
    [] seam = "authorize" -> IF b = "node" THEN JsAuthz(JsAuthorize(does)) ELSE PyAuthz(does)
    [] seam = "resolve" -> PyContextResolver(does)
    [] seam = "slots" -> PySlots(does)

HostSeams(b) ==
  {"execute", "dry_run", "authorize"} \cup IF b = "python" THEN {"resolve", "slots"} ELSE {}

-----------------------------------------------------------------------------
(* Calls.                                                                   *)

(* handle(): Python starts a worker, with a pump of its own, if there is    *)
(* none or the last one is gone.                                            *)
Handle(f) ==
  /\ Len(frames) < MaxCalls
  /\ frames' = Append(frames, f)
  /\ queue' = Append(queue, Len(frames) + 1)
  /\ worker' = "running"
  /\ pump' = IF worker = "running" THEN pump ELSE FramePump
  /\ answer' = NoAnswer
  /\ UNCHANGED <<binding, closedBy, turn, handled, ended, outVars>>

(* Node's chain begins a call when the promise of the one before resolved.  *)
MayBegin ==
  /\ queue # <<>> /\ turn = Idle /\ worker = "running"
  /\ binding = "node" => \A k \in ended : k \in settled

(* Mutant: the sink of the newest call is the session's.                    *)
SinkOfNewest(k) == Len(frames)

SinkOf(k) == k

(* A sink whose receiver is gone loses the event; the turn goes on.         *)
Emits(k) ==
  LET s == SinkOf(k)
  IN /\ emits' = [emits EXCEPT ![k] = @ + 1]
     /\ sink' = IF s \in abandoned THEN sink ELSE [sink EXCEPT ![s] = Append(@, <<k, emits[k] + 1>>)]
     /\ UNCHANGED <<got, settled, abandoned, socket>>

(* Mutant: a closed session goes on taking frames.                          *)
IgnoredNever == FALSE

(* After an init-first violation further frames are ignored.                *)
Ignored == pump.closed

Begin ==
  /\ MayBegin
  /\ LET k == Head(queue)
         refused == frames[k] = "event" /\ ~pump.initialized
     IN /\ queue' = Tail(queue)
        /\ handled' = Append(handled, k)
        /\ \/ /\ Ignored
              /\ ended' = ended \cup {k}
              /\ UNCHANGED <<pump, closedBy, turn, outVars>>
           \/ /\ ~Ignored /\ (frames[k] = "malformed" \/ refused)
              /\ ended' = ended \cup {k} /\ Emits(k)
              /\ pump' = [pump EXCEPT !.closed = refused]
              /\ closedBy' = IF refused THEN k ELSE closedBy
              /\ UNCHANGED turn
           \/ /\ ~Ignored /\ frames[k] # "malformed" /\ ~refused
              /\ pump' = [pump EXCEPT !.initialized = TRUE]
              /\ turn' = [call |-> k, at |-> "driving", asked |-> FALSE]
              /\ UNCHANGED <<ended, closedBy, outVars>>
  /\ answer' = NoAnswer
  /\ UNCHANGED <<binding, frames, worker>>

TurnEmits ==
  /\ turn.at = "driving" /\ FoldFunction(+, 0, emits) < MaxEvents
  /\ Emits(turn.call)
  /\ answer' = NoAnswer
  /\ UNCHANGED <<binding, callVars, pump, closedBy, turn>>

(* The agent calls a host function and awaits it.                           *)
HostCalled(seam) ==
  /\ turn.at = "driving" /\ ~turn.asked
  /\ turn' = [turn EXCEPT !.at = seam, !.asked = TRUE]
  /\ answer' = NoAnswer
  /\ UNCHANGED <<binding, callVars, pump, closedBy, outVars>>

HostDoes(does) ==
  /\ turn.at \in HostSeams(binding)
  /\ turn' = [turn EXCEPT !.at = "driving"]
  /\ answer' = [seam |-> turn.at, does |-> does, outcome |-> Outcome(binding, turn.at, does)]
  /\ UNCHANGED <<binding, callVars, pump, closedBy, outVars>>

TurnEnds ==
  /\ turn.at = "driving"
  /\ turn' = Idle /\ answer' = NoAnswer
  /\ ended' = ended \cup {turn.call}
  /\ UNCHANGED <<binding, frames, queue, worker, handled, pump, closedBy, outVars>>

(* The worker's task panics in a turn: the calls in its channel go with it. *)
WorkerPanics ==
  /\ binding = "python" /\ turn # Idle
  /\ worker' = "panicked" /\ turn' = Idle /\ answer' = NoAnswer
  /\ queue' = <<>>
  /\ ended' = 1 .. Len(frames)
  /\ UNCHANGED <<binding, frames, handled, pump, closedBy, outVars>>

-----------------------------------------------------------------------------
(* What the host sees.                                                      *)

(* The JS thread runs a callback, or the host pulls from its iterator.      *)
Delivers(k) ==
  /\ sink[k] # <<>>
  /\ got' = [got EXCEPT ![k] = Append(@, Head(sink[k]))]
  /\ sink' = [sink EXCEPT ![k] = Tail(@)]
  /\ answer' = NoAnswer
  /\ UNCHANGED <<binding, callVars, pump, closedBy, turn, emits, settled, abandoned, socket>>

(* Node: the promise resolves with is_closed(), and bindAgentSocket closes. *)
PromiseResolves(k) ==
  /\ binding = "node" /\ k \in ended \ settled
  /\ settled' = settled \cup {k}
  /\ socket' = IF pump.closed THEN "closed" ELSE socket
  /\ answer' = NoAnswer
  /\ UNCHANGED <<binding, callVars, pump, closedBy, turn, emits, sink, got, abandoned>>

(* Mutant: the session keeps a sender of its own.                           *)
SenderKept(k) == worker = "panicked" /\ k \in ended

SenderGone(k) == k \in ended

(* Python: the iterator stops once the turn's sender is gone and its events *)
(* were pulled.                                                             *)
IteratorStops(k) ==
  /\ binding = "python" /\ k \notin settled \cup abandoned
  /\ SenderGone(k) /\ sink[k] = <<>>
  /\ settled' = settled \cup {k}
  /\ answer' = NoAnswer
  /\ UNCHANGED <<binding, callVars, pump, closedBy, turn, emits, sink, got, abandoned, socket>>

Abandons(k) ==
  /\ binding = "python" /\ k <= Len(frames) /\ k \notin settled \cup abandoned
  /\ abandoned' = abandoned \cup {k}
  /\ sink' = [sink EXCEPT ![k] = <<>>]
  /\ answer' = NoAnswer
  /\ UNCHANGED <<binding, callVars, pump, closedBy, turn, emits, got, settled, socket>>

Sees(k) == Delivers(k) \/ PromiseResolves(k) \/ IteratorStops(k)

Next ==
  \/ \E f \in Frames : Handle(f)
  \/ Begin \/ TurnEmits \/ TurnEnds \/ WorkerPanics
  \/ \E seam \in HostSeams(binding) : HostCalled(seam)
  \/ \E does \in Deeds : HostDoes(does)
  \/ \E k \in CallIds : Sees(k) \/ Abandons(k)

Spec == Init /\ [][Next]_vars

(* Tasks, microtasks and callbacks run when they can, a host function       *)
(* returns, and the host pulls an iterator it did not abandon. Nobody has   *)
(* to call, and no worker has to panic.                                     *)
FairSpec ==
  /\ Spec
  /\ WF_vars(Begin) /\ WF_vars(TurnEnds) /\ WF_vars(\E does \in Deeds : HostDoes(does))
  /\ \A k \in CallIds : WF_vars(Delivers(k)) /\ WF_vars(PromiseResolves(k) \/ IteratorStops(k))

-----------------------------------------------------------------------------
Count(k, n) == [i \in 1 .. n |-> <<k, i>>]

(* Concurrent calls of handle() neither reorder frames nor mix their        *)
(* events: the pump takes the calls in the order they were made, also after *)
(* a worker was replaced, and each sink gets the events of its own call,    *)
(* in order and, unless it was abandoned, without a gap.                    *)
TurnsInOrder ==
  /\ \A i, j \in DOMAIN handled : i < j => handled[i] < handled[j] /\ handled[i] \in ended
  /\ \A k \in CallIds :
       /\ got[k] = Count(k, Len(got[k]))
       /\ k \notin abandoned => got[k] \o sink[k] = Count(k, emits[k])

(* The init-first refusal is final whatever calls were waiting behind it:   *)
(* no later call emits an event or reaches the agent, and the flag the host *)
(* reads is that of the pump in use, a new worker's included.               *)
ClosedIsFinal ==
  /\ closedBy # 0 => pump = [initialized |-> FALSE, closed |-> TRUE]
  /\ closedBy # 0 => \A k \in CallIds : k > closedBy => emits[k] = 0
  /\ turn # Idle => pump = [initialized |-> TRUE, closed |-> FALSE]

(* What a host function does means the same to the agent in both bindings:  *)
(* only Rejected is a business refusal, a returned value is passed on as it *)
(* is, even one that looks like the wrapper's marker, only null and true    *)
(* allow, and no failure yields a value.                                    *)
HostOutcomes ==
  answer.does.how # "none" =>
    LET does == answer.does
        meant == IF answer.seam = "authorize"
                 THEN IF does \in {Returns(<<"null">>), Returns(<<"true">>)} THEN {Allow} ELSE {Deny}
                 ELSE IF does.how = "raises Rejected" /\ answer.seam \in {"execute", "dry_run"} THEN {Rejected}
                 ELSE IF does.how # "returns" THEN {Internal, <<>>}
                 ELSE CASE answer.seam = "execute" -> {Ok(does.value)}
                        [] answer.seam = "dry_run" -> {Ok(does.value), Internal}
                        [] OTHER -> {does.value, <<"mapped">>, <<>>}
    IN /\ answer.outcome \in meant
       /\ answer.seam \in HostSeams("node") =>
            Outcome("node", answer.seam, does) = Outcome("python", answer.seam, does)

(* Every call of handle() ends for its host, those queued behind a panic    *)
(* too, and a refused Node session closes its socket.                       *)
CallsSettle ==
  /\ \A k \in CallIds : Len(frames) >= k ~> k \in settled \cup abandoned
  /\ (binding = "node" /\ closedBy # 0) ~> socket = "closed"
=============================================================================
