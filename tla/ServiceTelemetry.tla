-------------------------- MODULE ServiceTelemetry --------------------------
(***************************************************************************)
(* The metrics of the standalone service: what its tasks do, the events    *)
(* they emit about it, and what MetricsLayer makes of the events. A stream *)
(* is let in by a principal extractor (the request extension, a check of   *)
(* the headers, or verify_session at the host) and is then one session     *)
(* task. The task calls the model, delivers to the host and waits between  *)
(* the attempts of an execution, and it may be dropped at each of these    *)
(* awaits: the peer leaves, a handler panics, the runtime goes down.       *)
(*                                                                         *)
(* Instruments are numbers; the durations, which every event but a retry   *)
(* carries, are counted. What a seam is asked and the export of the        *)
(* instruments are left out. History variables count what was begun and    *)
(* what a dropped task took with it.                                       *)
(***************************************************************************)
EXTENDS Integers, Sequences, FiniteSets

CONSTANTS
  Streams,        \* requests for an envelope stream
  Extractors,     \* a subset of {"extension", "headers", "verify_session"}
  Seams,          \* the seam endpoints of an action, in the validator's order
  Statuses,       \* the classes of status a host answers with
  MaxAttempts,    \* RetryPolicy::execute_attempts
  MaxCalls,       \* bound: model calls
  MaxCards        \* bound: validations at the host, and those that need none

ASSUME ServiceAssumption ==
  /\ MaxAttempts \in Nat /\ MaxCalls \in Nat /\ MaxCards \in Nat /\ Statuses \subseteq {"2xx", "3xx", "4xx", "5xx"}
  /\ Seams \in Seq({"authorize", "dry_run", "build_slots"}) /\ Seams # <<>>
  /\ \A i, j \in DOMAIN Seams : Seams[i] = Seams[j] => i = j

VARIABLES
  extractor,    \* how this service finds a principal
  layer,        \* whether MetricsLayer is installed
  stream,       \* stream[s]: "none", "verifying", "upgrading", "open", "refused", "left", "ended"
  delivery,     \* delivery[s]: the delivery the task awaits: [at, endpoint, attempt, status]
  llm,          \* llm[s]: the model call under way: "none", "calling", "streaming", "errored"
  cards,        \* cards[s]: validated and undecided
  instruments,  \* Instruments, as numbers
  begun,        \* history: [calls, executions, sent], sent for each endpoint
  lost          \* history: dropped [deliveries, waits, executions], deliveries for each endpoint

vars == <<extractor, layer, stream, delivery, llm, cards, instruments, begun, lost>>

Endpoints == {"verify_session", "execute"} \cup {Seams[i] : i \in DOMAIN Seams}
Outcomes == {"ok", "status_4xx", "status_5xx", "status_other", "unreachable"}
States == {"validated", "invalid", "rejected", "executed", "failed", "expired"}
NoDelivery == [at |-> "none", endpoint |-> "none", attempt |-> 0, status |-> "none"]

Attempts == IF MaxAttempts > 1 THEN MaxAttempts ELSE 1

Instruments ==
  [proposals |-> [state \in States |-> 0],
   deliveries |-> [of \in Endpoints \X Outcomes |-> 0],
   delivery_duration |-> [endpoint \in Endpoints |-> 0],
   execute_retries |-> 0,
   sessions_active |-> 0, session_duration |-> 0,
   llm_requests |-> [outcome \in {"ok", "error"} |-> 0], llm_duration |-> 0]

Init ==
  /\ extractor \in Extractors /\ layer \in BOOLEAN
  /\ stream = [s \in Streams |-> "none"]
  /\ delivery = [s \in Streams |-> NoDelivery]
  /\ llm = [s \in Streams |-> "none"]
  /\ cards = [s \in Streams |-> 0]
  /\ instruments = Instruments
  /\ begun = [calls |-> 0, executions |-> 0, sent |-> [e \in Endpoints |-> 0]]
  /\ lost = [deliveries |-> [e \in Endpoints |-> 0], waits |-> 0, executions |-> 0]

-----------------------------------------------------------------------------
(* Events and what the layer makes of them.                                 *)

Event(kind, label, endpoint) == [kind |-> kind, label |-> label, endpoint |-> endpoint]
Proposal(state) == Event("proposal", state, "none")
Delivered(endpoint, outcome) == Event("delivery", outcome, endpoint)
DeliveryRetry == Event("delivery_retry", "none", "execute")
SessionEvent(phase) == Event("session", phase, "none")
LlmEvent(outcome) == Event("llm", outcome, "none")
NoEvent == Event("none", "none", "none")

on_event(m, event) ==
  CASE event.kind = "proposal" -> [m EXCEPT !.proposals[event.label] = @ + 1]
    [] event.kind = "delivery" -> [m EXCEPT !.deliveries[<<event.endpoint, event.label>>] = @ + 1,
                                            !.delivery_duration[event.endpoint] = @ + 1]
    [] event.kind = "delivery_retry" -> [m EXCEPT !.execute_retries = @ + 1]
    [] event.kind = "session" /\ event.label = "opened" -> [m EXCEPT !.sessions_active = @ + 1]
    [] event.kind = "session" /\ event.label = "closed" -> [m EXCEPT !.sessions_active = @ - 1,
                                                                     !.session_duration = @ + 1]
    [] event.kind = "llm" -> [m EXCEPT !.llm_requests[event.label] = @ + 1, !.llm_duration = @ + 1]
    [] event.kind = "none" -> m

(* RUST_LOG filters the log layer only: the metrics layer, once installed,  *)
(* sees every event. No step of a task emits more than two.                 *)
EmitBoth(first, second) ==
  instruments' = IF layer THEN on_event(on_event(instruments, first), second) ELSE instruments
Emit(event) == EmitBoth(event, NoEvent)

-----------------------------------------------------------------------------
(* Deliveries.                                                              *)

Deliver(s, endpoint, attempt) ==
  /\ delivery' = [delivery EXCEPT ![s] = [at |-> "sent", endpoint |-> endpoint, attempt |-> attempt, status |-> "none"]]
  /\ begun' = [begun EXCEPT !.sent[endpoint] = @ + 1,
                            !.executions = @ + (IF endpoint = "execute" /\ attempt = 1 THEN 1 ELSE 0)]

Returned(s) == delivery' = [delivery EXCEPT ![s] = NoDelivery] /\ UNCHANGED begun

OutcomeLabel(status) ==
  CASE status = "2xx" -> "ok" [] status = "4xx" -> "status_4xx" [] status = "5xx" -> "status_5xx" [] OTHER -> "status_other"

(* The head of an answer arrives: the delivery is counted, its body is      *)
(* still to be read.                                                        *)
HeadArrives(s, status) ==
  /\ delivery[s].at = "sent"
  /\ Emit(Delivered(delivery[s].endpoint, OutcomeLabel(status)))
  /\ delivery' = [delivery EXCEPT ![s].at = "body", ![s].status = status]
  /\ UNCHANGED <<extractor, layer, stream, llm, cards, begun, lost>>

Verified(s, answer) == answer = "good" /\ delivery[s].status = "2xx"

(* What the caller makes of the delivery's end. `counted` is the event that *)
(* deliver itself emitted, if any. An answer is "good" or not of the        *)
(* contract; "unreachable" stands for none, or a body that broke off.       *)
VerifyReturns(s, answer, counted) ==
  /\ delivery[s].endpoint = "verify_session"
  /\ stream' = [stream EXCEPT ![s] = IF Verified(s, answer) THEN "upgrading" ELSE "refused"]
  /\ Returned(s) /\ Emit(counted)
  /\ UNCHANGED <<llm, cards, lost>>

(* A seam's yes leads to the next seam and then to the card or the          *)
(* execution, anything else to an invalid proposal or an expired card.      *)
(* The model's stream is still open at propose time.                        *)
Proposing(s) == llm[s] # "none"

SeamReturns(s, answer, counted) ==
  LET yes == answer = "good" /\ delivery[s].status = "2xx"
  IN \E at \in DOMAIN Seams :
     /\ delivery[s].endpoint = Seams[at]
     /\ IF yes /\ at < Len(Seams) THEN Deliver(s, Seams[at + 1], 1) /\ Emit(counted) /\ UNCHANGED cards
        ELSE IF yes /\ ~Proposing(s) THEN Deliver(s, "execute", 1) /\ Emit(counted) /\ UNCHANGED cards
        ELSE /\ Returned(s)
             /\ EmitBoth(counted, Proposal(IF Proposing(s) THEN IF yes THEN "validated" ELSE "invalid" ELSE "expired"))
             /\ cards' = [cards EXCEPT ![s] = @ + (IF Proposing(s) /\ yes THEN 1 ELSE 0)]
     /\ UNCHANGED <<stream, llm, lost>>

RetriesLeft(s) == delivery[s].attempt < Attempts

(* An attempt whose outcome is unknown is a retry, the last one the end.    *)
UnknownEvent(s) == IF RetriesLeft(s) THEN DeliveryRetry ELSE Proposal("failed")

ExecuteReturns(s, answer, counted) ==
  /\ delivery[s].endpoint = "execute"
  /\ \/ /\ answer = "unreachable"
        /\ EmitBoth(counted, UnknownEvent(s))
        /\ IF RetriesLeft(s) THEN delivery' = [delivery EXCEPT ![s].at = "backoff"] /\ UNCHANGED begun
                             ELSE Returned(s)
     \/ /\ answer # "unreachable"
        /\ \E state \in {"failed"} \cup (IF answer = "good" /\ delivery[s].status = "2xx" THEN {"executed"} ELSE {}) :
             EmitBoth(counted, Proposal(state))
        /\ Returned(s)
  /\ UNCHANGED <<stream, llm, cards, lost>>

CallerGoesOn(s, answer, counted) ==
  \/ VerifyReturns(s, answer, counted)
  \/ SeamReturns(s, answer, counted)
  \/ ExecuteReturns(s, answer, counted)

(* No answer within the timeout, or no connection.                          *)
DeliveryUnreachable(s) ==
  /\ delivery[s].at = "sent"
  /\ CallerGoesOn(s, "unreachable", Delivered(delivery[s].endpoint, "unreachable"))
  /\ UNCHANGED <<extractor, layer>>

(* Reading the body emits nothing of its own: the delivery is counted.      *)
BodyRead(s, answer) ==
  /\ delivery[s].at = "body"
  /\ CallerGoesOn(s, answer, NoEvent)
  /\ UNCHANGED <<extractor, layer>>

Retry(s) ==
  /\ delivery[s].at = "backoff"
  /\ Deliver(s, "execute", delivery[s].attempt + 1)
  /\ UNCHANGED <<extractor, layer, stream, llm, cards, instruments, lost>>

-----------------------------------------------------------------------------
(* Streams. The principal comes first, the upgraded socket's task runs the  *)
(* session, and its SessionSpan lives as long as the task.                  *)

UpgradeRequest(s) ==
  /\ stream[s] = "none"
  /\ \/ /\ extractor = "verify_session"
        /\ stream' = [stream EXCEPT ![s] = "verifying"]
        /\ Deliver(s, "verify_session", 1)
     \/ /\ extractor # "verify_session"
        /\ \E at \in {"upgrading", "refused"} : stream' = [stream EXCEPT ![s] = at]
        /\ UNCHANGED <<delivery, begun>>
  /\ UNCHANGED <<extractor, layer, llm, cards, instruments, lost>>

SessionOpens(s) ==
  /\ stream[s] = "upgrading"
  /\ stream' = [stream EXCEPT ![s] = "open"]
  /\ Emit(SessionEvent("opened"))
  /\ UNCHANGED <<extractor, layer, delivery, llm, cards, begun, lost>>

Reading(s) == stream[s] = "open" /\ delivery[s] = NoDelivery /\ llm[s] = "none"

SessionCloses(s) ==
  /\ Reading(s)
  /\ stream' = [stream EXCEPT ![s] = "ended"]
  /\ Emit(SessionEvent("closed"))
  /\ UNCHANGED <<extractor, layer, delivery, llm, cards, begun, lost>>

LlmOutcome(s) == IF llm[s] = "errored" THEN "error" ELSE "ok"

(* The events of what a dropped task owns: the open model call, then the    *)
(* session. A delivery under way has no guard.                              *)
CallDropped(s) == IF llm[s] = "none" THEN NoEvent ELSE LlmEvent(LlmOutcome(s))

(* Mutant: the session is closed by run_session's exits.                    *)
SessionLeaks(s) == NoEvent

SessionDropped(s) == IF stream[s] = "open" THEN SessionEvent("closed") ELSE NoEvent

(* The task is dropped at an await: the peer leaves while its request is    *)
(* served, a handler panics, the runtime goes down.                         *)
TaskDropped(s) ==
  /\ stream[s] \in {"verifying", "upgrading", "open"}
  /\ stream' = [stream EXCEPT ![s] = IF @ = "open" THEN "ended" ELSE "left"]
  /\ EmitBoth(CallDropped(s), SessionDropped(s))
  /\ lost' = [lost EXCEPT
       !.deliveries = [e \in Endpoints |-> @[e] + (IF delivery[s].at = "sent" /\ delivery[s].endpoint = e THEN 1 ELSE 0)],
       !.waits = @ + (IF delivery[s].at = "backoff" THEN 1 ELSE 0),
       !.executions = @ + (IF delivery[s].endpoint = "execute" THEN 1 ELSE 0)]
  /\ delivery' = [delivery EXCEPT ![s] = NoDelivery]
  /\ llm' = [llm EXCEPT ![s] = "none"]
  /\ UNCHANGED <<extractor, layer, cards, begun>>

-----------------------------------------------------------------------------
(* Turns. A model call is timed by an LlmSpan, which the stream owns.       *)

ModelCall(s) ==
  /\ Reading(s) /\ begun.calls < MaxCalls
  /\ begun' = [begun EXCEPT !.calls = @ + 1]
  /\ llm' = [llm EXCEPT ![s] = "calling"]
  /\ UNCHANGED <<extractor, layer, stream, delivery, cards, instruments, lost>>

(* The request fails: the error is marked and the span dropped.             *)
CallRefused(s) ==
  /\ llm[s] = "calling"
  /\ llm' = [llm EXCEPT ![s] = "none"]
  /\ Emit(LlmEvent("error"))
  /\ UNCHANGED <<extractor, layer, stream, delivery, cards, begun, lost>>

StreamOpens(s) ==
  /\ llm[s] = "calling"
  /\ llm' = [llm EXCEPT ![s] = "streaming"]
  /\ UNCHANGED <<extractor, layer, stream, delivery, cards, instruments, begun, lost>>

ChunkFails(s) ==
  /\ llm[s] = "streaming" /\ delivery[s] = NoDelivery
  /\ llm' = [llm EXCEPT ![s] = "errored"]
  /\ UNCHANGED <<extractor, layer, stream, delivery, cards, instruments, begun, lost>>

(* A tool call is validated while the stream stays open; what the registry  *)
(* or the params refuse needs no host.                                      *)
ToolCall(s) ==
  /\ llm[s] = "streaming" /\ delivery[s] = NoDelivery
  /\ begun.sent[Seams[1]] + instruments.proposals["invalid"] < MaxCards
  /\ \/ Deliver(s, Seams[1], 1) /\ UNCHANGED instruments
     \/ Emit(Proposal("invalid")) /\ UNCHANGED <<delivery, begun>>
  /\ UNCHANGED <<extractor, layer, stream, llm, cards, lost>>

(* The agent drops the stream: at its end, after an error, or before.       *)
StreamDropped(s) ==
  /\ llm[s] \in {"streaming", "errored"} /\ delivery[s] = NoDelivery
  /\ llm' = [llm EXCEPT ![s] = "none"]
  /\ Emit(LlmEvent(LlmOutcome(s)))
  /\ UNCHANGED <<extractor, layer, stream, delivery, cards, begun, lost>>

(* A confirmed card is decided either way; its validation comes first.      *)
Confirm(s) ==
  /\ Reading(s) /\ cards[s] > 0
  /\ cards' = [cards EXCEPT ![s] = @ - 1]
  /\ \/ Deliver(s, Seams[1], 1) /\ UNCHANGED instruments
     \/ Emit(Proposal("expired")) /\ UNCHANGED <<delivery, begun>>
  /\ UNCHANGED <<extractor, layer, stream, llm, lost>>

Reject(s) ==
  /\ Reading(s) /\ cards[s] > 0
  /\ cards' = [cards EXCEPT ![s] = @ - 1]
  /\ Emit(Proposal("rejected"))
  /\ UNCHANGED <<extractor, layer, stream, delivery, llm, begun, lost>>

(* A change of route expires what is pending, and emits no event.           *)
RouteChanges(s) ==
  /\ Reading(s) /\ cards[s] > 0
  /\ cards' = [cards EXCEPT ![s] = 0]
  /\ UNCHANGED <<extractor, layer, stream, delivery, llm, instruments, begun, lost>>

Next ==
  \E s \in Streams :
    \/ UpgradeRequest(s) \/ SessionOpens(s) \/ SessionCloses(s) \/ TaskDropped(s)
    \/ \E status \in Statuses : HeadArrives(s, status)
    \/ DeliveryUnreachable(s) \/ Retry(s)
    \/ \E answer \in {"good", "bad", "unreachable"} : BodyRead(s, answer)
    \/ ModelCall(s) \/ CallRefused(s) \/ StreamOpens(s) \/ ChunkFails(s) \/ ToolCall(s) \/ StreamDropped(s)
    \/ Confirm(s) \/ Reject(s) \/ RouteChanges(s)

Spec == Init /\ [][Next]_vars

-----------------------------------------------------------------------------
Awaiting(at) == {s \in Streams : delivery[s].at = at}
Executing == {s \in Streams : delivery[s].endpoint = "execute"}
Counted(endpoint) ==
  LET counter(outcome) == instruments.deliveries[<<endpoint, outcome>>]
  IN counter("ok") + counter("status_4xx") + counter("status_5xx") + counter("status_other") + counter("unreachable")

(* The gauge of active sessions is the number of open sessions, and every   *)
(* session that ended left its duration, however its task ended             *)
(* (SessionSpan: "an up-down counter that only ever drifts upward never     *)
(* recovers without a restart").                                            *)
GaugeTellsSessions ==
  layer => /\ instruments.sessions_active = Cardinality({s \in Streams : stream[s] = "open"})
           /\ instruments.session_duration = Cardinality({s \in Streams : stream[s] = "ended"})

(* Each model call is counted once, with its duration, when it is over, an  *)
(* abandoned or dropped one too.                                            *)
CallsCounted ==
  layer => /\ instruments.llm_requests["ok"] + instruments.llm_requests["error"]
                 + Cardinality({s \in Streams : llm[s] # "none"}) = begun.calls
           /\ instruments.llm_duration = instruments.llm_requests["ok"] + instruments.llm_requests["error"]

(* Each delivery is counted once under its endpoint, as soon as its answer  *)
(* begins or fails to; none is but those a dropped task took along.         *)
DeliveriesCounted ==
  layer => \A e \in Endpoints :
    /\ Counted(e) + Cardinality({s \in Awaiting("sent") : delivery[s].endpoint = e}) + lost.deliveries[e] = begun.sent[e]
    /\ instruments.delivery_duration[e] = Counted(e)

(* The retries are what the deliveries of execute exceed the executions by, *)
(* up to the waits under way and those a dropped task took along, and no    *)
(* execution takes more than its attempts. An answer whose body breaks off  *)
(* is retried although it counts as one.                                    *)
RetriesCounted ==
  layer =>
    /\ begun.executions + instruments.execute_retries =
         begun.sent["execute"] + Cardinality(Awaiting("backoff")) + lost.waits
    /\ instruments.execute_retries <= (Attempts - 1) * begun.executions

(* An execution reports its card once, executed or failed, after however    *)
(* many deliveries, unless its task was dropped; and no card is decided     *)
(* that was not shown.                                                      *)
ExecutionsReported ==
  layer => LET told(state) == instruments.proposals[state]
           IN /\ told("executed") + told("failed") + Cardinality(Executing) + lost.executions = begun.executions
              /\ told("executed") + told("failed") + told("expired") + told("rejected") <= told("validated")

(* No session opens before its principal is found: where verify_session     *)
(* finds it, each session behind an open gauge is an answered verification. *)
SessionsWereVerified ==
  layer /\ extractor = "verify_session" =>
    Cardinality({s \in Streams : stream[s] \in {"upgrading", "open", "ended"}})
      <= instruments.deliveries[<<"verify_session", "ok">>]

(* What the instruments say is what the service did, whatever was dropped:  *)
(* they are never corrected later (MetricsLayer only adds).                 *)
InstrumentsAreTrue ==
  /\ GaugeTellsSessions
  /\ CallsCounted
  /\ DeliveriesCounted
  /\ RetriesCounted
  /\ ExecutionsReported
  /\ SessionsWereVerified
=============================================================================
