---------------------------- MODULE AgentSession ----------------------------
(***************************************************************************)
(* The agent core of CleverHans: one Session driven by Agent::handle_into. *)
(*                                                                         *)
(* A session handles one client event at a time (it is borrowed mutably),  *)
(* so the concurrency here is with the application: between two awaits of  *)
(* one handler the host may change its mind about authorization, a dry run *)
(* may start failing, and the receiver of server events may go away.       *)
(* Every await is therefore a step of its own, and `at` says which await   *)
(* the running handler is suspended on.                                    *)
(*                                                                         *)
(* Text, JSON values and LLM prompts are abstracted: a context is a point  *)
(* with a route and the values its params resolve to, a message is its     *)
(* number, the history is the kind of its last turn.                       *)
(***************************************************************************)
EXTENDS Naturals, Sequences

CONSTANTS
  Contexts,        \* context snapshots the frontend can send
  DefaultContext,  \* Context::default(), before the first Init
  Route,           \* Route[c]: the route of snapshot c
  Resolve,         \* Resolve[c][n]: the value param n resolves to in c, or None
  ParamNames,      \* names of action params
  Values,          \* values a param can take
  Mistyped,        \* the values no param's type admits
  Actions,         \* ids of the registered actions
  Def,             \* Def[a]: [mutates, params], params a sequence of specs
  ActionIds,       \* ids a model may name, registered or not
  ToolCalls,       \* the tool calls the model may emit: [action, args]
  MaxRetries,      \* AgentConfig::max_validation_retries
  MaxTurns,        \* bound: user messages per session
  MaxChunks,       \* bound: chunks per completion stream
  MaxProposals,    \* bound: proposals per session
  None             \* "no value"

Arguments == UNION {[S -> Values] : S \in SUBSET ParamNames}

ParamSpec ==
  [name : ParamNames, source : {"context", "utterance"}, required : BOOLEAN]

ASSUME ContextAssumption ==
  /\ DefaultContext \in Contexts
  /\ Resolve \in [Contexts -> [ParamNames -> Values \cup {None}]]
  /\ None \notin Values

ASSUME ActionAssumption ==
  /\ Actions \subseteq ActionIds
  /\ Def \in [Actions -> [mutates : BOOLEAN, params : Seq(ParamSpec)]]
  /\ ToolCalls \subseteq [action : ActionIds, args : Arguments]

ASSUME BoundAssumption ==
  MaxRetries \in Nat /\ MaxTurns \in Nat /\ MaxChunks \in Nat /\ MaxProposals \in Nat

-----------------------------------------------------------------------------
VARIABLES
  context,      \* Session::context
  proposals,    \* Session::proposals; the id of a proposal is its index
  msgCounter,   \* Session::msg_counter
  lastTurn,     \* the kind of the last ChatTurn of Session::history
  at,           \* where the running handler is suspended, "idle" if none is
  call,         \* the candidate under validation or execution, or NoCall
  turn,         \* locals of handle_user_message
  receiver,     \* whether the receiver of the running handler's events is alive
  turns         \* user messages so far (bounds the model)

(* What observers saw; no action reads these. *)
VARIABLES
  calls,        \* the handler invocations, in order
  decision,     \* decision[i]: the first ConfirmAction or RejectAction for i
  accepted,     \* the cards whose ConfirmAction the store took
  signals,      \* signals[i]: the proposal_state telemetry about i, in order
  client        \* what the server events told the frontend

sessionVars  == <<context, proposals, msgCounter, lastTurn>>
observerVars == <<calls, decision, accepted, signals, client>>
vars == <<sessionVars, at, call, turn, receiver, turns, observerVars>>

-----------------------------------------------------------------------------
(* Proposal states and the legality table of ProposalState. *)

States == {"validated", "confirmed", "executed", "rejected", "expired", "failed"}

Terminal == {"executed", "rejected", "expired", "failed"}

CanTransition(from, to) ==
  \/ from = "validated" /\ to \in {"confirmed", "rejected", "expired"}
  \/ from = "confirmed" /\ to \in {"executed", "failed", "expired"}

Proposal ==
  [action : Actions, args : Arguments, params : Arguments, state : States]

Pending == {i \in DOMAIN proposals : proposals[i].state = "validated"}

-----------------------------------------------------------------------------
(* Validator::fill_params. *)

SpecValue(args, c, spec) ==
  IF spec.source = "context" THEN Resolve[c][spec.name]
  ELSE IF spec.name \in DOMAIN args THEN args[spec.name] ELSE None

SpecFailure(args, c, spec) ==
  LET value == SpecValue(args, c, spec)
  IN  IF value \in Mistyped THEN "InvalidParam"
      ELSE IF value # None \/ ~spec.required THEN "ok"
      ELSE IF spec.source = "context" THEN "UnresolvedContextParam"
      ELSE "MissingParam"

UnknownKeys(a, args) ==
  {n \in DOMAIN args : \A i \in DOMAIN Def[a].params :
     ~(Def[a].params[i].source = "utterance" /\ Def[a].params[i].name = n)}

(* The first failure of existence and param filling, "ok" if there is none. *)
FillFailure(a, args, c) ==
  IF a \notin Actions THEN "UnknownAction"
  ELSE LET specs == Def[a].params
           bad   == {i \in DOMAIN specs : SpecFailure(args, c, specs[i]) # "ok"}
           first == CHOOSE i \in bad : \A j \in bad : i <= j
       IN  IF bad # {} THEN SpecFailure(args, c, specs[first])
           ELSE IF UnknownKeys(a, args) # {} THEN "UnknownParam"
           ELSE "ok"

Fill(a, args, c) ==
  LET specs  == Def[a].params
      filled == {i \in DOMAIN specs : SpecValue(args, c, specs[i]) # None}
  IN  [n \in {specs[i].name : i \in filled} |->
         SpecValue(args, c, specs[CHOOSE i \in filled : specs[i].name = n])]

(* ValidationFailure::is_model_fixable. *)
Fixable(failure) ==
  failure \in {"UnknownAction", "InvalidParam", "MissingParam", "UnknownParam"}

-----------------------------------------------------------------------------
NoParams == [n \in {} |-> None]
NoCall   == [purpose |-> "none", id |-> 0, action |-> None,
             args |-> NoParams, params |-> NoParams]
NoTurn   == [retries |-> 0, fixing |-> FALSE, segment |-> 0,
             completions |-> 0, chunks |-> 0]

Init ==
  /\ context = DefaultContext
  /\ proposals = <<>>
  /\ msgCounter = 0
  /\ lastTurn = "none"
  /\ at = "idle"
  /\ call = NoCall
  /\ turn = NoTurn
  /\ receiver = TRUE
  /\ turns = 0
  /\ calls = <<>>
  /\ decision = <<>>
  /\ accepted = {}
  /\ signals = <<>>
  /\ client = [told |-> <<>>, open |-> {}, transcript |-> <<>>,
               llmError |-> FALSE, missed |-> FALSE]

-----------------------------------------------------------------------------
(* Emitting server events. An event sent to a dropped receiver is lost.     *)

Deliver(alive, update) ==
  client' = IF alive THEN update ELSE [client EXCEPT !.missed = TRUE]

WithState(c, i, s) == [c EXCEPT !.told[i] = s]
WithDelta(c, m)    == [c EXCEPT !.open = @ \cup {m}]
WithDone(c, m)     == [c EXCEPT !.open = @ \ {m}, !.transcript = Append(@, m)]

WithLlmError(c)    == [c EXCEPT !.llmError = TRUE]

(* The handler returns: its locals die, and with them an open segment. *)
Return ==
  /\ at' = "idle"
  /\ call' = NoCall
  /\ turn' = NoTurn
  /\ receiver' = TRUE

(* The handler runs on. *)
Continue(stage) ==
  /\ at' = stage
  /\ UNCHANGED receiver

(* Mutant: telemetry follows the attempt, not the transition. *)
TransitionSignalsAttempt(i, s) ==
  /\ signals' = [signals EXCEPT ![i] = Append(@, s)]
  /\ proposals' = IF CanTransition(proposals[i].state, s)
                  THEN [proposals EXCEPT ![i].state = s] ELSE proposals

(* ProposalStore::transition, and the telemetry that follows it. *)
Transition(i, s) ==
  IF CanTransition(proposals[i].state, s)
  THEN /\ proposals' = [proposals EXCEPT ![i].state = s]
       /\ signals' = [signals EXCEPT ![i] = Append(@, s)]
  ELSE UNCHANGED <<proposals, signals>>

-----------------------------------------------------------------------------
(* Client events. Each starts a handler, so each needs the session idle;    *)
(* `alive` is whether the sender passed in still has its receiver. A client *)
(* event naming an unknown proposal, or an Init with an incompatible        *)
(* version, is answered with an Error and changes nothing.                  *)

(* Init with a compatible version: pending proposals stay pending. *)
HandleInit(c) ==
  /\ at = "idle"
  /\ context' = c
  /\ UNCHANGED <<proposals, msgCounter, lastTurn, at, call, turn, receiver, turns, observerVars>>

(* Mutant: proposals expire without a word to the frontend. *)
TellExpiredSilent(alive) == UNCHANGED client

TellExpired(alive) ==
  Deliver(alive, [client EXCEPT !.told = [i \in DOMAIN proposals |->
    IF i \in Pending THEN "expired" ELSE client.told[i]]])

(* ContextUpdate: a route change expires every pending proposal. *)
HandleContextUpdate(c, alive) ==
  /\ at = "idle"
  /\ context' = c
  /\ IF Route[context] # Route[c] /\ Pending # {}
     THEN /\ proposals' = [i \in DOMAIN proposals |->
               IF i \in Pending THEN [proposals[i] EXCEPT !.state = "expired"]
               ELSE proposals[i]]
          /\ TellExpired(alive)
     ELSE UNCHANGED <<proposals, client>>
  /\ UNCHANGED <<msgCounter, lastTurn, at, call, turn, receiver, turns,
                 calls, decision, accepted, signals>>

HandleUserMessage(alive) ==
  /\ at = "idle"
  /\ turns < MaxTurns
  /\ turns' = turns + 1
  /\ receiver' = alive
  /\ lastTurn' = "user"
  /\ turn' = [NoTurn EXCEPT !.retries = MaxRetries, !.completions = 1]
  /\ at' = "completing"
  /\ client' = [client EXCEPT !.llmError = FALSE]
  /\ UNCHANGED <<context, proposals, msgCounter, call, calls, decision, accepted, signals>>

Decide(i, d) ==
  decision' = IF decision[i] = "none" THEN [decision EXCEPT ![i] = d] ELSE decision

(* Mutants: an executed card can be confirmed again; a rejected one too. *)
ConfirmableTwice(i) == proposals[i].state \in {"validated", "executed"}
ConfirmableAfterReject(i) == proposals[i].state \in {"validated", "rejected"}

Confirmable(i) == proposals[i].state = "validated"

(* ConfirmAction: only a pending proposal crosses to confirmed. *)
HandleConfirm(i, alive) ==
  /\ at = "idle"
  /\ i \in DOMAIN proposals
  /\ Decide(i, "confirm")
  /\ IF ~Confirmable(i)
     THEN /\ Deliver(alive, WithState(client, i, proposals[i].state))
          /\ UNCHANGED <<proposals, at, call, receiver, accepted>>
     ELSE /\ receiver' = alive
          /\ accepted' = accepted \cup {i}
          /\ proposals' = [proposals EXCEPT ![i].state = "confirmed"]
          /\ call' = [purpose |-> "confirm", id |-> i, action |-> proposals[i].action,
                      args |-> proposals[i].args, params |-> NoParams]
          /\ at' = "filling"
          /\ UNCHANGED client
  /\ UNCHANGED <<context, msgCounter, lastTurn, turn, turns, calls, signals>>

(* RejectAction: an illegal transition is answered with an Error. *)
HandleReject(i, alive) ==
  /\ at = "idle"
  /\ i \in DOMAIN proposals
  /\ Decide(i, "reject")
  /\ Transition(i, "rejected")
  /\ IF CanTransition(proposals[i].state, "rejected")
     THEN /\ lastTurn' = "rejected"
          /\ Deliver(alive, WithState(client, i, "rejected"))
     ELSE UNCHANGED <<lastTurn, client>>
  /\ UNCHANGED <<context, msgCounter, at, call, turn, receiver, turns, calls, accepted>>

(* The receiver of server events goes away while a handler runs. *)
ReceiverDrops ==
  /\ at # "idle"
  /\ receiver
  /\ receiver' = FALSE
  /\ UNCHANGED <<sessionVars, at, call, turn, turns, observerVars>>

-----------------------------------------------------------------------------
(* handle_user_message: the completion loop.                                *)

(* decline: one closed message of its own. *)
Decline ==
  /\ msgCounter' = msgCounter + 1
  /\ Deliver(receiver, WithDone(client, msgCounter + 1))

(* Mutant: the closing message is never sent. *)
FlushForgets == UNCHANGED client

(* flush_segment: closes the open segment, if there is one. *)
Flush ==
  IF turn.segment = 0 THEN UNCHANGED client
  ELSE Deliver(receiver, WithDone(client, turn.segment))

(* flush_segment reports the receiver gone only when it had to send. *)
FlushFails == turn.segment # 0 /\ ~receiver

FlushedTurn == IF turn.segment = 0 THEN lastTurn ELSE "assistant"

CompletionOpens ==
  /\ at = "completing"
  /\ Continue("streaming")
  /\ turn' = [turn EXCEPT !.chunks = 0]
  /\ UNCHANGED <<sessionVars, call, turns, observerVars>>

(* A failed retry completion declines; a failed first one is an Error. *)
CompletionFails ==
  /\ at = "completing"
  /\ IF turn.fixing THEN Decline
     ELSE Deliver(receiver, WithLlmError(client)) /\ UNCHANGED msgCounter
  /\ Return
  /\ UNCHANGED <<context, proposals, lastTurn, turns, calls, decision, accepted, signals>>

(* The next chunk of the stream; the bounds are on what the model emits. *)
Chunk ==
  /\ at = "streaming"
  /\ turn.chunks < MaxChunks

TextDelta ==
  LET opened == IF turn.segment = 0 THEN msgCounter + 1 ELSE turn.segment
  IN  /\ Chunk
      /\ msgCounter' = IF turn.segment = 0 THEN msgCounter + 1 ELSE msgCounter
      /\ Deliver(receiver, WithDelta(client, opened))
      /\ IF receiver
         THEN /\ turn' = [turn EXCEPT !.segment = opened, !.chunks = @ + 1]
              /\ Continue("streaming")
              /\ UNCHANGED call
         ELSE Return
      /\ UNCHANGED <<context, proposals, lastTurn, turns, calls, decision, accepted, signals>>

TextDone ==
  /\ Chunk
  /\ Flush
  /\ lastTurn' = FlushedTurn
  /\ IF FlushFails THEN Return
     ELSE /\ turn' = [turn EXCEPT !.segment = 0, !.chunks = @ + 1]
          /\ Continue("streaming")
          /\ UNCHANGED call
  /\ UNCHANGED <<context, proposals, msgCounter, turns, calls, decision, accepted, signals>>

(* A tool call closes the segment, then its candidate is validated. *)
ToolCall(t) ==
  /\ Chunk
  /\ Len(proposals) < MaxProposals
  /\ Flush
  /\ lastTurn' = FlushedTurn
  /\ IF FlushFails THEN Return
     ELSE /\ turn' = [turn EXCEPT !.segment = 0, !.chunks = @ + 1]
          /\ call' = [purpose |-> "propose", id |-> 0, action |-> t.action,
                      args |-> t.args, params |-> NoParams]
          /\ Continue("filling")
  /\ UNCHANGED <<context, proposals, msgCounter, turns, calls, decision, accepted, signals>>

(* The stream ends: the turn is over, an unclosed segment is closed. *)
StreamEnds ==
  /\ at = "streaming"
  /\ Flush
  /\ lastTurn' = FlushedTurn
  /\ Return
  /\ UNCHANGED <<context, proposals, msgCounter, turns, calls, decision, accepted, signals>>

(* The stream breaks: the segment is closed and the error reported, in the  *)
(* first completion and in a retry alike.                                   *)
StreamBreaks ==
  /\ at = "streaming"
  /\ Deliver(receiver, WithLlmError(
       IF turn.segment = 0 THEN client ELSE WithDone(client, turn.segment)))
  /\ lastTurn' = FlushedTurn
  /\ Return
  /\ UNCHANGED <<context, proposals, msgCounter, turns, calls, decision, accepted, signals>>

-----------------------------------------------------------------------------
(* The validation pipeline, shared by propose and confirm time.             *)

(* Mutants: the budget is never spent, or never checked; the failure is not *)
(* recorded in the history.                                                 *)
RetriesNeverSpent == turn.retries
MayRetryUnchecked(failure) == Fixable(failure)
RecordNothing == UNCHANGED lastTurn

RetriesAfter == turn.retries - 1

MayRetry(failure) == Fixable(failure) /\ turn.retries > 0

RecordFailure == lastTurn' = "failure"

(* propose failed: a fixable failure with budget left is retried, dropping  *)
(* the rest of this response; any other is declined.                        *)
ProposeFails(failure) ==
  /\ RecordFailure
  /\ IF MayRetry(failure)
     THEN /\ turn' = [turn EXCEPT !.retries = RetriesAfter, !.fixing = TRUE,
                        !.completions = IF @ > MaxRetries + 1 THEN @ ELSE @ + 1]
          /\ Continue("completing")
          /\ call' = NoCall
          /\ UNCHANGED <<msgCounter, client>>
     ELSE /\ Decline
          /\ IF receiver THEN Continue("streaming") /\ call' = NoCall /\ UNCHANGED turn
             ELSE Return
  /\ UNCHANGED <<proposals, signals>>

(* Mutant: the expiry is reported but the store keeps the old state. *)
ConfirmExpiresUnstored ==
  /\ Deliver(receiver, WithState(client, call.id, "expired"))
  /\ Return
  /\ UNCHANGED <<proposals, signals, msgCounter, lastTurn>>

(* Mutant: a confirmed card expires without a signal.                       *)
ConfirmExpiresUnsaid ==
  /\ proposals' = [proposals EXCEPT ![call.id].state = "expired"]
  /\ Deliver(receiver, WithState(client, call.id, "expired"))
  /\ Return
  /\ UNCHANGED <<signals, msgCounter, lastTurn>>

(* Confirm-time revalidation failed: the proposal expires, nothing runs. *)
ConfirmExpires ==
  /\ Transition(call.id, "expired")
  /\ Deliver(receiver, WithState(client, call.id, "expired"))
  /\ Return
  /\ UNCHANGED <<msgCounter, lastTurn>>

Invalid(failure) ==
  /\ IF call.purpose = "propose" THEN ProposeFails(failure) ELSE ConfirmExpires
  /\ UNCHANGED <<context, turns, calls, decision, accepted>>

Advance(stage) ==
  /\ Continue(stage)
  /\ UNCHANGED <<sessionVars, turn, turns, observerVars>>

(* Existence, param filling and unknown params: synchronous. *)
FillParams ==
  /\ at = "filling"
  /\ LET failure == FillFailure(call.action, call.args, context)
     IN  IF failure # "ok" THEN Invalid(failure)
         ELSE /\ call' = [call EXCEPT !.params = Fill(call.action, call.args, context)]
              /\ Advance("authz")

AuthzAllows ==
  /\ at = "authz"
  /\ UNCHANGED call
  /\ Advance(IF Def[call.action].mutates THEN "dryRun" ELSE "slots")

AuthzDenies == at = "authz" /\ Invalid("Unauthorized")

DryRunSucceeds == at = "dryRun" /\ UNCHANGED call /\ Advance("slots")

DryRunFails == at = "dryRun" /\ Invalid("DryRun")

(* An async builder that fails, or slots the block schema refuses. *)
SlotsFail == at = "slots" /\ Invalid("InvalidSlot")

(* ProposalStore: ids are allocated in order, a card's id is its index.     *)
InsertValidated ==
  proposals' = Append(proposals, [action |-> call.action, args |-> call.args,
                                  params |-> call.params, state |-> "validated"])

(* propose: the validated proposal is tracked, then emitted. *)
EmitProposal ==
  /\ at = "slots"
  /\ call.purpose = "propose"
  /\ InsertValidated
  /\ signals' = Append(signals, <<"validated">>)
  /\ decision' = Append(decision, "none")
  /\ client' = [client EXCEPT !.told = Append(@, IF receiver THEN "validated" ELSE "none"),
                              !.missed = @ \/ ~receiver]
  /\ lastTurn' = "proposed"
  /\ IF receiver THEN Continue("streaming") /\ call' = NoCall /\ UNCHANGED turn
     ELSE Return
  /\ UNCHANGED <<context, msgCounter, turns, calls, accepted>>

(* Mutants: drift is ignored; the model's raw arguments are executed. *)
NeverDrifted == FALSE
RawParams == call.args

Drifted == call.params # proposals[call.id].params

ShownParams == proposals[call.id].params

(* execute_confirmed: params that no longer match the card expire it;       *)
(* otherwise the handler is called with the params the user was shown.      *)
Execute ==
  /\ at = "slots"
  /\ call.purpose = "confirm"
  /\ IF Drifted
     THEN /\ ConfirmExpires
          /\ UNCHANGED <<context, turns, calls, decision, accepted>>
     ELSE /\ calls' = Append(calls, [id |-> call.id, action |-> call.action,
                                     params |-> ShownParams])
          /\ Continue("executing")
          /\ UNCHANGED <<sessionVars, call, turn, turns, decision, accepted, signals, client>>

(* Mutant: a failed handler is reported as if nothing had run. *)
OutcomeStateExpired(ok) == IF ok THEN "executed" ELSE "expired"

OutcomeState(ok) == IF ok THEN "executed" ELSE "failed"

HandlerReturns(ok) ==
  /\ at = "executing"
  /\ Transition(call.id, OutcomeState(ok))
  /\ lastTurn' = "outcome"
  /\ Deliver(receiver, WithState(client, call.id, OutcomeState(ok)))
  /\ Return
  /\ UNCHANGED <<context, msgCounter, turns, calls, decision, accepted>>

-----------------------------------------------------------------------------
ClientEvent ==
  \/ \E c \in Contexts : HandleInit(c)
  \/ \E alive \in BOOLEAN :
       \/ \E c \in Contexts : HandleContextUpdate(c, alive)
       \/ HandleUserMessage(alive)
       \/ \E i \in DOMAIN proposals : HandleConfirm(i, alive) \/ HandleReject(i, alive)

Model ==
  \/ CompletionOpens \/ CompletionFails
  \/ TextDelta \/ TextDone \/ StreamEnds \/ StreamBreaks
  \/ \E t \in ToolCalls : ToolCall(t)

Pipeline ==
  \/ FillParams
  \/ AuthzAllows \/ AuthzDenies
  \/ DryRunSucceeds \/ DryRunFails
  \/ SlotsFail \/ EmitProposal \/ Execute
  \/ \E ok \in BOOLEAN : HandlerReturns(ok)

Next == ClientEvent \/ ReceiverDrops \/ Model \/ Pipeline

(* Every await resolves and the executor polls the handler: a running       *)
(* handler keeps running. Client events and receiver loss are free.         *)
Fairness == WF_vars(Model \/ Pipeline)

Spec == Init /\ [][Next]_vars

FairSpec == Spec /\ Fairness
-----------------------------------------------------------------------------
(* Types. *)

Stages == {"idle", "completing", "streaming", "filling", "authz", "dryRun",
           "slots", "executing"}

CallType == [purpose : {"none", "propose", "confirm"}, id : Nat,
             action : ActionIds \cup {None}, args : Arguments, params : Arguments]

TurnType == [retries : 0 .. MaxRetries, fixing : BOOLEAN, segment : Nat,
             completions : Nat, chunks : Nat]

ClientType == [told : Seq(States \cup {"none"}), open : SUBSET Nat,
               transcript : Seq(Nat), llmError : BOOLEAN, missed : BOOLEAN]

TypeOK ==
  /\ context \in Contexts
  /\ proposals \in Seq(Proposal)
  /\ msgCounter \in Nat
  /\ lastTurn \in {"none", "user", "assistant", "failure", "proposed", "rejected", "outcome"}
  /\ at \in Stages
  /\ call \in CallType
  /\ turn \in TurnType
  /\ receiver \in BOOLEAN
  /\ turns \in 0 .. MaxTurns
  /\ calls \in Seq([id : Nat \ {0}, action : Actions, params : Arguments])
  /\ decision \in Seq({"none", "confirm", "reject"})
  /\ accepted \subseteq Nat
  /\ signals \in Seq(Seq(States))
  /\ client \in ClientType

-----------------------------------------------------------------------------
(* Safety: what may have been executed. *)

Called(i) == \E k \in DOMAIN calls : calls[k].id = i

(* A card's handler is invoked at most once, whatever sequence of confirms, *)
(* rejects, context changes and lost receivers the session goes through.    *)
AtMostOnce == \A j, k \in DOMAIN calls : calls[j].id = calls[k].id => j = k

(* The state the store reports is the truth about the side effect: executed *)
(* and failed mean the handler ran; pending, rejected and expired mean it   *)
(* did not; confirmed with the handler running means it is running.         *)
StateTellsEffect ==
  \A i \in DOMAIN proposals :
    Called(i) <=> \/ proposals[i].state \in {"executed", "failed"}
                  \/ at = "executing" /\ call.id = i

(* The user's first decision on a card is the one that counts: only cards   *)
(* first answered with a confirm run, and a rejected card was first         *)
(* answered with a reject, whatever arrives after it.                       *)
FirstDecisionWins ==
  \A i \in DOMAIN proposals :
    /\ Called(i) => decision[i] = "confirm"
    /\ proposals[i].state = "rejected" => decision[i] = "reject"

(* While a handler runs, the deed is the one on the card, and the params    *)
(* the card showed are what the pipeline resolves in the session's present  *)
(* context: a card that drifted never reaches its handler.                  *)
ExecutesWhatHolds ==
  at = "executing" =>
    LET card == proposals[call.id]
    IN  /\ calls[Len(calls)] = [id |-> call.id, action |-> card.action, params |-> card.params]
        /\ FillFailure(card.action, card.args, context) = "ok"
        /\ Fill(card.action, card.args, context) = card.params

-----------------------------------------------------------------------------
(* Safety: what the frontend and the model were told. *)

(* When the session is at rest, a frontend that lost no event shows every   *)
(* card in the state the store has for it (spec 6.3, 7.3).                  *)
ClientInformed ==
  at = "idle" /\ ~client.missed =>
    \A i \in DOMAIN proposals : client.told[i] = proposals[i].state

(* The streaming contract (spec 6.3): exactly the segment being streamed is *)
(* open at the frontend, and the closing messages received so far are one   *)
(* per message id, in order: no segment is lost, repeated or left open.     *)
TranscriptComplete ==
  ~client.missed =>
    LET open == IF turn.segment = 0 THEN {} ELSE {turn.segment}
        closed == IF turn.segment = 0 THEN msgCounter ELSE msgCounter - 1
    IN  client.open = open /\ client.transcript = [m \in 1 .. closed |-> m]

(* A retry completion is asked for with the failure as the newest history   *)
(* turn, and one user turn asks the model at most 1 +                       *)
(* max_validation_retries times (spec section 7.1, agent.rs:371-378).       *)
RetryInformed ==
  /\ at = "completing" /\ turn.fixing => lastTurn = "failure"
  /\ turn.completions <= MaxRetries + 1

(* What telemetry said of a card is what the store did with it, each        *)
(* transition once and in order, whatever edges were attempted and refused: *)
(* validated, then the terminal state. Two transitions carry no signal:     *)
(* confirmed, and the expiry of a card no confirm was taken for (a route    *)
(* change withdrew it); the expiry of a confirmed card carries one.         *)
SignalsExact ==
  \A i \in DOMAIN proposals :
    LET state  == proposals[i].state
        silent == {"confirmed"} \cup (IF i \in accepted THEN {} ELSE {"expired"})
    IN  signals[i] = IF state \in {"validated"} \cup silent THEN <<"validated">>
                     ELSE <<"validated", state>>

-----------------------------------------------------------------------------
(* Liveness, under FairSpec. *)

(* Every handler returns: the retry loop is bounded and no branch of the    *)
(* pipeline leaves the session suspended on nothing.                        *)
HandlersReturn == at # "idle" ~> at = "idle"

(* A confirmed card always reaches a terminal state.                        *)
ConfirmSettles ==
  \A i \in 1 .. MaxProposals :
    (i \in DOMAIN proposals /\ proposals[i].state = "confirmed")
      ~> (i \in DOMAIN proposals /\ proposals[i].state \in Terminal)

-----------------------------------------------------------------------------
(* The session implements ProposalLifecycle. *)

Phase(i) ==
  CASE proposals[i].state = "validated" -> "pending"
    [] proposals[i].state = "confirmed" ->
         IF at = "executing" /\ call.id = i THEN "running" ELSE "approved"
    [] OTHER -> proposals[i].state

DeedOf(p) == [action |-> p.action, params |-> p.params]

Lifecycle == INSTANCE ProposalLifecycle WITH
  Deeds     <- [action : Actions, params : Arguments],
  cards     <- [i \in DOMAIN proposals |->
                  [deed |-> DeedOf(proposals[i]), phase |-> Phase(i)]],
  performed <- [k \in DOMAIN calls |->
                  [card |-> calls[k].id, deed |-> DeedOf(calls[k])]]

(* Offers, decisions and deeds follow the propose-only contract.            *)
ImplementsLifecycle == Lifecycle!LifecycleSpec

=============================================================================
