# CleverHans, specified

TLA+ specifications of the [CleverHans](../src/README.md) agent framework, the
TLC configurations that check them and proofs checked by TLAPS. CleverHans is
*propose-only*: a language model may put action cards in front of a user; only
the user's confirmation, revalidated against the present, executes one. The
specifications say what that promise means for every order in which clients,
models, hosts and networks can act, and check that the code keeps it.

Paths below are relative to the repository; `core/` stands for
`crates/cleverhans-core/src/`, and so on.

## The system

| part | state it keeps | operations | talks to |
|---|---|---|---|
| **Agent loop, session** (`core/agent.rs`, `core/proposal.rs`) | context snapshot, proposal store, history, message counter | `handle_into` with five client events; completion loop with bounded retry; propose; confirm, revalidate, execute; reject; expiry on route change | provider (stream of chunks), authorization, dry-run, slots and action handlers (awaits), event channel |
| **Validation pipeline** (`core/validation.rs`, `core/schema.rs`, `core/error.rs`) | none | `validate`: existence, param fill, unknown params, authorization, dry run, slots | registry and seams; called twice per executed card |
| **Registry** (`core/registry.rs`, `core/schema.rs`, `core/declarative.rs`) | actions, blocks, handlers; fixed after `build` | build checks, tool definitions | read by the two above |
| **Frame pump and transports** (`ws-core/lib.rs`, `ws/lib.rs`, `grpc/service.rs`) | `initialized`, `closed`, an unbounded and a bounded channel, writer | decode a frame, enforce init-first, drive the agent, forward events live, end the session | client over a socket; agent |
| **Webhook client and seams** (`webhook/client.rs`, `webhook/seams.rs`) | none per session; attempt and backoff per execution | deliver verify_session, authorize, dry_run, build_slots once; execute with retries; map every answer, fail closed | host application over HTTP |
| **Mock host** (`conformance/mock_host.rs`) | idempotency table, script cursors, counters, delivery log | the host's side of the webhook contract | webhook client |
| **Telemetry** (`core/telemetry.rs`, `serve/telemetry.rs`) | counters, session gauge, one span per model call | signals on transitions, session open and close, model calls | called by the parts above |
| **React client** (`typescript/cleverhans-react/src`) | proposal views, working timers, transcript, busy state | send client events, fold server events | transport |
| **LLM providers** (`llm-anthropic`, `llm-ollama`, the seam's default stream in `core/seams.rs`) | line buffer, accumulator of content blocks | bytes to chunks, one body to items | model service over HTTP; agent |
| **Bindings** (`ffi`, `node`, `py`, `typescript/cleverhans-node`) | one pump per session behind a mutex or a worker, a sink per call | construct an agent; `handle`; call host functions | host process |
| **Standalone service** (`serve`) | configuration | resolve the configuration, assemble agent, transports and webhook seams, listen | all |

### What is hard

* **Time of check, time of use.** A card is validated, shown, thought about and
  confirmed. The context, the user's rights and the host's answers change in
  between, and again between the awaits of the revalidation.
* **Order of decisions.** Confirm, reject, route change, a second confirm and a
  lost connection come in any order, and an answer to a client that waited too
  long crosses its second decision.
* **Streaming.** Text, cards and errors share one stream: segments have to be
  opened and closed around tool calls, retries and provider failures.
* **Leaving in the middle.** A client that goes away must not cut a handler off
  from its bookkeeping, and must not keep the session alive.
* **Unknown outcomes.** An execute delivery that got no answer may have run, may
  still run, or may never run; retries share an idempotency key.
* **Bytes that come in pieces.** The network cuts a model's answer anywhere; text,
  tool names and tool arguments have to be put together again, and the agent may
  stop listening at any chunk.
* **Three languages, one loop.** Node and Python call `handle` without waiting,
  and call back into host code whose results and exceptions cross a boundary.
* **Checks in several places.** Document, builder, language bindings and service
  configuration each check a part of what a registry needs; together they have to
  be complete and must not contradict each other.

What makes each part correct: a handler runs at most once per card, only after
a first confirm, only with the params shown, only while they still resolve; the
store, the telemetry and the frontend agree on what happened (agent loop). Every
event reaches a connected client once and in order, nothing reaches the agent
before an init, a turn once started is finished, a session ends after its peer
(transports). Calls keep their order and their events, and a host function means
the same in every language (bindings). An execution is performed at most once and
a certain outcome is true (webhook execute); everything that is not a yes denies, and
a host sees the principal it issued (webhook seams). A decided card stays decided
at the client, and the busy state does not outlast its cause (React client). Chunks
are a faithful segmentation of the answer (providers). A frozen registry is
complete, and whatever starts can run (startup).

## Modules

| module | models | checked by |
|---|---|---|
| `ProposalLifecycle` | abstract: what a propose-only session promises | `session` |
| `AgentSession` | one session driven by `Agent::handle_into`, with validation | `session` |
| `AgentSession_proofs` | types, at most one execution, the state tells the effect, first decision, params that hold; what telemetry, frontend, retries and transcript are told; that it implements `ProposalLifecycle` | TLAPS |
| `StreamTransport` | frame loop, channels, writer, connection | `transport*` |
| `StreamTransport_proofs` | its safety | TLAPS |
| `BindingSession` | one session behind Node or Python | `bindings` |
| `BindingSession_proofs` | its safety | TLAPS |
| `HandlerContract` | abstract: what a remote action handler owes the agent | `webhook` |
| `WebhookExecute` | execute delivery, network, idempotent host | `webhook*` |
| `WebhookSession` | sessions over a webhook host: verify, authorize, dry run, slots, then `WebhookExecute` | `webhook` |
| `WebhookSession_proofs` | the safety of `WebhookExecute` and that it implements `HandlerContract`; the safety of `WebhookSession` and that it implements `WebhookExecute` | TLAPS |
| `ClientSession` | the React session, its WebSocket transport, the agent as it answers | `client*` |
| `ClientSession_proofs` | its safety | TLAPS |
| `LlmStreams` | one model call through a provider and its telemetry span | `llm*` |
| `LlmStreams_proofs` | one event per model call | TLAPS |
| `RegistryBuild` | document, builder, frozen registry, tool definitions, slots: operators | `startup` |
| `HostStartup` | the stages in which a Rust program, a binding or the service comes up | `startup` |
| `HostStartup_proofs` | what a build accepts is complete; the bindings agree with the builder; tools agree with validation; a service that listens is ready | TLAPS |
| `ServiceTelemetry` | the service's session tasks, the events they emit, the instruments | `telemetry` |
| `ServiceTelemetry_proofs` | the instruments are true | TLAPS |

The modules meet at narrow interfaces. `AgentSession` emits events on an
unbounded channel and only learns whether its receiver is alive; the channel's
other end is `StreamTransport`, which knows of the agent that it produces events
and returns. The constants of `AgentSession` (actions, their blocks and params) are a
registry as `HostStartup` shows it frozen, its chunks those of `LlmStreams`, its
verdicts at `authz`, `dryRun` and `slots` what `WebhookSession` or
`BindingSession` makes of a host's answers. `AgentSession.HandlerReturns(ok)` is the return of any action
handler; with the webhook topology that is `WebhookExecute`, whose contract is
that an `ok` is true, while a `failed` card may have run (the code says so at
`webhook/seams.rs:116`).

### AgentSession

A session handles one client event at a time, so handlers of one session never
interleave with each other; they interleave with the world. Every await of a
handler is therefore a step, and `at` names the await the running handler is
suspended on: `completing` (`complete_stream`), `streaming` (`stream.next`),
`filling` (start of `validate`), `authz`, `dryRun`, `slots`, `executing`
(the action handler), or `idle`. `call` holds the candidate under validation,
at propose time and at confirm time alike, since both run the same pipeline
against the context of the moment; `turn` holds the locals of
`handle_user_message` (budget, pending failure, open segment).

| action | code |
|---|---|
| `HandleInit`, `HandleContextUpdate`, `HandleUserMessage`, `HandleConfirm`, `HandleReject` | the arms of `handle_into`, up to their first await |
| `CompletionOpens/Fails`, `TextDelta`, `TextDone`, `ToolCall`, `StreamEnds`, `StreamBreaks` | the completion loop, `agent.rs:315-410` |
| `FillParams`, `AuthzAllows/Denies`, `DryRunSucceeds/Fails`, `SlotsFail` | `validate`, `validation.rs:66-138` |
| `EmitProposal` | end of `propose`, `agent.rs:500-526` |
| `Execute`, `HandlerReturns` | `execute_confirmed`, `agent.rs:600-638` |
| `ReceiverDrops` | the receiver of `handle_into` is dropped, `agent.rs:220` |

`ReceiverDrops` is in the contract of the public `handle_into`, not of the
transports: those drain the channel until the handler returns (see
`TurnsAccounted`). Params, contexts and tool calls are values of small sets, a
route decides expiry, `Resolve` is the context resolver, and `Mistyped` are the
values that fail every param's type. Text is its message number. Left out
because no branch reads them: `context_seq`, block slots and previews, the
content of the history. A confirm or reject of an unknown card, and an init
with an incompatible version, answer with an error and change nothing; they are
stutters.

The observer variables `calls`, `decision`, `accepted`, `signals` and `client` record the
handler calls, the user's first decisions, the confirms the store took, and what telemetry
and frontend were told. No action reads them.

### StreamTransport

WebSocket and gRPC share one loop: read a frame, refuse or answer it, or drive
the agent while forwarding its events from an unbounded channel into a bounded
one, from which a writer sends. The one difference is who owns the receiving end
of the bounded queue, which `OutlivesWriter` tells from `transport`: `serve_socket` owns it next to a writer
future that borrows it, so it outlives a writer that gave up; tonic drops it with
the response stream. A server event is its number, so order and completeness are
statements about counting. The observer `ledger` counts turns that returned, events that
entered the queue and events given up, and keeps the turn of the first one given up.

### WebhookExecute

`client[e]` is the delivery loop of execution `e`; `network` holds attempts
that the host has not taken, for as long as it likes (a lost request is one it
never takes); `section` holds attempts between the host's lookup and its insert.
`Threads` is the number of worker threads of the host's runtime: there is no
await between lookup and insert, so with one thread they are atomic with respect
to other requests, with two they are not. The host is the repository's mock host,
which is its reference for the execute contract (spec 14.6).

### WebhookSession

Extends `WebhookExecute` with what comes before an execution. `session[s]` is the
stream's verification and the principal wrapped with its session id
(`session_principal`), `card[e]` the place of the agent's validation in its
sequence of seams, once to propose and once to confirm. `calls` are deliveries the
host has not taken, `replies` answers on their way; a call that timed out may
still be taken, and its answer then goes nowhere. The host is the mock host with
its scripts: overrides per endpoint whose last answer repeats, counters over all
sessions, a header check that accepts or refuses the service's secret and
signature as a whole. `granted` and `issued` record what the host answered.

| action | code |
|---|---|
| `Verify`, `VerifyAnswered`, `VerifyTimesOut` | `WebhookVerifier::verify`, `seams.rs:283-319` |
| `Propose`, `Confirm`, `SeamAnswered`, `SeamTimesOut` | the awaits of `Validator::validate` over `WebhookAuthz`, `WebhookDryRun`, `WebhookSlots` |
| `HostRefusesHeaders`, `HostTakes` | `check_headers`, `record_and_override` and the endpoints of `mock_host.rs` |
| `ExecuteConfirmed`, `ClientStepOf`, `HostTakesExecute`, `HostAnswers` | `WebhookExecute`, of confirmed cards |

### BindingSession

Both bindings are in one module because they promise the same. `queue` is Node's
promise chain or the channel of the Python worker; `pump` is the `FramePump`;
`sink[k]` holds the events of call `k` that its host has not seen: callbacks the
JS thread has yet to run, or the channel behind the Python iterator. A worker may panic in a
turn, which drops the calls in its channel; the next call starts a new one with a
fresh pump. `HostCalled` and `HostDoes` are a host function called in a turn: what
it returns or raises passes the wrapper of `index.ts` and `handler_outcome` in
Node, `call_host` and the seam structs in Python. Whether the last callbacks of
a Node call run before its promise resolves is left open, since they are separate
threadsafe functions.

### LlmStreams

The model's answer is a sequence of items; the service writes it as lines (SSE or
NDJSON), the network cuts the bytes into frames anywhere, the provider decodes
frames, takes complete lines from its buffer and folds them. A byte is a record
whose field says which character or half of one it is, and the JSON around a
fragment is a single byte, so every cut inside the fragments and between lines
happens. `Complete` is the unstreamed call. A host callback answers with items and
is streamed by the seam's default. The agent may drop the stream at any chunk;
`span` is the service's `LlmSpan`. Requests, headers and token limits are left
out; arguments are balanced or not, blank or not.

### RegistryBuild and HostStartup

`RegistryBuild` has no variables: it is the builder, the document gates, the
build checks, tool definitions, the path resolver, slot checks and the bindings'
assembly as operators. A loop that returns at the first fault is the function of its
elements' faults, and `FirstFault` of it. `HostStartup` runs them: `Stages` lists what
each kind of host does in order, each stage is an action that passes or refuses, a Rust
program calls the builder in any order. Inputs (document, config, environment,
callbacks) are chosen in `Init`. `ToolDef` is what a model is shown and `Admits` what a
reader of that schema may send; `FillVerdict` is what `fill_params` makes of it.

### ServiceTelemetry

A stream of the service is let in by a principal extractor (the request extension, a
header check, `verify_session` at the host) and is then one task, which runs turns,
model calls, validations and executions until the peer leaves. `delivery[s]` is
the webhook call the task awaits (`sent`, `body` once its status line is read, `backoff`
between two attempts), `llm[s]` the model call whose stream it owns. `TaskDropped`
is a drop at any of these awaits: the guards (`SessionSpan`, `LlmSpan`) emit their event
then, a delivery has no guard and emits none. `instruments` is what `MetricsLayer`
makes of the events, as numbers; `begun` and `lost` are history: what was started, and
what dropped tasks took along. Answers, cards and streams are reduced to what the
events tell apart; their content is in the other modules.

### ClientSession

The other end of the envelope. `views`, `timers`, `awaiting`, `streams`,
`transcript` and `turns` are the private fields of `session.ts`; `queue` and
`socket` are the closure of `websocket.ts`. The agent is `AgentSession` seen from
the socket: it takes a frame when no turn runs, and what it does between two
frames is one step, since nothing it emits arrives before the client reads it.
Only a user turn takes several steps, so that the user can act in the middle of it.
`store` keeps for each card its state and the turn in which it was proposed,
`written` the number of fragments of each message; a text is the sequence of its
fragments. A route change expires the pending cards in any order: the store iterates over
their ids, which are texts and do not sort as the cards were made.

| action | code |
|---|---|
| `SendMessage`, `UpdateContext`, `Confirm`, `Reject`, `Dispose` | the public methods of `AgentSession` |
| `WorkingTimeout` | the callback of `#markWorking`'s timer |
| `ChatArrives`, `CardArrives`, `StateArrives`, `ErrorArrives` | the arms of `#onServerEvent` |
| `SocketOpens`, `SocketDies` | the `open` listener; any end of the connection, `close()` included |
| `HandleInit` to `HandleUserMessage`, `Turn` | `handle_into` and the completion loop, `agent.rs` |

`Confirm` and `Reject` are offered for any card ever shown, as the public methods
are; the timeout makes a second decision reachable in the UI kit as well. `Dispose`
only stops listening: the methods send afterwards as before. A result
is `"value"`, `"null"` (serde writes `None` as null) or `"none"` (no state change
yet). A socket that died loses any suffix of both directions and swallows what is
sent to it. Unknown states from a newer server and frames that do not parse have
no counterpart in this agent and are left out, as are events for cards that were
never shown.

## Runs

| run | expects | shows |
|---|---|---|
| `session` | pass | type correctness and safety of one session, its telemetry exact but for two silent transitions; it implements `ProposalLifecycle`; handlers return, confirmed cards settle |
| `transport` | pass | both transports: ordered delivery, init first, every turn and event accounted for, everything produced arrives; on gRPC sessions end |
| `transport_hang` | violation | a WebSocket session can outlive its peer forever |
| `bindings` | pass | calls keep order and events, a refusal is final, host functions mean the same in Node and Python, every call ends |
| `webhook` | pass | every failing seam denies, principals are echoed, at most one execution per key, certain outcomes are true, executions return; `HandlerContract` is implemented |
| `webhook_threads` | violation | the mock host can execute twice on two threads |
| `client` | pass | the client shows what store and transcript say, up to what is under way; frames keep their order; no card left working, no decision unanswered, no message left streaming |
| `client_result` | violation | a second confirm erases the result of an executed card |
| `llm` | pass | chunks are those of the answer, however it was cut; streamed and unstreamed agree; one span per call |
| `llm_utf8` | violation | a character split between two frames is damaged |
| `startup` | pass | a frozen registry is complete, what validation accepts the tools tell, and what else they admit differs from it in known ways only, bindings and builder agree, a service comes up ready or is refused for a cause in document or config |
| `telemetry` | pass | the gauge is the number of open sessions; each model call, delivery, retry and execution is counted once, also when its task is dropped |

**Bounds.** Sessions: one turn with a budget of two retries (the default) and
two chunks per completion, so that a text segment and a call, or a bad call and
a good one, meet in one completion, and two cards, so that decisions about one card cross
those about another.
Three contexts over two routes: two that differ only in the resolved record
(drift without route change) and the default one, which resolves nothing. One
mutating action with a context and an utterance param, one read-only action
without required params, one unregistered id; arguments that are good, mistyped,
missing and unknown. Transport: a queue of two and turns of up to three events,
so that a turn fills the queue and goes on; the code's 32 changes the length of
the shortest counterexample, not its existence. Three
frames: the init and two turns, or errors among them. Bindings: three calls, so that
two wait behind one that runs, refuses or panics; two events of turns, so that
events of two calls are under way at once. Webhooks: two sessions with a card each,
three attempts (the default), seven hosts that go along, deny, fail, answer nonsense
or not at all at one endpoint, from the first call or from a later one. Client:
three client events after init (a message and two decisions of its card), one card, one
message of two fragments, two routes. Models: answers of up to three items that put text,
several calls, unknown blocks and junk next to each other, with each way to end;
texts of two characters, one of them of two bytes in `llm_utf8`. Startup: a
document of two actions and two blocks and each single way it can be wrong, two params of
one name and an action called `*` among them, the same for bindings' callbacks and for the
service's config and environment, with entries that keep `{action}`, name another action
or leave a read-only action to a wildcard's dry run; a Rust program of four builder calls,
enough to register, attach, shadow and duplicate one id; calls with any of the action's
keys and one that no action has. Telemetry: two
streams with two model calls and two validations between them, two seams, two attempts
(one retry and one last attempt), a status that is a yes and one that is not, each way to
find a principal.

**Deadlock** is checked in the session run. It is not in the transport runs,
where the hang of `transport_hang` is a reachable deadlock, nor where everything
ends and the world stops: an execution that returned, a model call that is over, a
host that listens or refused, bindings with no call left, a client whose user has
nothing more to say, a service whose streams ended.

**Fairness.** `AgentSession`: the running handler is polled and its awaits resolve
(`Model \/ Pipeline`): model streams end or fail, host calls have timeouts.
Nothing is assumed of clients. `StreamTransport`: `join!` polls the agent, the
forwarder and the writer whenever they can run, a turn returns (the property
above), a connected peer reads; clients and the connection promise nothing.
`WebhookExecute`: each attempt has a timeout and each backoff ends; nothing is
assumed of the host or the network. `BindingSession`: tasks, microtasks and callbacks
run when they can, a turn ends, a host function returns, and a host pulls an
iterator it did not abandon; nobody has to call, and no worker has to panic.
`ClientSession`: a set timer fires, the browser
dispatches what it received, the agent takes its next frame (`session`
shows that its handlers return) and a turn ends; nothing is assumed of the user, and the
connection may die at any time.

## Proofs

Everything below is proved for every value of the constants that satisfies the named
assumptions of the modules, and checked by `tlapm` to the last leaf. The runs
show the same properties on the instances above.

| theorem | of | states |
|---|---|---|
| `TypeCorrect`, `CalledOnce`, `StateIsTrue`, `FirstDecision`, `ExecutesTheCard` | `AgentSession` | `TypeOK`, `AtMostOnce`, `StateTellsEffect`, `FirstDecisionWins`, `ExecutesWhatHolds` |
| `SignalsAreTrue`, `FrontendInformed`, `RetriesInformed`, `TranscriptIsComplete` | `AgentSession` | `SignalsExact`, `ClientInformed`, `RetryInformed`, `TranscriptComplete` |
| `Implementation` | `AgentSession` | `ImplementsLifecycle` |
| `Ordered`, `InitComesFirst`, `TurnsComplete` | `StreamTransport` | `OrderedDelivery`, `InitFirst`, `TurnsAccounted` |
| `CallsInOrder`, `RefusalIsFinal`, `OutcomesAgree` | `BindingSession` | `TurnsInOrder`, `ClosedIsFinal`, `HostOutcomes` |
| `ExecutedOnce`, `OutcomeHolds`, `KeepsTheContract` | `WebhookExecute` | `PerformedOnce`, `OutcomeIsTrue`, `KeepsContract`, if `Threads = 1` |
| `FailClosed`, `EchoesPrincipal` | `WebhookSession` | `SeamsFailClosed`, `PrincipalEchoed`, for any number of threads |
| `AcceptedIsComplete`, `BindingsAgree`, `ToolsAgree`, `ReadyWhenUp` | `HostStartup` | `AcceptedComplete`, `HostsAgree`, `ToolsTellValidation`, `ServiceReady` |
| `ClientInvariant`, `FirstThingsFirst`, `ViewsFollow`, `TranscriptTrue`, `DecisionsLast` | `ClientSession` | its inductive invariant; `FramesInOrder`, `ViewsTrackStore`, `TranscriptFaithful`, `DecisionsStand` |
| `SpanEndsOnce` | `LlmStreams` | `SpanOnce` |
| `SumsHold`, `InstrumentsTrue` | `ServiceTelemetry` | its inductive invariant; `InstrumentsAreTrue` |
| `SessionsExecuteOnce` | `WebhookSession` | `SessionSpec` implies the specification of `WebhookExecute`, hence its three properties, if `Threads = 1` |

**Hypotheses.** The assumptions on constants are typing and non-emptiness. One thing more
is assumed of `WebhookSession`: sessions and executions have different names (both are
identifiers the service mints, and the model keeps them in one field of a request). Of
`HostStartup`, that a parsed document holds sequences of definitions and that the flags
of a definition and a binding are Booleans, as their Rust types say (`InputsAssumption`,
`ProgramAssumption`), and that params are of the types and sources there are
(`DefinitionsAssumption`). Of its data one thing is assumed that nothing in the code checks,
that every context field, and every entry a path asks for, can be set by some context
(`ContextsAssumption`). Of a config only what its deserializer enforces is assumed: a
route is some text, whatever it says, and a slot table has sources of the kinds there are,
whose constants are values (`ConfigAssumption`). Params may share a name, an entry may keep
`{action}` or name another action's route, and an action may be called `*`.
`NoneAssumption` keeps the mark of an absent value apart from the values.
Of `LlmStreams`, that an answer is a sequence of items and a group of calls one of calls
(`AnswersAssumption`). Of `ServiceTelemetry`, that the seams of a validation are a non-empty
sequence of different endpoints (`ServiceAssumption`); the set of streams may be infinite.
`Threads = 1` is a hypothesis of the theorems that need it, not of the module: with two
threads they are false, as `webhook_threads` shows.

**AgentSession.** The types are not inductive alone: that `proposals[call.id]` exists
during a confirm depends on where the handler is suspended. `WellFormed` adds `Aligned`
(store and observers have one entry per card), `Attached` (what `call` must be at
each await: a candidate of a registered action, and for a confirm the arguments
of a card in state `confirmed`) with `Validated` (past `filling`, the params in
hand are those the present context resolves to: no step changes the context
while a handler is suspended), and `OneConfirmed` (the only card in state
`confirmed` is the one being confirmed). `Deeds` adds the four properties,
`CalledCards` (calls name cards of the store) and `Decided` (a card
beyond `validated` that was not expired was decided by the event that moved it).
The heart of the argument: `Execute` needs its card in state
`confirmed`; `StateTellsEffect` says a confirmed card was not called unless its
handler is running; so no card is called twice. `SignalsExact` needs only `Taken` besides
(no confirm was taken for a validated card, one was for a confirmed card), since the order
of a card's signals is the order of its states. The other properties about what others are told
are inductive with one addition each: `Shown` (a frontend that missed nothing shows the
store's state in the middle of a handler too, but for the confirmed card), `Segments` (an open
segment is the newest message and only a stream has one), `Budget` (completions and
the retries left add up to no more than the budget; a retry finds the failure at the
end of the history).

**ImplementsLifecycle.** The mapping is `Cards` and `Performed`: a card is what was
promised (`DeedOf`) and its phase, in which `confirmed` is *approved* until the handler
is called and *running* after. Lemmas say when a step is a stutter (`Stutter`), moves one
card (`OneMoves`) or adds one; each action of the session is then one of them, the
route change the withdrawal of all pending cards at once.

**StreamTransport.** Every event is a number. `Numbered` says that behind what was
delivered the queue, the agent's channel and the reply under way hold the next numbers
without a gap, for as long as the peer is connected; `Listening` that while it is,
nobody stopped listening, which is where the two transports differ and the proof does not.
`Books` balances the ledger while a turn runs: turns returned and the running one are the
turns begun, events queued, given up, in the agent's channel and in the reply are those
produced, and a loss belongs to the turn that runs or to a loop that is over or is about to
be.

**WebhookExecute.** The host's decision on an execution is in its section or in its cache,
for good, under the key all attempts share (`DecidedAs`). With one thread there is one
section (`OneSection`), so there is one verdict (`OneVerdict`) and every answer
repeats it (`Answerable`). A step maps to the contract by what it decides.

**WebhookSession.** What the host answers is arbitrary; the argument is which call an answer
answers. A card asks each seam once per phase (`Asked`, `Called`), so an
answer on its way is to the call the card waits for (`Answering`), and a card that
moved on has the host's yes to each seam before (`Cleared`). Only confirmed cards are
delivered (`Executing`), and calls are sent by open sessions only (`Echoed`, `Streams`).

**BindingSession.** Of the calls made, the first were begun and the queue holds the others
without a gap (`Waiting`), which also holds of the successor of a worker that panicked,
since it takes its queue along. `Sinks` places a call's events between host and channel,
`Refusals` says that a refused pump never was initialized and a worker that is gone was not
refused. `HostOutcomes` is no invariant of history but a statement about every
callback and value at once: the two translations are compared case by case.

**HostStartup.** A build matches attachments and definitions by id and by order among the
same id (`Takes`). That relation is one to one (`TakesOnce`: of two occurrences of an id the
later has more before it, `BeforeGrows`), a build without a fault met none in any of its
loops (`NoFault`, by `FirstFaultOk`), so it matches all of both sides (`Matched`), and as
ids differ (`Registered`) the set of registrations loses none (`AllCounted`,
`SchemaKept`). The invariant over the stages is small: a builder is `Wired` whatever was
called in whatever order, and once there is a registry no stage that builds lies ahead
(`Sealed`). For a binding the i-th attachment takes the i-th definition, so its own checks
and the builder's are about the same dry runs and the same repeated ids
(`AssembleAgrees`).

`ServiceReady` is about what the stages found one after the other, so the invariant adds
that what a stage that was passed found stays found (`Found`): the config resolved, the
routes cover the document, the paths parse. Once up, every stage was passed (`UpPassed`).
Where a route's text may come from is read off `Template` (`TemplateMeant`). The second half,
`RefusedForCause`, is about a service that is not up: what `build_app` attaches is one
handler per action in document order with one slot builder at most (`RouteAttachments`), so
of a document whose ids and types differ every check of the builder is passed but the one
for a dry run nobody needs (`Buildable`).
`ToolsTellValidation` compares two readings of a definition, so it is proved of every one:
per type a value that passes the check is one the schema admits, and the reverse but for a
float without a fraction (`SchemaTells`); per name the last param decides the property
(`ToolIs`, with `Greatest`); then a call without a misfit is admitted, and a misfit the schema
admits is of such a float or of a param hidden behind one of its name (`ToolTells`). The
invariant adds that whatever a builder holds is a definition (`Defined`).

**ClientSession.** The client lags behind the agent, so no property holds of what it
shows alone: the invariant says of every event on its way what it still has to bring.
`Mirrored` does so for cards: a state change under way names the state the store has, an
offer under way is of a card the client lacks and comes before all that is said of it, and
while the socket lives a card that is not shown as the store has it has such an event
under way. `DecisionsStand` rests on it: since terminal states are final in the store, no
event can overwrite one with another. `Spoken` does so for messages: behind what the
transcript has of a message, the deltas under way are its next fragments without a gap, the
final text comes after them, and an error after the final texts of all that came before
it, since the client closes its open messages on an error. In the other direction
`Ordered` says that the turns in the frames not yet handled rise to the last one typed
without a gap, and `Sent` that an init is ahead of them. A dead socket drops any suffix of
both queues; the parts of the invariant that say what must come are therefore claimed
while it lives, and those that say what may come always (`MirrorCut`, `SpokenCut`).

**LlmStreams.** The span is marked by what the caller is told, so the invariant (`SpanInv`)
relates it to `out` alone, whatever the frames, the buffer and the accumulators do. An
unstreamed call is told everything at once: that a completion is an error or has none
(`CompletedSpeaks`) needs that `FlattenSeq` returns elements of what it was given
(`FlattenSays`). Its recursion is solved by induction over the sequences appended, and the
induction by the least number not yet reached (`Least`, `Induction`).

**ServiceTelemetry.** The property is about sums over tasks: what the instruments counted,
what is under way and what dropped tasks took along add up to what was begun. A sum of ones
is the cardinality of a set of streams; a sum of numbers is the cardinality of its `Units`,
the pairs of a stream and one of the numbers up to its own. That these sets are finite is
part of the invariant (`Finite`), since only tasks that were begun are in them. `Alone` says that a step
changes the share of one stream; `Balanced` that what it changes there is what the events
it emits add to the instruments, for each sum. Every action is shown to be both
(`StepKeeps`), and one lemma carries the sums over (`SumsKept`). The equations of the
property are inductive (`Exact`), its inequalities are not: `Bounded` counts the rest.
Retries fit the attempts because what an execution has left is added to them; decisions told
do not exceed cards because the cards held and the one being decided are added; and
a principal found is an answer counted because the streams that found one, with those whose
yes still has its body to come, are no more than the deliveries of `verify_session` that
were answered with one.

**Only model-checked.** Liveness (out of the prover's reach) and what rests on it; and
`StreamFaithful` and `BufferedAgrees` of `LlmStreams`. Both are about folds: bytes to
characters, lines to events, events to chunks, chunks to the text of the answer. The
library's induction theorems take operators, which none of the provers can instantiate,
and without them each of these recursions needs an induction of its own as `FlattenSeq`
does; a theorem would also have to assume what the runs' instances choose, that characters
have one byte and that ids survive `__` (see below). No module declares a
recursive operator, so that theorems can be stated about all of them. Where a module
chooses by cases that overlap it does so with `IF`, in the order of the code's early
returns: of a `CASE` with two true guards nothing can be proved, and TLC takes the first.

## Disagreements between code and documents

1. `ws-core/lib.rs:196`: `closed` fires on every exit, the gauge cannot drift.
   A WebSocket turn of more than 32 events after the socket failed never exits
   (`ws/lib.rs:169-177`).
2. `mock_host.rs:447`: replay never executes twice. Lookup and insert are not
   atomic and the host runs on several threads.
3. `spec/SPEC.md:231`: `executed` comes with the result. The answer to a confirm of
   an executed card does not (`agent.rs:548`), and the client overwrites the result
   it had with null (`session.ts:286`).
4. `llm-anthropic/lib.rs:379`: a network chunk may split a line, so only complete
   lines leave the buffer. Each chunk is decoded on its own (378, and
   `llm-ollama/lib.rs:262`), so one that splits a character damages it.

Seen while modelling, without a run of their own:

* `serve/config.rs:304`, `312`: a resolved action has a dry-run route iff it mutates,
  and what resolved is all `build_app` needs. The wildcard's dry run goes to
  read-only actions too (388), which the builder refuses (`core/registry.rs:586`);
  no entry can opt out, and `example.cleverhans.toml:58` has such a wildcard. In
  `startup` such a config resolves and the `build` stage refuses it.
* `docs/hosting-webhooks.md:214` and `core/telemetry.rs:26`: the proposals
  counter mirrors the state machine. Route-change expiry has no signal
  (`agent.rs:287`), and confirmed has none: `HandleContextUpdate` leaves `signals` as it is.
  `SignalsExact` names these two exceptions and admits no other; the counter's `expired` is
  therefore the expiries of confirmed cards, and cards withdrawn by a route change stay
  `validated` for it.
* `agent.rs:311`: a provider error on a retry declines. It does when the stream
  cannot be opened (`CompletionFails`); an error within the stream is surfaced
  (`agent.rs:386`, `StreamBreaks`).
* `session.ts:98`: `null` disables the working guard. The constructor's `??`
  (130) replaces null by the default, so nothing disables it (`EffectiveTimeout`).
* `llm-anthropic/lib.rs:12-16`: an id with `__` decodes to one that fails validation
  as unknown. Where the decoded id is registered too (`a__b` beside `a.b`) the model's
  call goes to that action instead. No action of the repository has such an id,
  and the instances use none.
* `index.ts:154`: `handleCollect` returns the whole turn. The callbacks and the
  promise are separate threadsafe functions, and nothing in the binding orders the
  last callback before the resolution.
* `client.rs:157`: an answered call is never retried. It is when its body breaks
  off after the status line (`client.rs:314`); keys make this harmless with a
  conforming host (`TimesOut` stands for both).
* `session.ts:33`, `261`: a card belongs to the user turn it answers. It is kept
  with the last user entry at the moment it arrives; `ViewsTrackStore` says what
  remains true (it is never anchored before the turn it was proposed in).
* `core/registry.rs:308`: the params of an action may share a name, no gate or build check
  refuses it. The schema shown to the model then has the last of them, while
  `fill_params` (`core/validation.rs:147`) checks the value against each
  (`StricterThanShown`).
* `core/registry.rs:316-320`: the schema shown to the model forbids no other property, and
  no provider adds that. A call with an undeclared key, a context param's included, keeps to
  the schema, and `fill_params` refuses it (`core/validation.rs:183-189`). The failure is one the
  model is told of and may correct, at the price of a retry; `ToolsTellValidation` says
  that this, the floats without a fraction and the shared names are all there is.
* `serve/config.rs:253`: `{action}` is substituted in the wildcard's routes. In an action's own
  entry it stays as it is (375-380), `Route` parses it (`webhook/client.rs:32-46`), and the
  service comes up and posts to a path with `{action}` in it; nor is it checked that an
  entry's route names its own action (`RouteMeant`).
* `session.ts:228`: any server event means the agent has started responding. It
  may belong to an earlier turn or decision, and then the client goes idle with a
  message still waiting.

## Plan

Done: all modules and theorems of the tables above. Next:

1. Proofs: `StreamFaithful` of `LlmStreams`, fold by fold.
2. Two webhook sessions whose cards compete for one script counter under a host
   with more threads.
3. An abstract event stream that both `StreamTransport` and `BindingSession`
   implement.

Not modelled: the code generator, UI kit, demos, playground, evals and palette
(no run-time state of a session), the arithmetic of request signing
(cryptography; `trust` is its outcome), the conformance runners (they replay
fixtures), protobuf and JSON conversion and OTEL export (formatting and I/O).
