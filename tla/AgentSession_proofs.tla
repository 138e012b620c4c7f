------------------------ MODULE AgentSession_proofs ------------------------
EXTENDS AgentSession, TLAPS

(* Filling yields a params map when no param failed.                        *)
LEMMA FillIsArguments ==
  ASSUME NEW a \in Actions, NEW args \in Arguments, NEW c \in Contexts
  PROVE  Fill(a, args, c) \in Arguments
<1> DEFINE specs == Def[a].params
           filled == {i \in DOMAIN specs : SpecValue(args, c, specs[i]) # None}
           names == {specs[i].name : i \in filled}
           at1(n) == CHOOSE i \in filled : specs[i].name = n
<1>1. specs \in Seq(ParamSpec)
  BY ActionAssumption
<1>2. PICK S \in SUBSET ParamNames : args \in [S -> Values]
  BY DEF Arguments
<1>3. \A i \in DOMAIN specs : SpecValue(args, c, specs[i]) \in Values \cup {None}
  <2> SUFFICES ASSUME NEW i \in DOMAIN specs
               PROVE  SpecValue(args, c, specs[i]) \in Values \cup {None}
    OBVIOUS
  <2>1. specs[i] \in ParamSpec
    BY <1>1
  <2> QED
    BY <2>1, <1>2, ContextAssumption DEF SpecValue, ParamSpec
<1>4. names \in SUBSET ParamNames
  <2> SUFFICES ASSUME NEW i \in filled
               PROVE  specs[i].name \in ParamNames
    OBVIOUS
  <2>1. specs[i] \in ParamSpec
    BY <1>1
  <2> QED
    BY <2>1 DEF ParamSpec
<1>5. \A n \in names : SpecValue(args, c, specs[at1(n)]) \in Values
  <2> SUFFICES ASSUME NEW n \in names
               PROVE  SpecValue(args, c, specs[at1(n)]) \in Values
    OBVIOUS
  <2>1. at1(n) \in filled
    OBVIOUS
  <2> QED
    BY <2>1, <1>3
<1>6. Fill(a, args, c) = [n \in names |-> SpecValue(args, c, specs[at1(n)])]
  BY DEF Fill
<1> HIDE DEF names, at1
<1>7. Fill(a, args, c) \in [names -> Values]
  BY <1>5, <1>6
<1> QED
  BY <1>4, <1>7 DEF Arguments

(* Only a registered action fills without failure.                          *)
LEMMA OkIsRegistered ==
  ASSUME NEW a, NEW args, NEW c, FillFailure(a, args, c) = "ok"
  PROVE  a \in Actions
BY DEF FillFailure

(* The empty params map is an argument map.                                 *)
LEMMA NoParamsType == NoParams \in Arguments
<1>1. NoParams \in [{} -> Values]
  BY DEF NoParams
<1> QED
  BY <1>1 DEF Arguments

-----------------------------------------------------------------------------
(* What the updates of `client`, `call` and `turn` preserve.                *)

(* Recording a card's state, a delta or an error keeps `client` well typed. *)
LEMMA ClientUpdates ==
  ASSUME NEW c \in ClientType, NEW s \in States, NEW i \in DOMAIN c.told
  PROVE  /\ WithState(c, i, s) \in ClientType
         /\ Len(WithState(c, i, s).told) = Len(c.told)
<1>1. c.told \in Seq(States \cup {"none"})
  BY DEF ClientType
<1>2. /\ [c.told EXCEPT ![i] = s] \in Seq(States \cup {"none"})
      /\ Len([c.told EXCEPT ![i] = s]) = Len(c.told)
  BY <1>1
<1>3. WithState(c, i, s) = [c EXCEPT !.told = [c.told EXCEPT ![i] = s]]
  BY DEF WithState
<1> QED
  BY <1>2, <1>3 DEF ClientType

(* Opening and closing message segments keeps `client` well typed.          *)
LEMMA ClientMessages ==
  ASSUME NEW c \in ClientType, NEW m \in Nat
  PROVE  /\ WithDelta(c, m) \in ClientType
         /\ WithDone(c, m) \in ClientType
         /\ WithLlmError(c) \in ClientType
         /\ WithDelta(c, m).told = c.told
         /\ WithDone(c, m).told = c.told
         /\ WithLlmError(c).told = c.told
<1>1. /\ c.open \cup {m} \in SUBSET Nat
      /\ c.open \ {m} \in SUBSET Nat
      /\ Append(c.transcript, m) \in Seq(Nat)
  BY DEF ClientType
<1>2. WithDelta(c, m) \in ClientType /\ WithDelta(c, m).told = c.told
  BY <1>1 DEF ClientType, WithDelta
<1>3. WithDone(c, m) \in ClientType /\ WithDone(c, m).told = c.told
  BY <1>1 DEF ClientType, WithDone
<1>4. WithLlmError(c) \in ClientType /\ WithLlmError(c).told = c.told
  BY DEF ClientType, WithLlmError
<1> QED
  BY <1>2, <1>3, <1>4

(* An event, delivered or lost, keeps `client` well typed.                  *)
LEMMA DeliverType ==
  ASSUME client \in ClientType, NEW alive \in BOOLEAN, NEW u \in ClientType,
         Deliver(alive, u)
  PROVE  /\ client' \in ClientType
         /\ client'.told = u.told \/ client'.told = client.told
BY DEF Deliver, ClientType

(* A handler that returns leaves well-typed locals.                         *)
LEMMA ReturnType ==
  ASSUME Return
  PROVE  at' \in Stages /\ call' \in CallType /\ turn' \in TurnType /\ receiver' \in BOOLEAN
BY NoParamsType, BoundAssumption
   DEF Return, Stages, NoCall, NoTurn, CallType, TurnType

(* The legality table only names states, so a transition keeps the store    *)
(* and its telemetry well typed and equally long.                           *)
LEMMA TransitionType ==
  ASSUME proposals \in Seq(Proposal), signals \in Seq(Seq(States)),
         NEW i \in DOMAIN proposals, i \in DOMAIN signals,
         NEW s \in States, Transition(i, s)
  PROVE  /\ proposals' \in Seq(Proposal) /\ Len(proposals') = Len(proposals)
         /\ signals' \in Seq(Seq(States)) /\ Len(signals') = Len(signals)
<1>1. [proposals[i] EXCEPT !.state = s] \in Proposal
  <2>1. proposals[i] \in Proposal
    OBVIOUS
  <2> QED
    BY <2>1 DEF Proposal
<1>2. CASE CanTransition(proposals[i].state, s)
  <2> DEFINE card == [proposals[i] EXCEPT !.state = s]
  <2>1. proposals' = [proposals EXCEPT ![i] = card]
    BY <1>2 DEF Transition
  <2> DEFINE said == Append(signals[i], s)
  <2>2. signals' = [signals EXCEPT ![i] = said] /\ said \in Seq(States)
    BY <1>2 DEF Transition
  <2> HIDE DEF said
  <2>3. signals' \in Seq(Seq(States)) /\ Len(signals') = Len(signals)
    BY <2>2
  <2>4. card \in Proposal
    BY <1>1
  <2> HIDE DEF card
  <2> QED
    BY <2>1, <2>3, <2>4
<1>3. CASE ~CanTransition(proposals[i].state, s)
  BY <1>3 DEF Transition
<1> QED
  BY <1>2, <1>3

(* A transition touches the state of one card and nothing else of the store. *)
LEMMA TransitionKeeps ==
  ASSUME proposals \in Seq(Proposal), NEW i \in DOMAIN proposals, NEW s \in States,
         Transition(i, s), NEW j \in DOMAIN proposals
  PROVE  /\ j # i => proposals'[j] = proposals[j]
         /\ proposals'[j].action = proposals[j].action
         /\ proposals'[j].params = proposals[j].params
         /\ j = i /\ CanTransition(proposals[i].state, s) => proposals'[j].state = s
<1>1. proposals[i] \in Proposal /\ proposals[j] \in Proposal
  OBVIOUS
<1>2. CASE CanTransition(proposals[i].state, s)
  <2>1. proposals' = [proposals EXCEPT ![i] = [proposals[i] EXCEPT !.state = s]]
    BY <1>2 DEF Transition
  <2> QED
    BY <1>1, <2>1 DEF Proposal
<1>3. CASE ~CanTransition(proposals[i].state, s)
  BY <1>3 DEF Transition
<1> QED
  BY <1>2, <1>3

(* Noting the first decision on a card keeps the decisions well typed.      *)
LEMMA DecideType ==
  ASSUME decision \in Seq({"none", "confirm", "reject"}),
         NEW i \in DOMAIN decision, NEW d \in {"confirm", "reject"}, Decide(i, d)
  PROVE  /\ decision' \in Seq({"none", "confirm", "reject"})
         /\ Len(decision') = Len(decision)
<1>1. CASE decision[i] = "none"
  <2>1. decision' = [decision EXCEPT ![i] = d]
    BY <1>1 DEF Decide
  <2> QED
    BY <2>1
<1>2. CASE decision[i] # "none"
  BY <1>2 DEF Decide
<1> QED
  BY <1>1, <1>2

(* Closing messages change what the frontend was told of no card.           *)
LEMMA MessagesType ==
  ASSUME client \in ClientType, msgCounter \in Nat, turn \in TurnType,
         receiver \in BOOLEAN
  PROVE  /\ Decline => /\ msgCounter' \in Nat
                       /\ client' \in ClientType /\ client'.told = client.told
         /\ Flush => client' \in ClientType /\ client'.told = client.told
<1>1. ASSUME Decline
      PROVE  /\ msgCounter' \in Nat
             /\ client' \in ClientType /\ client'.told = client.told
  <2>1. msgCounter + 1 \in Nat /\ msgCounter' = msgCounter + 1
    BY <1>1 DEF Decline
  <2>2. Deliver(receiver, WithDone(client, msgCounter + 1))
    BY <1>1 DEF Decline
  <2> QED
    BY <2>1, <2>2, ClientMessages, DeliverType
<1>2. ASSUME Flush
      PROVE  client' \in ClientType /\ client'.told = client.told
  <2>1. CASE turn.segment = 0
    BY <1>2, <2>1 DEF Flush
  <2>2. CASE turn.segment # 0
    <3>1. turn.segment \in Nat
      BY DEF TurnType
    <3>2. Deliver(receiver, WithDone(client, turn.segment))
      BY <1>2, <2>2 DEF Flush
    <3> QED
      BY <3>1, <3>2, ClientMessages, DeliverType
  <2> QED
    BY <2>1, <2>2
<1> QED
  BY <1>1, <1>2

(* Telling the frontend a card's state keeps `client` well typed.           *)
LEMMA InformType ==
  ASSUME client \in ClientType, NEW alive \in BOOLEAN,
         NEW i \in DOMAIN client.told, NEW s \in States,
         Deliver(alive, WithState(client, i, s))
  PROVE  client' \in ClientType /\ Len(client'.told) = Len(client.told)
BY ClientUpdates, DeliverType

-----------------------------------------------------------------------------
(* The inductive invariant. The store, the decisions, the telemetry and the *)
(* frontend count the same cards; the running handler's candidate belongs   *)
(* to the await it is suspended on; and exactly the card a handler is       *)
(* revalidating or executing is confirmed.                                  *)

Aligned ==
  /\ Len(decision) = Len(proposals)
  /\ Len(signals) = Len(proposals)
  /\ Len(client.told) = Len(proposals)

Validated == {"authz", "dryRun", "slots", "executing"}

Attached ==
  /\ call.purpose = "none" <=> at \in {"idle", "completing", "streaming"}
  /\ at = "executing" => call.purpose = "confirm"
  /\ at \in Validated => FillFailure(call.action, call.args, context) = "ok"
                        /\ call.params = Fill(call.action, call.args, context)
  /\ call.purpose = "confirm" => /\ call.id \in DOMAIN proposals
                                 /\ proposals[call.id].action = call.action
                                 /\ proposals[call.id].args = call.args

OneConfirmed ==
  \A i \in DOMAIN proposals :
    proposals[i].state = "confirmed" <=> call.purpose = "confirm" /\ call.id = i

WellFormed == TypeOK /\ Aligned /\ Attached /\ OneConfirmed

(* A new session is well formed.                                            *)
LEMMA WellFormedInit == Init => WellFormed
<1> SUFFICES ASSUME Init PROVE WellFormed
  OBVIOUS
<1>1. call \in CallType
  BY NoParamsType DEF Init, NoCall, CallType
<1>2. turn \in TurnType
  BY BoundAssumption DEF Init, NoTurn, TurnType
<1>3. client \in ClientType
  BY DEF Init, ClientType
<1>4. TypeOK
  BY <1>1, <1>2, <1>3, ContextAssumption, BoundAssumption DEF Init, TypeOK, Stages
<1>5. Aligned /\ Attached /\ OneConfirmed
  BY DEF Init, Aligned, Attached, OneConfirmed, NoCall, Validated
<1> QED
  BY <1>4, <1>5 DEF WellFormed

(* Confirm-time expiry keeps everything well formed.                        *)
LEMMA ConfirmExpiresWellFormed ==
  ASSUME WellFormed, call.purpose = "confirm", ConfirmExpires,
         UNCHANGED <<context, turns, calls, decision, accepted>>
  PROVE  WellFormed'
<1>0. PICK i \in DOMAIN proposals : i = call.id
  BY DEF WellFormed, Attached
<1>1. i \in DOMAIN proposals /\ i \in DOMAIN signals /\ i \in DOMAIN client.told
  BY DEF WellFormed, Aligned, TypeOK, ClientType
<1>2. /\ Transition(i, "expired")
      /\ Deliver(receiver, WithState(client, i, "expired"))
      /\ "expired" \in States
  BY <1>0 DEF ConfirmExpires, Transition, Deliver, WithState, States
<1>3. /\ proposals' \in Seq(Proposal) /\ Len(proposals') = Len(proposals)
      /\ signals' \in Seq(Seq(States)) /\ Len(signals') = Len(signals)
  <2>1. proposals \in Seq(Proposal) /\ signals \in Seq(Seq(States))
    BY DEF WellFormed, TypeOK
  <2>2. "expired" \in States
    BY DEF States
  <2>3. Transition(i, "expired")
    BY <1>2
  <2> QED
    BY <1>1, <2>1, <2>2, <2>3, TransitionType
<1>4. client' \in ClientType /\ Len(client'.told) = Len(client.told)
  BY <1>1, <1>2, InformType DEF WellFormed, TypeOK
<1>5. \A j \in DOMAIN proposals : proposals'[j].state # "confirmed"
  <2> SUFFICES ASSUME NEW j \in DOMAIN proposals
               PROVE  proposals'[j].state # "confirmed"
    OBVIOUS
  <2>1. proposals \in Seq(Proposal) /\ "expired" \in States
    BY DEF WellFormed, TypeOK, States
  <2>2. CASE j = i
    <3>1. CanTransition(proposals[i].state, "expired")
      BY <1>0 DEF WellFormed, OneConfirmed, CanTransition
    <3> QED
      BY <1>2, <2>1, <2>2, <3>1, TransitionKeeps
  <2>3. CASE j # i
    <3>1. proposals'[j] = proposals[j]
      BY <1>2, <2>1, <2>3, TransitionKeeps
    <3> QED
      BY <2>3, <1>0, <3>1 DEF WellFormed, OneConfirmed
  <2> QED
    BY <2>2, <2>3
<1>6. Return
  BY DEF ConfirmExpires
<1>7. TypeOK'
  BY <1>3, <1>4, <1>6, ReturnType DEF WellFormed, TypeOK, ConfirmExpires
<1>8. Aligned'
  BY <1>3, <1>4 DEF WellFormed, Aligned
<1>9. Attached'
  BY <1>6 DEF Return, NoCall, Attached, Validated
<1>10. OneConfirmed'
  <2>1. DOMAIN proposals' = DOMAIN proposals
    BY <1>3 DEF WellFormed, TypeOK
  <2>2. call'.purpose = "none"
    BY <1>6 DEF Return, NoCall
  <2> QED
    BY <1>5, <2>1, <2>2 DEF OneConfirmed
<1> QED
  BY <1>7, <1>8, <1>9, <1>10 DEF WellFormed

(* A failed proposal creates no card; it is retried or declined.            *)
LEMMA ProposeFailsWellFormed ==
  ASSUME WellFormed, call.purpose = "propose", NEW failure, ProposeFails(failure),
         UNCHANGED <<context, turns, calls, decision, accepted>>
  PROVE  WellFormed'
<1>1. lastTurn' = "failure" /\ UNCHANGED <<proposals, signals>>
  BY DEF ProposeFails, RecordFailure
<1>2. CASE MayRetry(failure)
  <2>1. turn' = [turn EXCEPT !.retries = turn.retries - 1, !.fixing = TRUE,
                   !.completions = IF turn.completions > MaxRetries + 1 THEN turn.completions
                                   ELSE turn.completions + 1]
        /\ turn.retries > 0 /\ call' = NoCall /\ Continue("completing")
        /\ UNCHANGED <<msgCounter, client>>
    BY <1>2 DEF ProposeFails, MayRetry, RetriesAfter
  <2>2. turn' \in TurnType
    <3>1. turn \in TurnType
      BY DEF WellFormed, TypeOK
    <3>2. turn.retries - 1 \in 0 .. MaxRetries
      BY <2>1, <3>1, BoundAssumption DEF TurnType
    <3>3. (IF turn.completions > MaxRetries + 1 THEN turn.completions
           ELSE turn.completions + 1) \in Nat
      BY <3>1 DEF TurnType
    <3> QED
      BY <2>1, <3>1, <3>2, <3>3 DEF TurnType
  <2>3. call' \in CallType
    BY <2>1, NoParamsType DEF NoCall, CallType
  <2>4. TypeOK'
    BY <1>1, <2>1, <2>2, <2>3 DEF WellFormed, TypeOK, Continue, Stages
  <2>5. Aligned' /\ Attached' /\ OneConfirmed'
    BY <1>1, <2>1
       DEF WellFormed, Aligned, Attached, OneConfirmed, Continue, NoCall, Validated
  <2> QED
    BY <2>4, <2>5 DEF WellFormed
<1>3. CASE ~MayRetry(failure)
  <2>1. Decline /\ call' = NoCall /\ turn' \in TurnType
        /\ at' \in {"idle", "streaming"} /\ receiver' \in BOOLEAN
    BY <1>3, ReturnType DEF ProposeFails, WellFormed, TypeOK, Continue, Return
  <2>2. msgCounter' \in Nat /\ client' \in ClientType /\ client'.told = client.told
    BY <2>1, MessagesType DEF WellFormed, TypeOK
  <2>3. call' \in CallType
    BY <2>1, NoParamsType DEF NoCall, CallType
  <2>4. TypeOK'
    BY <1>1, <2>1, <2>2, <2>3 DEF WellFormed, TypeOK, Stages
  <2>5. Aligned' /\ Attached' /\ OneConfirmed'
    BY <1>1, <2>1, <2>2 DEF WellFormed, Aligned, Attached, OneConfirmed, NoCall, Validated
  <2> QED
    BY <2>4, <2>5 DEF WellFormed
<1> QED
  BY <1>2, <1>3

(* A failed validation keeps the session well formed.                       *)
LEMMA InvalidWellFormed ==
  ASSUME WellFormed, call.purpose # "none", NEW failure, Invalid(failure)
  PROVE  WellFormed'
<1>1. UNCHANGED <<context, turns, calls, decision, accepted>>
  BY DEF Invalid
<1>2. CASE call.purpose = "propose"
  BY <1>1, <1>2, ProposeFailsWellFormed DEF Invalid
<1>3. CASE call.purpose = "confirm"
  BY <1>1, <1>3, ConfirmExpiresWellFormed DEF Invalid
<1> QED
  BY <1>2, <1>3 DEF WellFormed, TypeOK, CallType

-----------------------------------------------------------------------------
(* Every client event keeps the session well formed.                        *)
LEMMA ClientEventWellFormed ==
  ASSUME WellFormed, ClientEvent
  PROVE  WellFormed'
<1> USE DEF WellFormed
<1>1. ASSUME NEW c \in Contexts, HandleInit(c)
      PROVE  WellFormed'
  BY <1>1 DEF HandleInit, TypeOK, Aligned, Attached, OneConfirmed, Validated, observerVars
<1>2. ASSUME NEW c \in Contexts, NEW alive \in BOOLEAN, HandleContextUpdate(c, alive)
      PROVE  WellFormed'
  <2> DEFINE expired == [j \in DOMAIN proposals |->
               IF j \in Pending THEN [proposals[j] EXCEPT !.state = "expired"]
               ELSE proposals[j]]
             informed == [j \in DOMAIN proposals |->
               IF j \in Pending THEN "expired" ELSE client.told[j]]
  <2>1. /\ at = "idle" /\ call.purpose = "none" /\ context' = c
        /\ UNCHANGED <<msgCounter, lastTurn, at, call, turn, receiver, turns,
                       calls, decision, accepted, signals>>
    BY <1>2 DEF HandleContextUpdate, Attached
  <2>2. CASE UNCHANGED <<proposals, client>>
    BY <2>1, <2>2 DEF TypeOK, Aligned, Attached, OneConfirmed, Validated
  <2>3. CASE proposals' = expired /\ TellExpired(alive)
    <3>1. proposals \in Seq(Proposal) /\ client \in ClientType
      BY DEF TypeOK
    <3>2. \A j \in DOMAIN proposals : /\ expired[j] \in Proposal
                                      /\ expired[j].state # "confirmed"
      <4> SUFFICES ASSUME NEW j \in DOMAIN proposals
                   PROVE  expired[j] \in Proposal /\ expired[j].state # "confirmed"
        OBVIOUS
      <4>1. proposals[j] \in Proposal /\ proposals[j].state # "confirmed"
        BY <2>1, <3>1 DEF OneConfirmed
      <4> QED
        BY <4>1 DEF Proposal, States
    <3>3. expired \in Seq(Proposal) /\ Len(expired) = Len(proposals)
      <4>1. DOMAIN expired = 1 .. Len(proposals) /\ Len(proposals) \in Nat
        BY <3>1
      <4> QED
        BY <3>2, <4>1
    <3>4. informed \in Seq(States \cup {"none"}) /\ Len(informed) = Len(proposals)
      <4>1. \A j \in DOMAIN proposals : informed[j] \in States \cup {"none"}
        BY <3>1 DEF ClientType, Aligned, States
      <4>2. DOMAIN informed = 1 .. Len(proposals) /\ Len(proposals) \in Nat
        BY <3>1
      <4> QED
        BY <4>1, <4>2
    <3> HIDE DEF expired, informed
    <3>5. client' \in ClientType /\ Len(client'.told) = Len(proposals)
      <4>1. client' = IF alive THEN [client EXCEPT !.told = informed]
                      ELSE [client EXCEPT !.missed = TRUE]
        BY <2>3 DEF TellExpired, Deliver, informed
      <4> QED
        BY <3>1, <3>4, <4>1 DEF ClientType, Aligned
    <3>6. TypeOK'
      BY <2>1, <2>3, <3>3, <3>5 DEF TypeOK
    <3>7. Aligned'
      BY <2>1, <2>3, <3>3, <3>5 DEF Aligned
    <3>8. Attached'
      BY <2>1 DEF Attached, Validated
    <3>9. OneConfirmed'
      BY <2>1, <2>3, <3>2, <3>3 DEF OneConfirmed, expired
    <3> QED
      BY <3>6, <3>7, <3>8, <3>9
  <2> QED
    BY <1>2, <2>2, <2>3 DEF HandleContextUpdate
<1>3. ASSUME NEW alive \in BOOLEAN, HandleUserMessage(alive)
      PROVE  WellFormed'
  <2>1. turn' \in TurnType
    <3>1. turn' = [retries |-> MaxRetries, fixing |-> FALSE, segment |-> 0,
                   completions |-> 1, chunks |-> 0]
      BY <1>3 DEF HandleUserMessage, NoTurn
    <3>2. MaxRetries \in 0 .. MaxRetries
      BY BoundAssumption
    <3> QED
      BY <3>1, <3>2 DEF TurnType
  <2>2. client' \in ClientType /\ client'.told = client.told
    BY <1>3 DEF HandleUserMessage, TypeOK, ClientType
  <2>3. TypeOK'
    BY <1>3, <2>1, <2>2, BoundAssumption DEF HandleUserMessage, TypeOK, Stages
  <2>4. Aligned' /\ Attached' /\ OneConfirmed'
    BY <1>3, <2>2 DEF HandleUserMessage, Aligned, Attached, OneConfirmed, Validated
  <2> QED
    BY <2>3, <2>4
<1>4. ASSUME NEW alive \in BOOLEAN, NEW i \in DOMAIN proposals, HandleConfirm(i, alive)
      PROVE  WellFormed'
  <2>1. /\ proposals[i] \in Proposal /\ i \in DOMAIN decision
        /\ i \in DOMAIN client.told /\ i \in Nat
    BY DEF TypeOK, Aligned, ClientType
  <2>2. decision' \in Seq({"none", "confirm", "reject"}) /\ Len(decision') = Len(decision)
    BY <1>4, <2>1, DecideType DEF HandleConfirm, TypeOK
  <2>3. at = "idle" /\ call.purpose = "none" /\ Decide(i, "confirm")
        /\ UNCHANGED <<context, msgCounter, lastTurn, turn, turns, calls, signals>>
    BY <1>4 DEF HandleConfirm, Attached
  <2>4. CASE ~Confirmable(i)
    <3>1. /\ Deliver(alive, WithState(client, i, proposals[i].state))
          /\ UNCHANGED <<proposals, at, call, receiver, accepted>>
          /\ proposals[i].state \in States
      BY <1>4, <2>1, <2>4 DEF HandleConfirm, Proposal
    <3>2. client' \in ClientType /\ Len(client'.told) = Len(client.told)
      <4>1. PICK t \in States : t = proposals[i].state
        BY <3>1
      <4>2. Deliver(alive, WithState(client, i, t))
        BY <3>1, <4>1 DEF Deliver, WithState
      <4> QED
        BY <2>1, <4>2, InformType DEF TypeOK
    <3>3. TypeOK'
      BY <2>2, <2>3, <3>1, <3>2 DEF TypeOK
    <3>4. Aligned' /\ Attached' /\ OneConfirmed'
      BY <2>2, <2>3, <3>1, <3>2 DEF Aligned, Attached, OneConfirmed, Validated
    <3> QED
      BY <3>3, <3>4
  <2>5. CASE Confirmable(i)
    <3> DEFINE card == [proposals[i] EXCEPT !.state = "confirmed"]
    <3>1. /\ receiver' = alive /\ at' = "filling" /\ UNCHANGED client
          /\ proposals' = [proposals EXCEPT ![i] = card]
          /\ call' = [purpose |-> "confirm", id |-> i, action |-> proposals[i].action,
                      args |-> proposals[i].args, params |-> NoParams]
      BY <1>4, <2>5 DEF HandleConfirm
    <3>11. accepted' \subseteq Nat
      BY <1>4, <2>1, <2>5 DEF HandleConfirm, TypeOK
    <3>2. /\ card \in Proposal /\ card.state = "confirmed"
          /\ card.action = proposals[i].action /\ card.args = proposals[i].args
      BY <2>1 DEF Proposal, States
    <3>3. call' \in CallType
      BY <2>1, <3>1, NoParamsType, ActionAssumption DEF CallType, Proposal
    <3> HIDE DEF card
    <3>4. /\ proposals' \in Seq(Proposal) /\ Len(proposals') = Len(proposals)
          /\ DOMAIN proposals' = DOMAIN proposals
      BY <3>1, <3>2 DEF TypeOK
    <3>5. TypeOK'
      BY <2>2, <2>3, <3>1, <3>11, <3>3, <3>4 DEF TypeOK, Stages
    <3>6. Aligned' /\ Attached'
      BY <2>2, <2>3, <3>1, <3>2, <3>4 DEF Aligned, Attached, Validated
    <3>7. OneConfirmed'
      BY <2>3, <3>1, <3>2, <3>4 DEF OneConfirmed
    <3> QED
      BY <3>5, <3>6, <3>7
  <2> QED
    BY <2>4, <2>5
<1>5. ASSUME NEW alive \in BOOLEAN, NEW i \in DOMAIN proposals, HandleReject(i, alive)
      PROVE  WellFormed'
  <2>1. /\ i \in DOMAIN decision /\ i \in DOMAIN signals /\ i \in DOMAIN client.told
        /\ proposals \in Seq(Proposal) /\ signals \in Seq(Seq(States))
        /\ "rejected" \in States
    BY DEF TypeOK, Aligned, ClientType, States
  <2>2. decision' \in Seq({"none", "confirm", "reject"}) /\ Len(decision') = Len(decision)
    BY <1>5, <2>1, DecideType DEF HandleReject, TypeOK
  <2>3. /\ at = "idle" /\ call.purpose = "none" /\ Transition(i, "rejected")
        /\ UNCHANGED <<context, msgCounter, at, call, turn, receiver, turns, calls, accepted>>
        /\ lastTurn' \in {"rejected", lastTurn}
    BY <1>5 DEF HandleReject, Attached
  <2>4. /\ proposals' \in Seq(Proposal) /\ Len(proposals') = Len(proposals)
        /\ signals' \in Seq(Seq(States)) /\ Len(signals') = Len(signals)
        /\ DOMAIN proposals' = DOMAIN proposals
    BY <2>1, <2>3, TransitionType
  <2>5. client' \in ClientType /\ Len(client'.told) = Len(client.told)
    BY <1>5, <2>1, InformType DEF HandleReject, TypeOK
  <2>6. \A j \in DOMAIN proposals : proposals'[j].state # "confirmed"
    <3> SUFFICES ASSUME NEW j \in DOMAIN proposals
                 PROVE  proposals'[j].state # "confirmed"
      OBVIOUS
    <3>1. proposals[j].state # "confirmed"
      BY <2>3 DEF OneConfirmed
    <3>2. CASE j = i /\ CanTransition(proposals[i].state, "rejected")
      BY <2>1, <2>3, <3>2, TransitionKeeps
    <3>3. CASE ~CanTransition(proposals[i].state, "rejected")
      BY <2>3, <3>1, <3>3 DEF Transition
    <3>4. CASE j # i
      BY <2>1, <2>3, <3>1, <3>4, TransitionKeeps
    <3> QED
      BY <3>2, <3>3, <3>4
  <2>7. TypeOK'
    BY <2>2, <2>3, <2>4, <2>5 DEF TypeOK
  <2>8. Aligned' /\ Attached' /\ OneConfirmed'
    BY <2>2, <2>3, <2>4, <2>5, <2>6 DEF Aligned, Attached, OneConfirmed, Validated
  <2> QED
    BY <2>7, <2>8
<1> QED
  BY <1>1, <1>2, <1>3, <1>4, <1>5 DEF ClientEvent

(* A handler that returns without touching the store leaves it well formed. *)
LEMMA ReturnWellFormed ==
  ASSUME WellFormed, Return, call.purpose # "confirm",
         UNCHANGED <<context, proposals, turns, calls, decision, accepted, signals>>,
         msgCounter' \in Nat, lastTurn' \in {lastTurn, "assistant"},
         client' \in ClientType, client'.told = client.told
  PROVE  WellFormed'
<1>1. call'.purpose = "none" /\ at' = "idle"
  BY DEF Return, NoCall
<1>2. TypeOK'
  BY ReturnType DEF WellFormed, TypeOK
<1>3. Aligned' /\ Attached' /\ OneConfirmed'
  BY <1>1 DEF WellFormed, Aligned, Attached, OneConfirmed, Validated
<1> QED
  BY <1>2, <1>3 DEF WellFormed

(* A handler that streams on, or goes to validate a new candidate.          *)
LEMMA ContinueWellFormed ==
  ASSUME WellFormed, at' \in {"streaming", "filling"}, UNCHANGED receiver,
         call.purpose # "confirm", call' \in CallType,
         call'.purpose = IF at' = "filling" THEN "propose" ELSE "none",
         UNCHANGED <<context, proposals, turns, calls, decision, accepted, signals>>,
         msgCounter' \in Nat, lastTurn' \in {lastTurn, "assistant"},
         turn' \in TurnType, client' \in ClientType, client'.told = client.told
  PROVE  WellFormed'
<1>1. TypeOK'
  BY DEF WellFormed, TypeOK, Stages
<1>2. Aligned' /\ Attached' /\ OneConfirmed'
  BY DEF WellFormed, Aligned, Attached, OneConfirmed, Validated
<1> QED
  BY <1>1, <1>2 DEF WellFormed

(* The completion loop keeps the session well formed.                       *)
LEMMA ModelWellFormed ==
  ASSUME WellFormed, Model
  PROVE  WellFormed'
<1> DEFINE frame == UNCHANGED <<context, proposals, turns, calls, decision, accepted, signals>>
<1>0. /\ client \in ClientType /\ turn \in TurnType /\ call \in CallType
      /\ receiver \in BOOLEAN /\ msgCounter \in Nat /\ turn.segment \in Nat
  BY DEF WellFormed, TypeOK, TurnType
<1>chunk. ASSUME NEW s \in Nat
          PROVE  [turn EXCEPT !.segment = s, !.chunks = turn.chunks + 1] \in TurnType
  <2>1. turn.chunks + 1 \in Nat
    BY <1>0 DEF TurnType
  <2> QED
    BY <1>0, <2>1 DEF TurnType
<1>idle. at \in {"completing", "streaming"} => call.purpose = "none"
  BY DEF WellFormed, Attached
<1>flushed. FlushedTurn \in {lastTurn, "assistant"}
  BY DEF FlushedTurn
<1>error. /\ WithLlmError(client) \in ClientType
          /\ WithLlmError(client).told = client.told
  BY <1>0, ClientMessages
<1>1. CASE CompletionOpens
  <2>1. turn' \in TurnType
    BY <1>0, <1>1 DEF CompletionOpens, TurnType
  <2> QED
    BY <1>0, <1>idle, <1>1, <2>1, ContinueWellFormed
       DEF CompletionOpens, Continue, sessionVars, observerVars
<1>2. CASE CompletionFails
  <2>1. /\ msgCounter' \in Nat
        /\ client' \in ClientType /\ client'.told = client.told
    <3>1. CASE turn.fixing
      BY <1>0, <1>2, <3>1, MessagesType DEF CompletionFails
    <3>2. CASE ~turn.fixing
      BY <1>0, <1>error, <1>2, <3>2, DeliverType DEF CompletionFails
    <3> QED
      BY <3>1, <3>2
  <2> QED
    BY <1>idle, <1>2, <2>1, ReturnWellFormed DEF CompletionFails
<1>3. CASE TextDelta
  <2> DEFINE opened == IF turn.segment = 0 THEN msgCounter + 1 ELSE turn.segment
  <2>1. opened \in Nat
    BY <1>0
  <2>2. Deliver(receiver, WithDelta(client, opened)) /\ frame /\ UNCHANGED lastTurn
        /\ msgCounter' \in Nat /\ at = "streaming"
    BY <1>0, <1>3 DEF TextDelta, Chunk
  <2> HIDE DEF opened
  <2>3. client' \in ClientType /\ client'.told = client.told
    BY <1>0, <2>1, <2>2, ClientMessages, DeliverType
  <2>4. CASE receiver
    <3>1. turn' = [turn EXCEPT !.segment = opened, !.chunks = turn.chunks + 1]
          /\ Continue("streaming") /\ UNCHANGED call
      BY <1>3, <2>4 DEF TextDelta, opened
    <3>2. turn' \in TurnType
      BY <1>chunk, <2>1, <3>1
    <3> QED
      BY <1>0, <1>idle, <2>2, <2>3, <3>1, <3>2, ContinueWellFormed DEF Continue
  <2>5. CASE ~receiver
    <3>1. Return
      BY <1>3, <2>5 DEF TextDelta
    <3> QED
      BY <1>idle, <2>2, <2>3, <3>1, ReturnWellFormed
  <2> QED
    BY <2>4, <2>5
<1>4. CASE TextDone \/ \E t \in ToolCalls : ToolCall(t)
  <2>1. /\ Flush /\ frame /\ UNCHANGED msgCounter
        /\ lastTurn' = FlushedTurn /\ at = "streaming"
    BY <1>4 DEF TextDone, ToolCall, Chunk
  <2>2. client' \in ClientType /\ client'.told = client.told
    BY <1>0, <2>1, MessagesType
  <2>3. CASE FlushFails
    <3>1. Return
      BY <1>4, <2>3 DEF TextDone, ToolCall
    <3> QED
      BY <1>0, <1>idle, <1>flushed, <2>1, <2>2, <3>1, ReturnWellFormed
  <2>4. CASE ~FlushFails
    <3>1. /\ turn' = [turn EXCEPT !.segment = 0, !.chunks = turn.chunks + 1]
          /\ UNCHANGED receiver
          /\ \/ at' = "streaming" /\ UNCHANGED call
             \/ \E t \in ToolCalls :
                  /\ at' = "filling"
                  /\ call' = [purpose |-> "propose", id |-> 0, action |-> t.action,
                              args |-> t.args, params |-> NoParams]
      BY <1>4, <2>4 DEF TextDone, ToolCall, Continue
    <3>2. turn' \in TurnType
      BY <1>chunk, <3>1
    <3>3. call' \in CallType
      BY <1>0, <3>1, NoParamsType, ActionAssumption DEF CallType
    <3>4. call'.purpose = IF at' = "filling" THEN "propose" ELSE "none"
      BY <1>idle, <2>1, <3>1
    <3> QED
      BY <1>0, <1>idle, <1>flushed, <2>1, <2>2, <3>1, <3>2, <3>3, <3>4,
         ContinueWellFormed
  <2> QED
    BY <2>3, <2>4
<1>5. CASE StreamEnds
  <2>1. client' \in ClientType /\ client'.told = client.told
    BY <1>0, <1>5, MessagesType DEF StreamEnds
  <2> QED
    BY <1>0, <1>idle, <1>flushed, <1>5, <2>1, ReturnWellFormed DEF StreamEnds
<1>6. CASE StreamBreaks
  <2> DEFINE closed == IF turn.segment = 0 THEN client ELSE WithDone(client, turn.segment)
  <2>1. closed \in ClientType /\ closed.told = client.told
    BY <1>0, ClientMessages
  <2> HIDE DEF closed
  <2>2. Deliver(receiver, WithLlmError(closed))
    BY <1>6 DEF StreamBreaks, closed
  <2>3. client' \in ClientType /\ client'.told = client.told
    BY <1>0, <2>1, <2>2, ClientMessages, DeliverType
  <2> QED
    BY <1>0, <1>idle, <1>flushed, <1>6, <2>3, ReturnWellFormed DEF StreamBreaks
<1> QED
  BY <1>1, <1>2, <1>3, <1>4, <1>5, <1>6 DEF Model

(* A stage that only lets the candidate pass to the next await.             *)
LEMMA AdvanceWellFormed ==
  ASSUME WellFormed, call.purpose # "none", at \in Validated \cup {"filling"},
         NEW stage \in Validated \ {"executing"}, Advance(stage),
         call' \in CallType, call'.purpose = call.purpose, call'.id = call.id,
         call'.action = call.action, call'.args = call.args,
         FillFailure(call.action, call.args, context) = "ok",
         call'.params = Fill(call.action, call.args, context)
  PROVE  WellFormed'
<1>1. at' = stage /\ UNCHANGED <<sessionVars, receiver, turn, turns, observerVars>>
  BY DEF Advance, Continue
<1>2. TypeOK'
  BY <1>1 DEF WellFormed, TypeOK, sessionVars, observerVars, Stages, Validated
<1>3. Aligned' /\ OneConfirmed'
  BY <1>1 DEF WellFormed, Aligned, OneConfirmed, sessionVars, observerVars
<1>4. Attached'
  BY <1>1 DEF WellFormed, Attached, sessionVars, Validated
<1> QED
  BY <1>2, <1>3, <1>4 DEF WellFormed

(* The validation pipeline keeps the session well formed.                   *)
LEMMA PipelineWellFormed ==
  ASSUME WellFormed, Pipeline
  PROVE  WellFormed'
<1>0. /\ client \in ClientType /\ turn \in TurnType /\ call \in CallType
      /\ receiver \in BOOLEAN /\ context \in Contexts
      /\ proposals \in Seq(Proposal) /\ signals \in Seq(Seq(States))
  BY DEF WellFormed, TypeOK
<1>busy. at \in Validated \cup {"filling"} => call.purpose # "none"
  BY DEF WellFormed, Attached, Validated
<1>pass. at \in Validated => /\ FillFailure(call.action, call.args, context) = "ok"
                            /\ call.params = Fill(call.action, call.args, context)
  BY DEF WellFormed, Attached
<1>1. CASE FillParams
  <2> DEFINE failure == FillFailure(call.action, call.args, context)
  <2>1. CASE failure = "ok"
    <3>1. /\ call' = [call EXCEPT !.params = Fill(call.action, call.args, context)]
          /\ Advance("authz") /\ at = "filling"
      BY <1>1, <2>1 DEF FillParams
    <3>2. Fill(call.action, call.args, context) \in Arguments
      BY <1>0, <2>1, OkIsRegistered, FillIsArguments DEF CallType
    <3>3. call' \in CallType
      BY <1>0, <3>1, <3>2 DEF CallType
    <3> QED
      BY <1>0, <1>busy, <2>1, <3>1, <3>3, AdvanceWellFormed DEF CallType, Validated
  <2>2. CASE failure # "ok"
    <3>1. \E f : Invalid(f) /\ at = "filling"
      BY <1>1, <2>2 DEF FillParams
    <3> QED
      BY <1>busy, <3>1, InvalidWellFormed
  <2> QED
    BY <2>1, <2>2
<1>2. CASE AuthzAllows \/ DryRunSucceeds
  <2>1. PICK stage \in Validated \ {"executing"} :
          Advance(stage) /\ UNCHANGED call /\ at \in Validated
    BY <1>2 DEF AuthzAllows, DryRunSucceeds, Validated
  <2> QED
    BY <1>0, <1>busy, <1>pass, <2>1, AdvanceWellFormed
<1>3. CASE AuthzDenies \/ DryRunFails \/ SlotsFail
  <2>1. PICK f : Invalid(f) /\ at \in Validated
    BY <1>3 DEF AuthzDenies, DryRunFails, SlotsFail, Validated
  <2> QED
    BY <1>busy, <2>1, InvalidWellFormed
<1>4. CASE EmitProposal
  <2> DEFINE card == [action |-> call.action, args |-> call.args,
                      params |-> call.params, state |-> "validated"]
             word == IF receiver THEN "validated" ELSE "none"
  <2>1. /\ call.purpose = "propose" /\ at = "slots"
        /\ proposals' = Append(proposals, card)
        /\ signals' = Append(signals, <<"validated">>)
        /\ decision' = Append(decision, "none")
        /\ client' = [client EXCEPT !.told = Append(client.told, word),
                                    !.missed = client.missed \/ ~receiver]
        /\ lastTurn' = "proposed"
        /\ UNCHANGED <<context, msgCounter, turns, calls, accepted>>
    BY <1>4 DEF EmitProposal, InsertValidated
  <2>2. /\ call' = NoCall /\ turn' \in TurnType /\ receiver' \in BOOLEAN
        /\ at' \in {"idle", "streaming"}
    BY <1>0, <1>4, ReturnType DEF EmitProposal, InsertValidated, Continue, Return
  <2>3. call.action \in Actions
    BY <1>pass, <2>1, OkIsRegistered DEF Validated
  <2>4. card \in Proposal
    BY <1>0, <2>3 DEF Proposal, CallType, States
  <2>5. card.state # "confirmed"
    OBVIOUS
  <2>6. word \in States \cup {"none"} /\ <<"validated">> \in Seq(States)
    BY DEF States
  <2> HIDE DEF card, word
  <2>7. proposals' \in Seq(Proposal) /\ Len(proposals') = Len(proposals) + 1
    BY <1>0, <2>1, <2>4
  <2>8. signals' \in Seq(Seq(States)) /\ Len(signals') = Len(signals) + 1
    BY <1>0, <2>1, <2>6
  <2>9. /\ decision' \in Seq({"none", "confirm", "reject"})
        /\ Len(decision') = Len(decision) + 1
    BY <2>1 DEF WellFormed, TypeOK
  <2>10. client' \in ClientType /\ Len(client'.told) = Len(client.told) + 1
    <3>1. client.told \in Seq(States \cup {"none"})
      BY <1>0 DEF ClientType
    <3>2. /\ Append(client.told, word) \in Seq(States \cup {"none"})
          /\ Len(Append(client.told, word)) = Len(client.told) + 1
      BY <2>6, <3>1
    <3> QED
      BY <1>0, <2>1, <3>2 DEF ClientType
  <2>11. call' \in CallType /\ call'.purpose = "none"
    BY <2>2, NoParamsType DEF NoCall, CallType
  <2>12. TypeOK'
    BY <2>1, <2>2, <2>7, <2>8, <2>9, <2>10, <2>11 DEF WellFormed, TypeOK, Stages
  <2>13. Aligned' /\ Attached'
    BY <2>2, <2>7, <2>8, <2>9, <2>10, <2>11 DEF WellFormed, Aligned, Attached, Validated
  <2>14. OneConfirmed'
    <3> SUFFICES ASSUME NEW j \in DOMAIN proposals'
                 PROVE  proposals'[j].state # "confirmed"
      BY <2>11 DEF OneConfirmed
    <3>1. CASE j \in DOMAIN proposals
      <4>1. proposals'[j] = proposals[j]
        BY <1>0, <2>1, <3>1
      <4> QED
        BY <2>1, <3>1, <4>1 DEF WellFormed, OneConfirmed
    <3>2. CASE j \notin DOMAIN proposals
      BY <1>0, <2>1, <2>5, <2>7, <3>2
    <3> QED
      BY <3>1, <3>2
  <2> QED
    BY <2>12, <2>13, <2>14 DEF WellFormed
<1>5. CASE Execute
  <2>1. at = "slots" /\ call.purpose = "confirm"
    BY <1>5 DEF Execute
  <2>2. CASE Drifted
    BY <1>5, <2>1, <2>2, ConfirmExpiresWellFormed DEF Execute
  <2>3. CASE ~Drifted
    <3>1. /\ calls' = Append(calls, [id |-> call.id, action |-> call.action,
                                     params |-> proposals[call.id].params])
          /\ at' = "executing"
          /\ UNCHANGED <<sessionVars, call, turn, receiver, turns,
                         decision, accepted, signals, client>>
      BY <1>5, <2>3 DEF Execute, ShownParams, Continue
    <3>2. call.id \in DOMAIN proposals
      BY <2>1 DEF WellFormed, Attached
    <3>3. proposals[call.id] \in Proposal /\ call.id \in Nat \ {0}
      BY <1>0, <3>2
    <3>4. call.action \in Actions
      BY <1>pass, <2>1, OkIsRegistered DEF Validated
    <3>5. calls' \in Seq([id : Nat \ {0}, action : Actions, params : Arguments])
      <4>1. [id |-> call.id, action |-> call.action, params |-> proposals[call.id].params]
              \in [id : Nat \ {0}, action : Actions, params : Arguments]
        BY <3>3, <3>4 DEF Proposal
      <4> QED
        BY <3>1, <4>1 DEF WellFormed, TypeOK
    <3>6. TypeOK'
      BY <3>1, <3>5 DEF WellFormed, TypeOK, sessionVars, Stages
    <3>7. Aligned' /\ Attached' /\ OneConfirmed'
      BY <1>pass, <2>1, <3>1
         DEF WellFormed, Aligned, Attached, OneConfirmed, sessionVars, Validated
    <3> QED
      BY <3>6, <3>7 DEF WellFormed
  <2> QED
    BY <2>2, <2>3
<1>6. ASSUME NEW ok \in BOOLEAN, HandlerReturns(ok)
      PROVE  WellFormed'
  <2>1. at = "executing" /\ call.purpose = "confirm"
    BY <1>6 DEF HandlerReturns, WellFormed, Attached
  <2>2. PICK i \in DOMAIN proposals : i = call.id
    BY <2>1 DEF WellFormed, Attached
  <2>3. i \in DOMAIN signals /\ i \in DOMAIN client.told
    BY <1>0 DEF WellFormed, Aligned, ClientType
  <2>4. PICK s \in States : s = OutcomeState(ok)
    BY DEF OutcomeState, States
  <2>5. s \in {"executed", "failed"}
    BY <2>4 DEF OutcomeState
  <2>6. /\ Transition(i, s)
        /\ Deliver(receiver, WithState(client, i, s))
        /\ Return /\ lastTurn' = "outcome"
        /\ UNCHANGED <<context, msgCounter, turns, calls, decision, accepted>>
    BY <1>6, <2>2, <2>4 DEF HandlerReturns, Transition, Deliver, WithState
  <2>7. /\ proposals' \in Seq(Proposal) /\ Len(proposals') = Len(proposals)
        /\ signals' \in Seq(Seq(States)) /\ Len(signals') = Len(signals)
    BY <1>0, <2>3, <2>6, TransitionType
  <2>8. client' \in ClientType /\ Len(client'.told) = Len(client.told)
    BY <1>0, <2>3, <2>6, InformType
  <2>9. \A j \in DOMAIN proposals : proposals'[j].state # "confirmed"
    <3> SUFFICES ASSUME NEW j \in DOMAIN proposals
                 PROVE  proposals'[j].state # "confirmed"
      OBVIOUS
    <3>1. CASE j = i
      <4>1. CanTransition(proposals[i].state, s)
        BY <2>1, <2>2, <2>5 DEF WellFormed, OneConfirmed, CanTransition
      <4> QED
        BY <1>0, <2>5, <2>6, <3>1, <4>1, TransitionKeeps
    <3>2. CASE j # i
      <4>1. proposals'[j] = proposals[j]
        BY <1>0, <2>6, <3>2, TransitionKeeps
      <4> QED
        BY <2>2, <3>2, <4>1 DEF WellFormed, OneConfirmed
    <3> QED
      BY <3>1, <3>2
  <2>10. call'.purpose = "none" /\ at' = "idle"
    BY <2>6 DEF Return, NoCall
  <2>14. at' \in Stages /\ call' \in CallType /\ turn' \in TurnType /\ receiver' \in BOOLEAN
    BY <2>6, ReturnType
  <2>15. lastTurn' = "outcome" /\ UNCHANGED <<context, msgCounter, turns, calls, decision, accepted>>
    BY <2>6
  <2>16. TypeOK
    BY DEF WellFormed
  <2>17. /\ context' \in Contexts /\ msgCounter' \in Nat /\ turns' \in 0 .. MaxTurns
         /\ lastTurn' \in {"none", "user", "assistant", "failure", "proposed", "rejected", "outcome"}
         /\ calls' \in Seq([id : Nat \ {0}, action : Actions, params : Arguments])
         /\ decision' \in Seq({"none", "confirm", "reject"}) /\ accepted' \subseteq Nat
    BY <2>15, <2>16 DEF TypeOK
  <2>11. TypeOK'
    BY <2>7, <2>8, <2>14, <2>17 DEF TypeOK
  <2>12. Aligned' /\ Attached'
    BY <2>6, <2>7, <2>8, <2>10 DEF WellFormed, Aligned, Attached, Validated
  <2>13. OneConfirmed'
    <3>1. DOMAIN proposals' = DOMAIN proposals
      BY <1>0, <2>7
    <3> QED
      BY <2>9, <2>10, <3>1 DEF OneConfirmed
  <2> QED
    BY <2>11, <2>12, <2>13 DEF WellFormed
<1> QED
  BY <1>1, <1>2, <1>3, <1>4, <1>5, <1>6 DEF Pipeline

(* Every step keeps the session well formed.                                *)
LEMMA WellFormedStep == WellFormed /\ [Next]_vars => WellFormed'
<1> SUFFICES ASSUME WellFormed, [Next]_vars PROVE WellFormed'
  OBVIOUS
<1>1. CASE ReceiverDrops
  BY <1>1 DEF ReceiverDrops, WellFormed, TypeOK, Aligned, Attached, OneConfirmed,
              Validated, sessionVars, observerVars
<1>2. CASE UNCHANGED vars
  BY <1>2 DEF vars, WellFormed, TypeOK, Aligned, Attached, OneConfirmed,
              Validated, sessionVars, observerVars
<1> QED
  BY <1>1, <1>2, ClientEventWellFormed, ModelWellFormed, PipelineWellFormed DEF Next

(* Type correctness: in every reachable state of a session, whatever the    *)
(* registry, the contexts and the model's tool calls, every variable has    *)
(* its type.                                                                *)
THEOREM TypeCorrect == Spec => []TypeOK
<1>1. WellFormed => TypeOK
  BY DEF WellFormed
<1> QED
  BY <1>1, WellFormedInit, WellFormedStep, PTL DEF Spec

-----------------------------------------------------------------------------
(* What may have been executed. AtMostOnce, StateTellsEffect,               *)
(* FirstDecisionWins and ExecutesWhatHolds become inductive together with   *)
(* two facts: handlers are only called for cards in the store, and a card   *)
(* is still undecided while it is pending, and confirmed by the user while  *)
(* it is confirmed.                                                         *)

CalledCards == \A k \in DOMAIN calls : calls[k].id \in DOMAIN proposals

Decided ==
  \A i \in DOMAIN proposals :
    /\ proposals[i].state = "validated" => decision[i] = "none"
    /\ proposals[i].state = "confirmed" => decision[i] = "confirm"

Deeds == /\ CalledCards /\ Decided
         /\ AtMostOnce /\ StateTellsEffect /\ FirstDecisionWins /\ ExecutesWhatHolds

(* A new session has called no handler.                                     *)
LEMMA DeedsInit == Init => Deeds
BY DEF Init, Deeds, CalledCards, Decided, AtMostOnce, StateTellsEffect, Called,
       FirstDecisionWins, ExecutesWhatHolds

(* Steps that touch neither the store nor the calls.                        *)
LEMMA QuietDeeds ==
  ASSUME Deeds, UNCHANGED <<proposals, calls, decision>>,
         \/ at # "executing" /\ at' # "executing"
         \/ UNCHANGED <<at, call, context>>
  PROVE  Deeds'
BY DEF Deeds, CalledCards, Decided, AtMostOnce, StateTellsEffect, Called,
       FirstDecisionWins, ExecutesWhatHolds

(* The confirmed card expires before its handler was called.                *)
LEMMA ConfirmExpiresDeeds ==
  ASSUME WellFormed, Deeds, call.purpose = "confirm", at # "executing",
         ConfirmExpires, UNCHANGED <<context, turns, calls, decision, accepted>>
  PROVE  Deeds'
<1>0. PICK i \in DOMAIN proposals : i = call.id
  BY DEF WellFormed, Attached
<1>1. proposals \in Seq(Proposal) /\ i \in DOMAIN signals /\ signals \in Seq(Seq(States))
  BY DEF WellFormed, TypeOK, Aligned
<1>2. "expired" \in States /\ Transition(i, "expired") /\ at' = "idle"
  BY <1>0 DEF ConfirmExpires, Transition, Return, States
<1>3. proposals[i].state = "confirmed"
  BY <1>0 DEF WellFormed, OneConfirmed
<1>4. DOMAIN proposals' = DOMAIN proposals
  BY <1>1, <1>2, TransitionType
<1>5. proposals'[i].state = "expired"
  BY <1>1, <1>2, <1>3, TransitionKeeps DEF CanTransition
<1>6. \A j \in DOMAIN proposals : j # i => proposals'[j] = proposals[j]
  BY <1>1, <1>2, TransitionKeeps
<1>7. CalledCards' /\ AtMostOnce' /\ Decided'
  BY <1>4, <1>5, <1>6 DEF Deeds, CalledCards, AtMostOnce, Decided
<1>8. StateTellsEffect'
  BY <1>2, <1>3, <1>4, <1>5, <1>6 DEF Deeds, StateTellsEffect, Called
<1>9. FirstDecisionWins' /\ ExecutesWhatHolds'
  BY <1>2, <1>4, <1>5, <1>6 DEF Deeds, FirstDecisionWins, Called, ExecutesWhatHolds
<1> QED
  BY <1>7, <1>8, <1>9 DEF Deeds

(* A client event calls no handler, and settles only pending cards.         *)
LEMMA ClientEventDeeds ==
  ASSUME WellFormed, Deeds, ClientEvent
  PROVE  Deeds'
<1>0. at = "idle" /\ call.purpose = "none" /\ proposals \in Seq(Proposal)
  BY DEF WellFormed, TypeOK, Attached, ClientEvent, HandleInit, HandleContextUpdate,
         HandleUserMessage, HandleConfirm, HandleReject
<1>1. ASSUME NEW c \in Contexts, HandleInit(c)
      PROVE  Deeds'
  BY <1>0, <1>1, QuietDeeds DEF HandleInit, observerVars
<1>2. ASSUME NEW c \in Contexts, NEW alive \in BOOLEAN, HandleContextUpdate(c, alive)
      PROVE  Deeds'
  <2>1. at' = "idle" /\ UNCHANGED <<calls, decision>>
    BY <1>0, <1>2 DEF HandleContextUpdate
  <2>2. CASE UNCHANGED proposals
    BY <1>0, <2>1, <2>2, QuietDeeds
  <2>3. CASE proposals' = [j \in DOMAIN proposals |->
               IF j \in Pending THEN [proposals[j] EXCEPT !.state = "expired"]
               ELSE proposals[j]]
    <3>1. DOMAIN proposals' = DOMAIN proposals
      BY <2>3
    <3>2. \A j \in DOMAIN proposals :
             IF proposals[j].state = "validated" THEN proposals'[j].state = "expired"
             ELSE proposals'[j] = proposals[j]
      <4> SUFFICES ASSUME NEW j \in DOMAIN proposals
                   PROVE  IF proposals[j].state = "validated"
                          THEN proposals'[j].state = "expired"
                          ELSE proposals'[j] = proposals[j]
        OBVIOUS
      <4>1. proposals[j] \in Proposal
        BY <1>0
      <4> QED
        BY <2>3, <4>1 DEF Pending, Proposal
    <3>3. CalledCards' /\ AtMostOnce' /\ Decided'
      BY <2>1, <3>1, <3>2 DEF Deeds, CalledCards, AtMostOnce, Decided
    <3>4. StateTellsEffect'
      BY <1>0, <2>1, <3>1, <3>2 DEF Deeds, StateTellsEffect, Called
    <3>5. FirstDecisionWins' /\ ExecutesWhatHolds'
      BY <2>1, <3>1, <3>2 DEF Deeds, FirstDecisionWins, Called, ExecutesWhatHolds
    <3> QED
      BY <3>3, <3>4, <3>5 DEF Deeds
  <2> QED
    BY <1>2, <2>2, <2>3 DEF HandleContextUpdate
<1>3. ASSUME NEW alive \in BOOLEAN, HandleUserMessage(alive)
      PROVE  Deeds'
  BY <1>0, <1>3, QuietDeeds DEF HandleUserMessage
<1>4. ASSUME NEW alive \in BOOLEAN, NEW i \in DOMAIN proposals, HandleConfirm(i, alive)
      PROVE  Deeds'
  <2>1. /\ at' \in {"idle", "filling"} /\ UNCHANGED calls /\ Decide(i, "confirm")
        /\ i \in DOMAIN decision /\ DOMAIN decision = DOMAIN proposals
    BY <1>0, <1>4 DEF HandleConfirm, WellFormed, TypeOK, Aligned
  <2>2. /\ \A j \in DOMAIN proposals : j # i \/ decision[i] # "none" => decision'[j] = decision[j]
        /\ decision[i] = "none" => decision'[i] = "confirm"
    BY <2>1 DEF Decide, WellFormed, TypeOK
  <2>3. CASE ~Confirmable(i)
    <3>1. UNCHANGED proposals
      BY <1>4, <2>3 DEF HandleConfirm
    <3>2. CalledCards' /\ AtMostOnce' /\ StateTellsEffect' /\ ExecutesWhatHolds'
      BY <1>0, <2>1, <3>1 DEF Deeds, CalledCards, AtMostOnce, StateTellsEffect, Called,
                              ExecutesWhatHolds
    <3>3. Decided'
      BY <2>2, <2>3, <3>1 DEF Deeds, Decided, Confirmable
    <3>4. FirstDecisionWins'
      BY <2>1, <2>2, <3>1 DEF Deeds, FirstDecisionWins, Called
    <3> QED
      BY <3>2, <3>3, <3>4 DEF Deeds
  <2>4. CASE Confirmable(i)
    <3>1. proposals' = [proposals EXCEPT ![i] = [proposals[i] EXCEPT !.state = "confirmed"]]
      BY <1>4, <2>4 DEF HandleConfirm
    <3>2. proposals[i] \in Proposal /\ proposals[i].state = "validated"
      BY <1>0, <2>4 DEF Confirmable
    <3>3. /\ DOMAIN proposals' = DOMAIN proposals
          /\ proposals'[i].state = "confirmed"
          /\ \A j \in DOMAIN proposals : j # i => proposals'[j] = proposals[j]
      BY <3>1, <3>2, <1>0 DEF Proposal
    <3>4. CalledCards' /\ AtMostOnce'
      BY <2>1, <3>3 DEF Deeds, CalledCards, AtMostOnce
    <3>5. StateTellsEffect'
      BY <1>0, <2>1, <3>2, <3>3 DEF Deeds, StateTellsEffect, Called
    <3>6. Decided'
      BY <2>2, <3>2, <3>3 DEF Deeds, Decided
    <3>7. FirstDecisionWins'
      BY <1>0, <2>1, <2>2, <3>2, <3>3
         DEF Deeds, FirstDecisionWins, StateTellsEffect, Called
    <3>8. ExecutesWhatHolds'
      BY <2>1 DEF ExecutesWhatHolds
    <3> QED
      BY <3>4, <3>5, <3>6, <3>7, <3>8 DEF Deeds
  <2> QED
    BY <2>3, <2>4
<1>5. ASSUME NEW alive \in BOOLEAN, NEW i \in DOMAIN proposals, HandleReject(i, alive)
      PROVE  Deeds'
  <2>1. /\ at' = "idle" /\ UNCHANGED calls /\ Decide(i, "reject")
        /\ Transition(i, "rejected") /\ "rejected" \in States
        /\ i \in DOMAIN decision /\ DOMAIN decision = DOMAIN proposals
    BY <1>0, <1>5 DEF HandleReject, WellFormed, TypeOK, Aligned, States
  <2>0. i \in DOMAIN signals /\ signals \in Seq(Seq(States))
    BY <1>0 DEF WellFormed, TypeOK, Aligned
  <2>2. /\ \A j \in DOMAIN proposals : j # i \/ decision[i] # "none" => decision'[j] = decision[j]
        /\ decision[i] = "none" => decision'[i] = "reject"
    BY <2>1 DEF Decide, WellFormed, TypeOK
  <2>3. proposals[i].state # "confirmed"
    BY <1>0 DEF WellFormed, OneConfirmed
  <2>4. DOMAIN proposals' = DOMAIN proposals
    BY <1>0, <2>0, <2>1, TransitionType
  <2>5. \A j \in DOMAIN proposals : j # i => proposals'[j] = proposals[j]
    BY <1>0, <2>1, TransitionKeeps
  <2>6. CASE proposals[i].state # "validated"
    <3>1. UNCHANGED proposals
      BY <2>1, <2>3, <2>6 DEF Transition, CanTransition
    <3>2. CalledCards' /\ AtMostOnce' /\ StateTellsEffect' /\ ExecutesWhatHolds'
      BY <1>0, <2>1, <3>1 DEF Deeds, CalledCards, AtMostOnce, StateTellsEffect, Called,
                              ExecutesWhatHolds
    <3>3. Decided'
      BY <2>2, <2>3, <2>6, <3>1 DEF Deeds, Decided
    <3>4. FirstDecisionWins'
      BY <2>1, <2>2, <3>1 DEF Deeds, FirstDecisionWins, Called
    <3> QED
      BY <3>2, <3>3, <3>4 DEF Deeds
  <2>7. CASE proposals[i].state = "validated"
    <3>1. proposals'[i].state = "rejected"
      BY <1>0, <2>1, <2>7, TransitionKeeps DEF CanTransition
    <3>2. CalledCards' /\ AtMostOnce' /\ ExecutesWhatHolds'
      BY <2>1, <2>4 DEF Deeds, CalledCards, AtMostOnce, ExecutesWhatHolds
    <3>3. StateTellsEffect'
      BY <1>0, <2>1, <2>4, <2>5, <2>7, <3>1 DEF Deeds, StateTellsEffect, Called
    <3>4. Decided'
      BY <2>2, <2>4, <2>5, <3>1 DEF Deeds, Decided
    <3>5. FirstDecisionWins'
      BY <1>0, <2>1, <2>2, <2>4, <2>5, <2>7, <3>1
         DEF Deeds, Decided, FirstDecisionWins, StateTellsEffect, Called
    <3> QED
      BY <3>2, <3>3, <3>4, <3>5 DEF Deeds
  <2> QED
    BY <2>6, <2>7
<1> QED
  BY <1>1, <1>2, <1>3, <1>4, <1>5 DEF ClientEvent

(* The completion loop runs no handler and touches no card.                 *)
LEMMA ModelDeeds ==
  ASSUME Deeds, Model
  PROVE  Deeds'
<1>1. UNCHANGED <<proposals, calls, decision>> /\ at # "executing" /\ at' # "executing"
  BY DEF Model, CompletionOpens, CompletionFails, TextDelta, TextDone, StreamEnds,
         StreamBreaks, ToolCall, Chunk, Continue, Return, sessionVars, observerVars
<1> QED
  BY <1>1, QuietDeeds

(* A failed validation calls no handler.                                    *)
LEMMA InvalidDeeds ==
  ASSUME WellFormed, Deeds, call.purpose # "none", at # "executing",
         NEW failure, Invalid(failure)
  PROVE  Deeds'
<1>1. UNCHANGED <<context, turns, calls, decision, accepted>>
  BY DEF Invalid
<1>2. CASE call.purpose = "propose"
  <2>1. ProposeFails(failure)
    BY <1>2 DEF Invalid
  <2>2. UNCHANGED proposals /\ at' # "executing"
    BY <2>1 DEF ProposeFails, Continue, Return
  <2> QED
    BY <1>1, <2>2, QuietDeeds
<1>3. CASE call.purpose # "propose"
  <2>1. ConfirmExpires
    BY <1>3 DEF Invalid
  <2>2. call.purpose = "confirm"
    BY <1>3 DEF WellFormed, TypeOK, CallType
  <2> QED
    BY <1>1, <2>1, <2>2, ConfirmExpiresDeeds
<1> QED
  BY <1>2, <1>3

(* Only Execute calls a handler, for a card confirmed and not called before. *)
LEMMA PipelineDeeds ==
  ASSUME WellFormed, Deeds, Pipeline
  PROVE  Deeds'
<1>0. /\ proposals \in Seq(Proposal) /\ DOMAIN decision = DOMAIN proposals
      /\ decision \in Seq({"none", "confirm", "reject"})
  BY DEF WellFormed, TypeOK, Aligned
<1>busy. at \in Validated \cup {"filling"} => call.purpose # "none"
  BY DEF WellFormed, Attached, Validated
<1>1. CASE FillParams \/ AuthzAllows \/ AuthzDenies \/ DryRunSucceeds \/ DryRunFails \/ SlotsFail
  <2>1. at \in {"filling", "authz", "dryRun", "slots"}
    BY <1>1 DEF FillParams, AuthzAllows, AuthzDenies, DryRunSucceeds, DryRunFails, SlotsFail
  <2>2. \/ \E f : Invalid(f)
        \/ \E stage \in {"authz", "dryRun", "slots"} : Advance(stage)
    BY <1>1 DEF FillParams, AuthzAllows, AuthzDenies, DryRunSucceeds, DryRunFails, SlotsFail
  <2>3. ASSUME NEW stage \in {"authz", "dryRun", "slots"}, Advance(stage)
        PROVE  Deeds'
    BY <2>1, <2>3, QuietDeeds DEF Advance, Continue, sessionVars, observerVars
  <2> QED
    BY <1>busy, <2>1, <2>2, <2>3, InvalidDeeds DEF Validated
<1>2. CASE EmitProposal
  <2> DEFINE card == [action |-> call.action, args |-> call.args,
                      params |-> call.params, state |-> "validated"]
             n == Len(proposals) + 1
  <2>1. /\ proposals' = Append(proposals, card) /\ decision' = Append(decision, "none")
        /\ UNCHANGED calls /\ at = "slots" /\ at' \in {"idle", "streaming"}
    BY <1>2 DEF EmitProposal, InsertValidated, Continue, Return
  <2>2. /\ DOMAIN proposals' = DOMAIN proposals \cup {n} /\ n \notin DOMAIN proposals
        /\ \A j \in DOMAIN proposals : proposals'[j] = proposals[j] /\ decision'[j] = decision[j]
        /\ proposals'[n].state = "validated" /\ decision'[n] = "none"
    BY <1>0, <2>1
  <2> HIDE DEF card, n
  <2>3. ~ \E k \in DOMAIN calls : calls[k].id = n
    BY <2>2 DEF Deeds, CalledCards
  <2>4. CalledCards' /\ AtMostOnce' /\ ExecutesWhatHolds'
    BY <2>1, <2>2 DEF Deeds, CalledCards, AtMostOnce, ExecutesWhatHolds
  <2>5. Decided'
    <3> SUFFICES ASSUME NEW j \in DOMAIN proposals'
                 PROVE  /\ proposals'[j].state = "validated" => decision'[j] = "none"
                        /\ proposals'[j].state = "confirmed" => decision'[j] = "confirm"
      BY DEF Decided
    <3>1. CASE j \in DOMAIN proposals
      BY <2>2, <3>1 DEF Deeds, Decided
    <3>2. CASE j = n
      BY <2>2, <3>2
    <3> QED
      BY <2>2, <3>1, <3>2
  <2>6. StateTellsEffect'
    <3> SUFFICES ASSUME NEW j \in DOMAIN proposals'
                 PROVE  Called(j)' <=> proposals'[j].state \in {"executed", "failed"}
      BY <2>1 DEF StateTellsEffect
    <3>1. Called(j)' <=> \E k \in DOMAIN calls : calls[k].id = j
      BY <2>1 DEF Called
    <3>2. CASE j \in DOMAIN proposals
      BY <2>1, <2>2, <3>1, <3>2 DEF Deeds, StateTellsEffect, Called
    <3>3. CASE j = n
      BY <2>1, <2>2, <2>3, <3>1, <3>3
    <3> QED
      BY <2>2, <3>2, <3>3
  <2>7. FirstDecisionWins'
    <3> SUFFICES ASSUME NEW j \in DOMAIN proposals'
                 PROVE  /\ Called(j)' => decision'[j] = "confirm"
                        /\ proposals'[j].state = "rejected" => decision'[j] = "reject"
      BY DEF FirstDecisionWins
    <3>1. Called(j)' <=> \E k \in DOMAIN calls : calls[k].id = j
      BY <2>1 DEF Called
    <3>2. CASE j \in DOMAIN proposals
      BY <2>2, <3>1, <3>2 DEF Deeds, FirstDecisionWins, Called
    <3>3. CASE j = n
      BY <2>2, <2>3, <3>1, <3>3
    <3> QED
      BY <2>2, <3>2, <3>3
  <2> QED
    BY <2>4, <2>5, <2>6, <2>7 DEF Deeds
<1>3. CASE Execute
  <2>1. at = "slots" /\ call.purpose = "confirm"
    BY <1>3 DEF Execute
  <2>2. CASE Drifted
    BY <1>3, <2>1, <2>2, ConfirmExpiresDeeds DEF Execute
  <2>3. CASE ~Drifted
    <3> DEFINE deed == [id |-> call.id, action |-> call.action,
                        params |-> proposals[call.id].params]
    <3>1. /\ calls' = Append(calls, deed) /\ at' = "executing"
          /\ UNCHANGED <<context, proposals, call, decision>>
          /\ call.params = proposals[call.id].params
      BY <1>3, <2>3 DEF Execute, Drifted, ShownParams, Continue, sessionVars
    <3>2. /\ call.id \in DOMAIN proposals /\ proposals[call.id].state = "confirmed"
          /\ proposals[call.id].action = call.action
          /\ proposals[call.id].args = call.args
      BY <2>1 DEF WellFormed, Attached, OneConfirmed
    <3>3. /\ FillFailure(call.action, call.args, context) = "ok"
          /\ call.params = Fill(call.action, call.args, context)
      BY <2>1 DEF WellFormed, Attached, Validated
    <3>4. calls \in Seq([id : Nat \ {0}, action : Actions, params : Arguments])
      BY DEF WellFormed, TypeOK
    <3>5. /\ DOMAIN calls' = DOMAIN calls \cup {Len(calls) + 1}
          /\ Len(calls) + 1 \notin DOMAIN calls /\ Len(calls') = Len(calls) + 1
          /\ \A k \in DOMAIN calls : calls'[k] = calls[k]
          /\ calls'[Len(calls) + 1] = deed
      BY <3>1, <3>4
    <3>6. ~ Called(call.id)
      BY <2>1, <3>2 DEF Deeds, StateTellsEffect
    <3>7. CalledCards' /\ AtMostOnce'
      BY <3>1, <3>2, <3>5, <3>6 DEF Deeds, CalledCards, AtMostOnce, Called
    <3>8. \A i : Called(i)' <=> Called(i) \/ i = call.id
      BY <3>5 DEF Called
    <3>9. StateTellsEffect'
      BY <2>1, <3>1, <3>2, <3>8 DEF Deeds, StateTellsEffect
    <3>10. Decided' /\ FirstDecisionWins'
      BY <3>1, <3>2, <3>8 DEF Deeds, Decided, FirstDecisionWins
    <3>11. ExecutesWhatHolds'
      <4> DEFINE card == proposals[call.id]
      <4>1. calls'[Len(calls')] = [id |-> call.id, action |-> card.action,
                                   params |-> card.params]
        BY <3>2, <3>5
      <4>2. /\ FillFailure(card.action, card.args, context) = "ok"
            /\ Fill(card.action, card.args, context) = card.params
        BY <3>1, <3>2, <3>3
      <4> QED
        BY <3>1, <4>1, <4>2 DEF ExecutesWhatHolds
    <3> QED
      BY <3>7, <3>9, <3>10, <3>11 DEF Deeds
  <2> QED
    BY <2>2, <2>3
<1>4. ASSUME NEW ok \in BOOLEAN, HandlerReturns(ok)
      PROVE  Deeds'
  <2>1. at = "executing" /\ call.purpose = "confirm"
    BY <1>4 DEF HandlerReturns, WellFormed, Attached
  <2>2. PICK i \in DOMAIN proposals : i = call.id
    BY <2>1 DEF WellFormed, Attached
  <2>3. PICK s \in States : s = OutcomeState(ok)
    BY DEF OutcomeState, States
  <2>4. s \in {"executed", "failed"}
    BY <2>3 DEF OutcomeState
  <2>5. Transition(i, s) /\ at' = "idle" /\ UNCHANGED <<calls, decision>>
    BY <1>4, <2>2, <2>3 DEF HandlerReturns, Transition, Return
  <2>6. proposals[i].state = "confirmed" /\ CanTransition(proposals[i].state, s)
    BY <2>1, <2>2, <2>4 DEF WellFormed, OneConfirmed, CanTransition
  <2>7. DOMAIN proposals' = DOMAIN proposals
    <3>1. signals \in Seq(Seq(States)) /\ i \in DOMAIN signals
      BY <1>0 DEF WellFormed, TypeOK, Aligned
    <3>2. proposals' \in Seq(Proposal) /\ Len(proposals') = Len(proposals)
      BY <1>0, <2>5, <3>1, TransitionType
    <3> QED
      BY <1>0, <3>2
  <2>8. /\ proposals'[i].state = s
        /\ \A j \in DOMAIN proposals : j # i => proposals'[j] = proposals[j]
    BY <1>0, <2>5, <2>6, TransitionKeeps
  <2>9. CalledCards' /\ AtMostOnce' /\ ExecutesWhatHolds'
    BY <2>5, <2>7 DEF Deeds, CalledCards, AtMostOnce, ExecutesWhatHolds
  <2>10. Decided'
    BY <2>2, <2>4, <2>5, <2>6, <2>7, <2>8 DEF Deeds, Decided
  <2>11. StateTellsEffect'
    BY <2>1, <2>2, <2>4, <2>5, <2>7, <2>8 DEF Deeds, StateTellsEffect, Called
  <2>12. FirstDecisionWins'
    BY <2>4, <2>5, <2>7, <2>8 DEF Deeds, FirstDecisionWins, Called
  <2> QED
    BY <2>9, <2>10, <2>11, <2>12 DEF Deeds
<1> QED
  BY <1>1, <1>2, <1>3, <1>4 DEF Pipeline

(* Every step of a well-formed session keeps the account of its deeds.      *)
LEMMA DeedsStep == WellFormed /\ Deeds /\ [Next]_vars => Deeds'
<1> SUFFICES ASSUME WellFormed, Deeds, [Next]_vars PROVE Deeds'
  OBVIOUS
<1>1. CASE ReceiverDrops \/ UNCHANGED vars
  BY <1>1, QuietDeeds DEF ReceiverDrops, vars, sessionVars, observerVars
<1> QED
  BY <1>1, ClientEventDeeds, ModelDeeds, PipelineDeeds DEF Next

(* The session stays well formed and keeps the account of its deeds.        *)
LEMMA Accounted == Spec => [](WellFormed /\ Deeds)
<1>1. Init => WellFormed /\ Deeds
  BY WellFormedInit, DeedsInit
<1>2. WellFormed /\ Deeds /\ [Next]_vars => (WellFormed /\ Deeds)'
  BY WellFormedStep, DeedsStep
<1> QED
  BY <1>1, <1>2, PTL DEF Spec

(* A card's handler is called at most once, whatever the order of confirms, *)
(* rejects, context changes and lost receivers.                             *)
THEOREM CalledOnce == Spec => []AtMostOnce
<1>1. Deeds => AtMostOnce
  BY DEF Deeds
<1> QED
  BY <1>1, Accounted, PTL

(* The state the store reports tells whether the handler was called.        *)
THEOREM StateIsTrue == Spec => []StateTellsEffect
<1>1. Deeds => StateTellsEffect
  BY DEF Deeds
<1> QED
  BY <1>1, Accounted, PTL

(* Only a card the user confirmed first runs, and only one the user         *)
(* rejected first is rejected.                                              *)
THEOREM FirstDecision == Spec => []FirstDecisionWins
<1>1. Deeds => FirstDecisionWins
  BY DEF Deeds
<1> QED
  BY <1>1, Accounted, PTL

(* A running handler was called with the params the card showed, which      *)
(* still are what the session's context resolves.                           *)
THEOREM ExecutesTheCard == Spec => []ExecutesWhatHolds
<1>1. Deeds => ExecutesWhatHolds
  BY DEF Deeds
<1> QED
  BY <1>1, Accounted, PTL

-----------------------------------------------------------------------------
(* What the session tells: the frontend, by its server events; operators,   *)
(* by telemetry; the model, by the history of a retry. Each property needs  *)
(* the well-formedness of the session and a strengthening of its own.       *)

(* A frontend that lost nothing shows every card but the confirmed one in   *)
(* the store's state.                                                       *)
Shown ==
  ~client.missed =>
    \A i \in DOMAIN proposals :
      proposals[i].state # "confirmed" => client.told[i] = proposals[i].state

(* An open segment is the newest message, and only a stream has one.        *)
Segments ==
  turn.segment # 0 => at = "streaming" /\ turn.segment = msgCounter

(* Completions are paid for out of the retry budget, and a retry is asked   *)
(* for with the failure at the end of the history.                          *)
Budget ==
  /\ turn.completions + turn.retries <= MaxRetries + 1
  /\ at = "completing" /\ turn.fixing => lastTurn = "failure"

-----------------------------------------------------------------------------
(* A step whose events all arrived told the frontend what it meant to.      *)
LEMMA Delivered ==
  ASSUME client \in ClientType, NEW alive, NEW u, u.missed = client.missed,
         Deliver(alive, u), ~client'.missed
  PROVE  client' = u /\ ~client.missed
<1>1. CASE alive
  BY <1>1 DEF Deliver
<1>2. CASE ~alive
  BY <1>2 DEF Deliver, ClientType
<1> QED
  BY <1>1, <1>2

(* Telling a card's state changes that card and nothing else.               *)
LEMMA CardUpdate ==
  ASSUME NEW c \in ClientType, NEW i, NEW s
  PROVE  /\ WithState(c, i, s).missed = c.missed
         /\ WithState(c, i, s).open = c.open
         /\ WithState(c, i, s).transcript = c.transcript
         /\ WithState(c, i, s).told = [c.told EXCEPT ![i] = s]
BY DEF WithState, ClientType

(* A message event changes the open segments and the transcript only.       *)
LEMMA MessageUpdates ==
  ASSUME NEW c \in ClientType, NEW m
  PROVE  /\ WithDelta(c, m).missed = c.missed
         /\ WithDelta(c, m).open = c.open \cup {m}
         /\ WithDelta(c, m).transcript = c.transcript
         /\ WithDelta(c, m).told = c.told
         /\ WithDone(c, m).missed = c.missed
         /\ WithDone(c, m).open = c.open \ {m}
         /\ WithDone(c, m).transcript = Append(c.transcript, m)
         /\ WithDone(c, m).told = c.told
         /\ WithLlmError(c).missed = c.missed
         /\ WithLlmError(c).open = c.open
         /\ WithLlmError(c).transcript = c.transcript
         /\ WithLlmError(c).told = c.told
BY DEF WithDelta, WithDone, WithLlmError, ClientType

(* A failed validation is either a failed proposal or a voided card.        *)
LEMMA InvalidCases ==
  ASSUME WellFormed, at \in {"filling", "authz", "dryRun", "slots"},
         NEW failure, Invalid(failure)
  PROVE  \/ call.purpose = "propose" /\ ProposeFails(failure)
         \/ call.purpose = "confirm" /\ ConfirmExpires
BY DEF WellFormed, Attached, TypeOK, CallType, Invalid

(* The steps of the pipeline, by what they do to the session: run on, fail  *)
(* a proposal, void a card, show a card, or run its handler.                *)
LEMMA PipelineCases ==
  ASSUME WellFormed, Pipeline
  PROVE  \/ /\ at \in {"filling", "authz", "dryRun"} /\ at' \in {"authz", "dryRun", "slots"}
            /\ UNCHANGED <<sessionVars, turn, turns, observerVars>>
         \/ /\ at \in {"filling", "authz", "dryRun", "slots"} /\ call.purpose = "propose"
            /\ \E failure : ProposeFails(failure)
         \/ /\ at \in {"filling", "authz", "dryRun", "slots"} /\ call.purpose = "confirm"
            /\ ConfirmExpires
         \/ EmitProposal
         \/ /\ at = "slots" /\ at' = "executing"
            /\ UNCHANGED <<sessionVars, turn, signals, client>>
         \/ \E ok \in BOOLEAN : HandlerReturns(ok)
<1>1. CASE FillParams
  BY <1>1, InvalidCases DEF FillParams, Advance, Continue
<1>2. CASE AuthzAllows
  BY <1>2 DEF AuthzAllows, Advance, Continue
<1>3. CASE AuthzDenies
  BY <1>3, InvalidCases DEF AuthzDenies
<1>4. CASE DryRunSucceeds
  BY <1>4 DEF DryRunSucceeds, Advance, Continue
<1>5. CASE DryRunFails
  BY <1>5, InvalidCases DEF DryRunFails
<1>6. CASE SlotsFail
  BY <1>6, InvalidCases DEF SlotsFail
<1>7. CASE Execute
  BY <1>7 DEF Execute, Continue
<1> QED
  BY <1>1, <1>2, <1>3, <1>4, <1>5, <1>6, <1>7 DEF Pipeline

-----------------------------------------------------------------------------
(* Telemetry. *)

(* The confirms the store took: none for a pending card, one for a confirmed *)
(* one; with SignalsExact, inductive.                                       *)
Taken ==
  /\ accepted \subseteq DOMAIN proposals
  /\ \A i \in DOMAIN proposals :
       /\ proposals[i].state = "validated" => i \notin accepted
       /\ proposals[i].state = "confirmed" => i \in accepted

(* Appending to a sequence of one makes a sequence of two.                  *)
LEMMA AppendToOne ==
  ASSUME NEW S, NEW a \in S, NEW b \in S
  PROVE  Append(<<a>>, b) = <<a, b>>
<1> DEFINE s == Append(<<a>>, b)
           t == <<a, b>>
<1>1. <<a>> \in Seq(S) /\ Len(<<a>>) = 1 /\ <<a>>[1] = a
  OBVIOUS
<1>2. s \in Seq(S) /\ Len(s) = 2 /\ s[1] = a /\ s[2] = b
  BY <1>1
<1>3. t \in Seq(S) /\ Len(t) = 2 /\ t[1] = a /\ t[2] = b
  OBVIOUS
<1> HIDE DEF s, t
<1>4. s = [i \in 1 .. 2 |-> s[i]] /\ t = [i \in 1 .. 2 |-> t[i]]
  BY <1>2, <1>3
<1>5. \A i \in 1 .. 2 : s[i] = t[i]
  BY <1>2, <1>3
<1> QED
  BY <1>4, <1>5 DEF s, t

(* A transition of the store to a terminal state is signalled, once.        *)
LEMMA TransitionSignals ==
  ASSUME WellFormed, SignalsExact, Taken, NEW i \in DOMAIN proposals, NEW s \in Terminal,
         Transition(i, s), s = "expired" => i \in accepted, UNCHANGED accepted
  PROVE  SignalsExact' /\ Taken'
<1>0. s \in States /\ s \notin {"validated", "confirmed"}
  BY DEF Terminal, States
<1>1. /\ proposals \in Seq(Proposal) /\ signals \in Seq(Seq(States))
      /\ i \in DOMAIN signals /\ Len(signals) = Len(proposals)
  BY DEF WellFormed, TypeOK, Aligned
<1>2. DOMAIN proposals' = DOMAIN proposals
  BY <1>0, <1>1, TransitionType
<1>3. CASE CanTransition(proposals[i].state, s)
  <2>1. signals' = [signals EXCEPT ![i] = Append(signals[i], s)]
    BY <1>3 DEF Transition
  <2>2. proposals'[i].state = s
    BY <1>0, <1>1, <1>3, TransitionKeeps
  <2>3. signals[i] = <<"validated">>
    BY <1>3 DEF SignalsExact, CanTransition
  <2>8. Append(<<"validated">>, s) = <<"validated", s>>
    BY <1>0, AppendToOne DEF States
  <2>9. signals'[i] = Append(signals[i], s)
    BY <1>1, <2>1
  <2>4. signals'[i] = <<"validated", s>>
    BY <2>3, <2>8, <2>9
  <2>5. \A j \in DOMAIN proposals :
          j # i => proposals'[j] = proposals[j] /\ signals'[j] = signals[j]
    BY <1>0, <1>1, <2>1, TransitionKeeps
  <2>6. SignalsExact'
    BY <1>0, <1>2, <2>2, <2>4, <2>5 DEF SignalsExact
  <2>7. Taken'
    BY <1>0, <1>2, <2>2, <2>5 DEF Taken
  <2> QED
    BY <2>6, <2>7
<1>4. CASE ~CanTransition(proposals[i].state, s)
  BY <1>4 DEF Transition, SignalsExact, Taken
<1> QED
  BY <1>3, <1>4

(* Only a ConfirmAction makes the store take a confirm.                     *)
LEMMA AcceptedKept ==
  ASSUME Model \/ Pipeline \/ ReceiverDrops
  PROVE  UNCHANGED accepted
<1>1. CASE Model
  BY <1>1
     DEF Model, CompletionOpens, CompletionFails, TextDelta, TextDone, StreamEnds, StreamBreaks,
         ToolCall, observerVars
<1>2. CASE Pipeline
  BY <1>2
     DEF Pipeline, FillParams, AuthzAllows, AuthzDenies, DryRunSucceeds, DryRunFails, SlotsFail,
         EmitProposal, Execute, HandlerReturns, Advance, Invalid, observerVars
<1>3. CASE ReceiverDrops
  BY <1>3 DEF ReceiverDrops, observerVars
<1> QED
  BY <1>1, <1>2, <1>3

(* Every step signals the transitions it must and no other.                 *)
LEMMA SignalsStep ==
  ASSUME WellFormed, SignalsExact, Taken, [Next]_vars
  PROVE  SignalsExact' /\ Taken'
<1>0. /\ proposals \in Seq(Proposal) /\ signals \in Seq(Seq(States))
      /\ Len(signals) = Len(proposals)
  BY DEF WellFormed, TypeOK, Aligned
<1>1. CASE UNCHANGED <<proposals, accepted, signals>>
  BY <1>1 DEF SignalsExact, Taken
<1>2. ASSUME NEW c \in Contexts, NEW alive \in BOOLEAN, HandleContextUpdate(c, alive)
      PROVE  SignalsExact' /\ Taken'
  <2>1. UNCHANGED <<accepted, signals>>
    BY <1>2 DEF HandleContextUpdate
  <2>2. CASE proposals' = [i \in DOMAIN proposals |->
               IF i \in Pending THEN [proposals[i] EXCEPT !.state = "expired"] ELSE proposals[i]]
    <3>1. DOMAIN proposals' = DOMAIN proposals
      BY <2>2
    <3>2. ASSUME NEW i \in DOMAIN proposals
          PROVE  \/ proposals'[i] = proposals[i]
                 \/ proposals'[i].state = "expired" /\ proposals[i].state = "validated"
      <4>1. proposals[i] \in Proposal
        BY <1>0
      <4> QED
        BY <2>2, <4>1 DEF Proposal, Pending
    <3>3. Taken'
      BY <2>1, <3>1, <3>2 DEF Taken
    <3>4. ASSUME NEW i \in DOMAIN proposals,
                 proposals'[i].state = "expired" /\ proposals[i].state = "validated"
          PROVE  signals'[i] = <<"validated">> /\ i \notin accepted'
      BY <2>1, <3>4 DEF SignalsExact, Taken
    <3>5. SignalsExact'
      BY <2>1, <3>1, <3>2, <3>4 DEF SignalsExact
    <3> QED
      BY <3>3, <3>5
  <2> QED
    BY <1>1, <1>2, <2>1, <2>2 DEF HandleContextUpdate
<1>3. ASSUME NEW i \in DOMAIN proposals, NEW alive \in BOOLEAN, HandleConfirm(i, alive)
      PROVE  SignalsExact' /\ Taken'
  <2>1. CASE Confirmable(i)
    <3>1. /\ proposals' = [proposals EXCEPT ![i].state = "confirmed"]
          /\ accepted' = accepted \cup {i} /\ UNCHANGED signals
      BY <1>3, <2>1 DEF HandleConfirm
    <3>2. proposals[i] \in Proposal /\ proposals[i].state = "validated"
      BY <1>0, <2>1 DEF Confirmable
    <3>3. /\ DOMAIN proposals' = DOMAIN proposals /\ proposals'[i].state = "confirmed"
          /\ \A j \in DOMAIN proposals : j # i => proposals'[j] = proposals[j]
      BY <3>1, <3>2 DEF Proposal
    <3>4. Taken'
      BY <3>1, <3>3 DEF Taken
    <3>5. signals[i] = <<"validated">>
      BY <3>2 DEF SignalsExact
    <3>6. SignalsExact'
      BY <3>1, <3>3, <3>5 DEF SignalsExact
    <3> QED
      BY <3>4, <3>6
  <2>2. CASE ~Confirmable(i)
    BY <1>1, <1>3, <2>2 DEF HandleConfirm
  <2> QED
    BY <2>1, <2>2
<1>4. ASSUME NEW i \in DOMAIN proposals, NEW alive \in BOOLEAN, HandleReject(i, alive)
      PROVE  SignalsExact' /\ Taken'
  BY <1>4, TransitionSignals DEF HandleReject, Terminal
<1>5. CASE ConfirmExpires /\ call.purpose = "confirm" /\ UNCHANGED accepted
  <2>1. call.id \in DOMAIN proposals /\ proposals[call.id].state = "confirmed"
    BY <1>5 DEF WellFormed, Attached, OneConfirmed
  <2>2. call.id \in accepted
    BY <2>1 DEF Taken
  <2> QED
    BY <1>5, <2>1, <2>2, TransitionSignals DEF ConfirmExpires, Terminal
<1>6. CASE EmitProposal
  <2> DEFINE card == [action |-> call.action, args |-> call.args,
                      params |-> call.params, state |-> "validated"]
             n == Len(proposals) + 1
  <2>1. /\ proposals' = Append(proposals, card) /\ signals' = Append(signals, <<"validated">>)
        /\ UNCHANGED accepted
    BY <1>6 DEF EmitProposal, InsertValidated
  <2>2. /\ DOMAIN proposals' = DOMAIN proposals \cup {n}
        /\ \A j \in DOMAIN proposals : proposals'[j] = proposals[j] /\ signals'[j] = signals[j]
        /\ proposals'[n].state = "validated" /\ signals'[n] = <<"validated">>
        /\ n \notin DOMAIN proposals
    BY <1>0, <2>1
  <2> HIDE DEF n
  <2>3. SignalsExact'
    BY <2>1, <2>2 DEF SignalsExact
  <2>4. Taken'
    BY <2>1, <2>2 DEF Taken
  <2> QED
    BY <2>3, <2>4
<1>7. ASSUME NEW ok \in BOOLEAN, HandlerReturns(ok)
      PROVE  SignalsExact' /\ Taken'
  <2>1. call.id \in DOMAIN proposals
    BY <1>7 DEF HandlerReturns, WellFormed, Attached
  <2>2. OutcomeState(ok) \in Terminal /\ OutcomeState(ok) # "expired"
    BY DEF OutcomeState, Terminal
  <2> QED
    BY <1>7, <2>1, <2>2, TransitionSignals DEF HandlerReturns
<1>8. CASE ClientEvent
  BY <1>1, <1>2, <1>3, <1>4, <1>8
     DEF ClientEvent, HandleInit, HandleUserMessage, observerVars
<1>9. CASE Model
  BY <1>1, <1>9
     DEF Model, CompletionOpens, CompletionFails, TextDelta, TextDone, StreamEnds, StreamBreaks,
         ToolCall, sessionVars, observerVars
<1>10. CASE Pipeline
  BY <1>1, <1>5, <1>6, <1>7, <1>10, PipelineCases, AcceptedKept
     DEF ProposeFails, sessionVars, observerVars
<1>11. CASE ReceiverDrops \/ UNCHANGED vars
  BY <1>1, <1>11 DEF ReceiverDrops, vars, sessionVars, observerVars
<1> QED
  BY <1>8, <1>9, <1>10, <1>11 DEF Next

(* A session without cards has signalled nothing.                           *)
LEMMA SignalsInit == Init => SignalsExact /\ Taken
BY DEF Init, SignalsExact, Taken

(* Telemetry says of every card exactly the transitions that carry a        *)
(* signal, each once and in order.                                          *)
THEOREM SignalsAreTrue == Spec => []SignalsExact
<1>1. Init => WellFormed /\ SignalsExact /\ Taken
  BY WellFormedInit, SignalsInit
<1>2. WellFormed /\ SignalsExact /\ Taken /\ [Next]_vars => (WellFormed /\ SignalsExact /\ Taken)'
  BY WellFormedStep, SignalsStep
<1> QED
  BY <1>1, <1>2, PTL DEF Spec

-----------------------------------------------------------------------------
(* The frontend's cards. *)

(* Steps that tell the frontend of no card.                                 *)
LEMMA QuietShown ==
  ASSUME Shown, UNCHANGED proposals, client'.told = client.told,
         client.missed => client'.missed
  PROVE  Shown'
BY DEF Shown

(* Message events leave the cards alone and never find a lost event again.  *)
LEMMA MessagesShown ==
  ASSUME client \in ClientType, NEW alive, NEW u, Deliver(alive, u),
         u.missed = client.missed, u.told = client.told
  PROVE  client'.told = client.told /\ (client.missed => client'.missed)
<1>1. CASE alive
  BY <1>1 DEF Deliver
<1>2. CASE ~alive
  BY <1>2 DEF Deliver, ClientType
<1> QED
  BY <1>1, <1>2

(* Flushing a segment and declining are message events.                     *)
LEMMA FlushShown ==
  ASSUME client \in ClientType, Flush \/ Decline
  PROVE  client'.told = client.told /\ (client.missed => client'.missed)
<1>1. CASE Flush /\ turn.segment = 0
  BY <1>1 DEF Flush
<1>2. CASE Flush /\ turn.segment # 0
  <2>1. Deliver(receiver, WithDone(client, turn.segment))
    BY <1>2 DEF Flush
  <2> QED
    BY <2>1, MessageUpdates, MessagesShown
<1>3. CASE Decline
  <2>1. Deliver(receiver, WithDone(client, msgCounter + 1))
    BY <1>3 DEF Decline
  <2> QED
    BY <2>1, MessageUpdates, MessagesShown
<1> QED
  BY <1>1, <1>2, <1>3

(* Telling the state a card is in after the step, and changing no other     *)
(* card, keeps the frontend's cards right.                                  *)
LEMMA CardShown ==
  ASSUME WellFormed, Shown, NEW i \in DOMAIN proposals, NEW s, NEW alive,
         Deliver(alive, WithState(client, i, s)),
         DOMAIN proposals' = DOMAIN proposals, proposals'[i].state = s,
         \A j \in DOMAIN proposals : j # i => proposals'[j] = proposals[j]
  PROVE  Shown'
<1>1. client \in ClientType /\ i \in DOMAIN client.told
  BY DEF WellFormed, TypeOK, Aligned, ClientType
<1>2. SUFFICES ASSUME ~client'.missed, NEW j \in DOMAIN proposals, proposals'[j].state # "confirmed"
               PROVE  client'.told[j] = proposals'[j].state
  BY DEF Shown
<1>3. client'.told = [client.told EXCEPT ![i] = s] /\ ~client.missed
  <2>1. client' = WithState(client, i, s) /\ ~client.missed
    BY <1>1, <1>2, CardUpdate, Delivered
  <2> QED
    BY <1>1, <2>1, CardUpdate
<1>4. CASE j = i
  BY <1>1, <1>3, <1>4 DEF ClientType
<1>5. CASE j # i
  BY <1>1, <1>2, <1>3, <1>5 DEF ClientType, Shown
<1> QED
  BY <1>4, <1>5

(* An accepted transition told to the frontend keeps its cards right.       *)
LEMMA TransitionShown ==
  ASSUME WellFormed, Shown, NEW i \in DOMAIN proposals, NEW s \in States, NEW alive,
         CanTransition(proposals[i].state, s), Transition(i, s),
         Deliver(alive, WithState(client, i, s))
  PROVE  Shown'
<1>1. /\ proposals \in Seq(Proposal) /\ signals \in Seq(Seq(States)) /\ i \in DOMAIN signals
  BY DEF WellFormed, TypeOK, Aligned
<1>2. DOMAIN proposals' = DOMAIN proposals
  BY <1>1, TransitionType
<1>3. /\ proposals'[i].state = s
      /\ \A j \in DOMAIN proposals : j # i => proposals'[j] = proposals[j]
  BY <1>1, TransitionKeeps
<1> QED
  BY <1>2, <1>3, CardShown

(* Every step shows a frontend that lost nothing where each card is.        *)
LEMMA ShownStep ==
  ASSUME WellFormed, Shown, [Next]_vars
  PROVE  Shown'
<1>0. client \in ClientType /\ proposals \in Seq(Proposal)
  BY DEF WellFormed, TypeOK
<1>1. CASE UNCHANGED <<proposals, client>>
  BY <1>1 DEF Shown
<1>2. ASSUME NEW c \in Contexts, NEW alive \in BOOLEAN, HandleContextUpdate(c, alive)
      PROVE  Shown'
  <2> DEFINE informed == [i \in DOMAIN proposals |->
               IF i \in Pending THEN "expired" ELSE client.told[i]]
             u == [client EXCEPT !.told = informed]
  <2>1. CASE /\ proposals' = [i \in DOMAIN proposals |->
                    IF i \in Pending THEN [proposals[i] EXCEPT !.state = "expired"] ELSE proposals[i]]
             /\ Deliver(alive, u)
    <3> SUFFICES ASSUME ~client'.missed, NEW i \in DOMAIN proposals,
                        proposals'[i].state # "confirmed"
                 PROVE  client'.told[i] = proposals'[i].state
      BY <2>1 DEF Shown
    <3>1. u.missed = client.missed /\ u.told = informed
      BY <1>0 DEF ClientType
    <3>2. client' = u /\ ~client.missed
      BY <1>0, <2>1, <3>1, Delivered
    <3>3. proposals[i] \in Proposal
      BY <1>0
    <3>4. CASE i \in Pending
      BY <2>1, <3>1, <3>2, <3>3, <3>4 DEF Proposal
    <3>5. CASE i \notin Pending
      BY <2>1, <3>1, <3>2, <3>5 DEF Shown
    <3> QED
      BY <3>4, <3>5
  <2> QED
    BY <1>1, <1>2, <2>1 DEF HandleContextUpdate, TellExpired
<1>3. ASSUME NEW alive \in BOOLEAN, HandleUserMessage(alive)
      PROVE  Shown'
  BY <1>0, <1>3, QuietShown DEF HandleUserMessage, ClientType
<1>4. ASSUME NEW i \in DOMAIN proposals, NEW alive \in BOOLEAN, HandleConfirm(i, alive)
      PROVE  Shown'
  <2>1. CASE Confirmable(i)
    <3>1. proposals' = [proposals EXCEPT ![i].state = "confirmed"] /\ UNCHANGED client
      BY <1>4, <2>1 DEF HandleConfirm
    <3>2. /\ DOMAIN proposals' = DOMAIN proposals
          /\ \A j \in DOMAIN proposals : j # i => proposals'[j] = proposals[j]
          /\ proposals'[i].state = "confirmed"
      <4>1. proposals[i] \in Proposal
        BY <1>0
      <4> QED
        BY <3>1, <4>1 DEF Proposal
    <3> QED
      BY <3>1, <3>2 DEF Shown
  <2>2. CASE ~Confirmable(i)
    <3>1. Deliver(alive, WithState(client, i, proposals[i].state)) /\ UNCHANGED proposals
      BY <1>4, <2>2 DEF HandleConfirm
    <3> QED
      BY <3>1, CardShown
  <2> QED
    BY <2>1, <2>2
<1>5. ASSUME NEW i \in DOMAIN proposals, NEW alive \in BOOLEAN, HandleReject(i, alive)
      PROVE  Shown'
  <2>1. CASE CanTransition(proposals[i].state, "rejected")
    BY <1>5, <2>1, TransitionShown DEF HandleReject, States
  <2>2. CASE ~CanTransition(proposals[i].state, "rejected")
    BY <1>1, <1>5, <2>2 DEF HandleReject, Transition
  <2> QED
    BY <2>1, <2>2
<1>6. CASE Model
  <2>1. UNCHANGED proposals
    BY <1>6
       DEF Model, CompletionOpens, CompletionFails, TextDelta, TextDone, StreamEnds, StreamBreaks,
           ToolCall, sessionVars
  <2>2. CASE \/ UNCHANGED client
             \/ Flush \/ Decline
             \/ \E m : Deliver(receiver, WithDelta(client, m))
             \/ Deliver(receiver, WithLlmError(client))
    BY <1>0, <2>1, <2>2, FlushShown, MessageUpdates, MessagesShown, QuietShown
  <2>3. CASE StreamBreaks
    <3> DEFINE c == IF turn.segment = 0 THEN client ELSE WithDone(client, turn.segment)
    <3>1. c \in ClientType /\ c.missed = client.missed /\ c.told = client.told
      BY <1>0, MessageUpdates, ClientMessages DEF WellFormed, TypeOK, TurnType
    <3>2. Deliver(receiver, WithLlmError(c))
      BY <2>3 DEF StreamBreaks
    <3> HIDE DEF c
    <3> QED
      BY <1>0, <2>1, <3>1, <3>2, MessageUpdates, MessagesShown, QuietShown
  <2> QED
    BY <1>6, <2>2, <2>3
       DEF Model, CompletionOpens, CompletionFails, TextDelta, TextDone, StreamEnds, ToolCall,
           observerVars
<1>7. ASSUME NEW failure, ProposeFails(failure)
      PROVE  Shown'
  <2>1. UNCHANGED proposals /\ (UNCHANGED client \/ Decline)
    BY <1>7 DEF ProposeFails
  <2> QED
    BY <1>0, <2>1, FlushShown, QuietShown
<1>8. CASE ConfirmExpires /\ call.purpose = "confirm"
  <2>1. /\ call.id \in DOMAIN proposals /\ "expired" \in States
        /\ CanTransition(proposals[call.id].state, "expired")
    BY <1>8 DEF WellFormed, Attached, OneConfirmed, CanTransition, States
  <2> QED
    BY <1>8, <2>1, TransitionShown DEF ConfirmExpires
<1>9. CASE EmitProposal
  <2> DEFINE card == [action |-> call.action, args |-> call.args,
                      params |-> call.params, state |-> "validated"]
             n == Len(proposals) + 1
             word == IF receiver THEN "validated" ELSE "none"
  <2>1. /\ proposals' = Append(proposals, card)
        /\ client' = [client EXCEPT !.told = Append(@, word), !.missed = @ \/ ~receiver]
    BY <1>9 DEF EmitProposal, InsertValidated
  <2>2. /\ DOMAIN proposals' = DOMAIN proposals \cup {n}
        /\ \A j \in DOMAIN proposals : proposals'[j] = proposals[j]
        /\ proposals'[n].state = "validated"
    BY <1>0, <2>1
  <2>3. /\ client'.told = Append(client.told, word)
        /\ ~client'.missed => ~client.missed /\ word = "validated"
    BY <1>0, <2>1 DEF ClientType
  <2>4. /\ client.told \in Seq(States \cup {"none"}) /\ Len(client.told) = Len(proposals)
        /\ Len(proposals) \in Nat
    BY <1>0 DEF ClientType, WellFormed, Aligned
  <2>5. /\ client'.told[n] = word
        /\ \A j \in DOMAIN proposals : client'.told[j] = client.told[j]
    BY <1>0, <2>3, <2>4
  <2> HIDE DEF n, word, card
  <2> QED
    BY <2>2, <2>3, <2>5 DEF Shown
<1>10. ASSUME NEW ok \in BOOLEAN, HandlerReturns(ok)
       PROVE  Shown'
  <2>1. /\ call.id \in DOMAIN proposals /\ OutcomeState(ok) \in States
        /\ CanTransition(proposals[call.id].state, OutcomeState(ok))
    BY <1>10 DEF HandlerReturns, WellFormed, Attached, OneConfirmed, CanTransition, OutcomeState, States
  <2> QED
    BY <1>10, <2>1, TransitionShown DEF HandlerReturns
<1>11. CASE ClientEvent
  BY <1>1, <1>2, <1>3, <1>4, <1>5, <1>11 DEF ClientEvent, HandleInit, observerVars
<1>12. CASE Pipeline
  BY <1>1, <1>7, <1>8, <1>9, <1>10, <1>12, PipelineCases DEF sessionVars, observerVars
<1>13. CASE ReceiverDrops \/ UNCHANGED vars
  BY <1>1, <1>13 DEF ReceiverDrops, vars, sessionVars, observerVars
<1> QED
  BY <1>6, <1>11, <1>12, <1>13 DEF Next

(* A session without cards shows none.                                      *)
LEMMA ShownInit == Init => Shown
BY DEF Init, Shown

(* A session at rest shows a frontend that lost no event every card in the  *)
(* state the store has for it.                                              *)
THEOREM FrontendInformed == Spec => []ClientInformed
<1>1. Init => WellFormed /\ Shown
  BY WellFormedInit, ShownInit
<1>2. WellFormed /\ Shown /\ [Next]_vars => (WellFormed /\ Shown)'
  BY WellFormedStep, ShownStep
<1>3. WellFormed /\ Shown => ClientInformed
  BY DEF WellFormed, Attached, OneConfirmed, Shown, ClientInformed
<1> QED
  BY <1>1, <1>2, <1>3, PTL DEF Spec

-----------------------------------------------------------------------------
(* The retry loop. *)

(* Every step stays within the retry budget, and a retry knows its failure. *)
LEMMA BudgetStep ==
  ASSUME WellFormed, Budget, [Next]_vars
  PROVE  Budget'
<1>0. /\ MaxRetries \in Nat /\ turn.completions \in Nat /\ turn.retries \in Nat
      /\ turn \in TurnType
  BY BoundAssumption DEF WellFormed, TypeOK, TurnType
<1>1. CASE UNCHANGED turn /\ (at' = "completing" => at = "completing" /\ UNCHANGED lastTurn)
  BY <1>1 DEF Budget
<1>2. CASE Return
  BY <1>0, <1>2 DEF Return, NoTurn, Budget
<1>3. ASSUME at' = "streaming",
             turn'.completions = turn.completions, turn'.retries = turn.retries
      PROVE  Budget'
  BY <1>3 DEF Budget
<1>4. ASSUME NEW alive \in BOOLEAN, HandleUserMessage(alive)
      PROVE  Budget'
  BY <1>0, <1>4 DEF HandleUserMessage, NoTurn, Budget
<1>5. CASE Model
  <2>1. ASSUME NEW t \in ToolCalls, ToolCall(t)
        PROVE  Budget'
    <3>1. CASE FlushFails
      BY <1>2, <2>1, <3>1 DEF ToolCall
    <3>2. CASE ~FlushFails
      BY <1>0, <2>1, <3>2 DEF ToolCall, Continue, Budget, TurnType
    <3> QED
      BY <3>1, <3>2
  <2>2. CASE CompletionOpens
    BY <1>0, <1>3, <2>2 DEF CompletionOpens, Continue, TurnType
  <2>3. CASE TextDelta
    BY <1>0, <1>2, <1>3, <2>3 DEF TextDelta, Continue, TurnType
  <2>4. CASE TextDone
    BY <1>0, <1>2, <1>3, <2>4 DEF TextDone, Continue, TurnType
  <2> QED
    BY <1>2, <1>5, <2>1, <2>2, <2>3, <2>4 DEF Model, CompletionFails, StreamEnds, StreamBreaks
<1>6. ASSUME NEW failure, ProposeFails(failure)
      PROVE  Budget'
  <2>1. CASE MayRetry(failure)
    <3> DEFINE n == IF turn.completions > MaxRetries + 1 THEN turn.completions
                    ELSE turn.completions + 1
    <3>1. /\ turn' = [turn EXCEPT !.retries = turn.retries - 1, !.fixing = TRUE, !.completions = n]
          /\ turn.retries > 0 /\ lastTurn' = "failure"
      BY <1>6, <2>1 DEF ProposeFails, MayRetry, RetriesAfter, RecordFailure
    <3>2. turn'.retries = turn.retries - 1 /\ turn'.completions = n
      BY <1>0, <3>1 DEF TurnType
    <3>3. n = turn.completions + 1
      BY <1>0, <3>1 DEF Budget
    <3> HIDE DEF n
    <3> QED
      BY <1>0, <3>1, <3>2, <3>3 DEF Budget
  <2>2. CASE ~MayRetry(failure)
    BY <1>1, <1>2, <1>6, <2>2 DEF ProposeFails, Continue
  <2> QED
    BY <2>1, <2>2
<1>7. CASE ConfirmExpires \/ \E ok \in BOOLEAN : HandlerReturns(ok)
  BY <1>2, <1>7 DEF ConfirmExpires, HandlerReturns
<1>8. CASE EmitProposal
  BY <1>1, <1>2, <1>8 DEF EmitProposal, Continue
<1>9. CASE ClientEvent
  BY <1>1, <1>4, <1>9
     DEF ClientEvent, HandleInit, HandleContextUpdate, HandleConfirm, HandleReject
<1>10. CASE Pipeline
  BY <1>1, <1>6, <1>7, <1>8, <1>10, PipelineCases
<1>11. CASE ReceiverDrops \/ UNCHANGED vars
  BY <1>1, <1>11 DEF ReceiverDrops, vars, sessionVars
<1> QED
  BY <1>5, <1>9, <1>10, <1>11 DEF Next

(* A new session has spent nothing.                                         *)
LEMMA BudgetInit == Init => Budget
BY BoundAssumption DEF Init, NoTurn, Budget

(* One user turn asks the model at most 1 + max_validation_retries times,   *)
(* and each retry with the failure at the end of the history.               *)
THEOREM RetriesInformed == Spec => []RetryInformed
<1>1. Init => WellFormed /\ Budget
  BY WellFormedInit, BudgetInit
<1>2. WellFormed /\ Budget /\ [Next]_vars => (WellFormed /\ Budget)'
  BY WellFormedStep, BudgetStep
<1>3. WellFormed /\ Budget => RetryInformed
  BY BoundAssumption DEF WellFormed, TypeOK, TurnType, Budget, RetryInformed
<1> QED
  BY <1>1, <1>2, <1>3, PTL DEF Spec

-----------------------------------------------------------------------------
(* The transcript. *)

(* The frontend's messages, given the segment that is open and the number   *)
(* of message ids handed out.                                               *)
Transcribed(c, segment, counter) ==
  ~c.missed =>
    /\ c.open = IF segment = 0 THEN {} ELSE {segment}
    /\ c.transcript = [m \in 1 .. (IF segment = 0 THEN counter ELSE counter - 1) |-> m]

(* The next message extends a transcript that holds all before it.          *)
LEMMA NextMessage ==
  ASSUME NEW n \in Nat
  PROVE  Append([m \in 1 .. n |-> m], n + 1) = [m \in 1 .. n + 1 |-> m]
<1> DEFINE s == [m \in 1 .. n |-> m]
<1>1. s \in Seq(Nat) /\ Len(s) = n
  OBVIOUS
<1>2. \A m \in 1 .. n : s[m] = m
  OBVIOUS
<1> HIDE DEF s
<1>3. /\ Append(s, n + 1) \in Seq(Nat) /\ Len(Append(s, n + 1)) = n + 1
      /\ \A m \in 1 .. n + 1 : Append(s, n + 1)[m] = m
  BY <1>1, <1>2
<1>4. Append(s, n + 1) = [m \in 1 .. n + 1 |-> m]
  BY <1>3
<1> QED
  BY <1>4 DEF s

(* Opening a segment, streaming on in it, closing it, and a message that is *)
(* closed at once: what each does to the transcript.                        *)
LEMMA TranscriptUpdates ==
  ASSUME NEW c \in ClientType, NEW n \in Nat
  PROVE  /\ Transcribed(c, 0, n) => Transcribed(WithDelta(c, n + 1), n + 1, n + 1)
         /\ Transcribed(c, 0, n) => Transcribed(WithDone(c, n + 1), 0, n + 1)
         /\ n # 0 /\ Transcribed(c, n, n) => Transcribed(WithDelta(c, n), n, n)
         /\ n # 0 /\ Transcribed(c, n, n) => Transcribed(WithDone(c, n), 0, n)
<1>1. /\ n + 1 # 0 /\ (n + 1) - 1 = n
      /\ WithDelta(c, n + 1).missed = c.missed /\ WithDelta(c, n).missed = c.missed
      /\ WithDone(c, n + 1).missed = c.missed /\ WithDone(c, n).missed = c.missed
  BY MessageUpdates
<1>2. ASSUME Transcribed(c, 0, n), ~c.missed
      PROVE  /\ WithDelta(c, n + 1).open = {n + 1} /\ WithDone(c, n + 1).open = {}
             /\ WithDelta(c, n + 1).transcript = [m \in 1 .. n |-> m]
             /\ WithDone(c, n + 1).transcript = [m \in 1 .. n + 1 |-> m]
  <2>1. c.open = {} /\ c.transcript = [m \in 1 .. n |-> m]
    BY <1>2 DEF Transcribed
  <2>2. WithDelta(c, n + 1).open = {n + 1} /\ WithDelta(c, n + 1).transcript = [m \in 1 .. n |-> m]
    BY <2>1, MessageUpdates
  <2>3. WithDone(c, n + 1).open = {}
    BY <2>1, MessageUpdates
  <2>4. WithDone(c, n + 1).transcript = [m \in 1 .. n + 1 |-> m]
    <3>1. WithDone(c, n + 1).transcript = Append(c.transcript, n + 1)
      BY MessageUpdates, Zenon
    <3> QED
      BY <2>1, <3>1, NextMessage, Zenon
  <2> QED
    BY <2>2, <2>3, <2>4
<1>3. ASSUME n # 0, Transcribed(c, n, n), ~c.missed
      PROVE  /\ WithDelta(c, n).open = {n} /\ WithDone(c, n).open = {}
             /\ WithDelta(c, n).transcript = [m \in 1 .. n - 1 |-> m]
             /\ WithDone(c, n).transcript = [m \in 1 .. n |-> m]
  <2>1. c.open = {n} /\ c.transcript = [m \in 1 .. n - 1 |-> m]
    BY <1>3 DEF Transcribed
  <2>2. n - 1 \in Nat /\ (n - 1) + 1 = n
    BY <1>3
  <2>3. Append([m \in 1 .. n - 1 |-> m], n) = [m \in 1 .. n |-> m]
    <3> DEFINE k == n - 1
    <3> HIDE DEF k
    <3>1. Append([m \in 1 .. k |-> m], k + 1) = [m \in 1 .. k + 1 |-> m]
      BY <2>2, NextMessage DEF k
    <3> QED
      BY <2>2, <3>1 DEF k
  <2>4. WithDelta(c, n).open = {n} /\ WithDelta(c, n).transcript = [m \in 1 .. n - 1 |-> m]
    BY <2>1, MessageUpdates
  <2>5. WithDone(c, n).open = {}
    BY <2>1, MessageUpdates
  <2>6. WithDone(c, n).transcript = [m \in 1 .. n |-> m]
    <3>1. WithDone(c, n).transcript = Append(c.transcript, n)
      BY MessageUpdates, Zenon
    <3> QED
      BY <2>1, <2>3, <3>1, Zenon
  <2> QED
    BY <2>4, <2>5, <2>6
<1>4. Transcribed(c, 0, n) => /\ Transcribed(WithDelta(c, n + 1), n + 1, n + 1)
                              /\ Transcribed(WithDone(c, n + 1), 0, n + 1)
  BY <1>1, <1>2 DEF Transcribed
<1>5. n # 0 /\ Transcribed(c, n, n) => /\ Transcribed(WithDelta(c, n), n, n)
                                       /\ Transcribed(WithDone(c, n), 0, n)
  BY <1>1, <1>3 DEF Transcribed
<1> QED
  BY <1>4, <1>5

(* A message event delivers the transcript it carries, or loses it.         *)
LEMMA DeliverTranscribed ==
  ASSUME client \in ClientType, NEW alive, NEW u, u.missed = client.missed,
         Deliver(alive, u), NEW g, NEW n, Transcribed(u, g, n)
  PROVE  Transcribed(client', g, n)
<1>1. CASE alive
  BY <1>1 DEF Deliver
<1>2. CASE ~alive
  BY <1>2 DEF Deliver, ClientType, Transcribed
<1> QED
  BY <1>1, <1>2

Scribed == Segments /\ Transcribed(client, turn.segment, msgCounter)

(* Flushing leaves every message closed.                                    *)
LEMMA FlushScribed ==
  ASSUME WellFormed, Scribed, Flush
  PROVE  Transcribed(client', 0, msgCounter)
<1>1. client \in ClientType /\ msgCounter \in Nat
  BY DEF WellFormed, TypeOK
<1>2. CASE turn.segment = 0
  BY <1>2 DEF Flush, Scribed
<1>3. CASE turn.segment # 0
  <2>1. turn.segment = msgCounter /\ Deliver(receiver, WithDone(client, msgCounter))
    BY <1>3 DEF Flush, Scribed, Segments
  <2>2. Transcribed(WithDone(client, msgCounter), 0, msgCounter)
    BY <1>1, <1>3, <2>1, TranscriptUpdates DEF Scribed
  <2> QED
    BY <1>1, <2>1, <2>2, MessageUpdates, DeliverTranscribed
<1> QED
  BY <1>2, <1>3

(* Declining is a message of its own.                                       *)
LEMMA DeclineScribed ==
  ASSUME WellFormed, Scribed, turn.segment = 0, Decline
  PROVE  Transcribed(client', 0, msgCounter')
<1>1. client \in ClientType /\ msgCounter \in Nat
  BY DEF WellFormed, TypeOK
<1>2. msgCounter' = msgCounter + 1 /\ Deliver(receiver, WithDone(client, msgCounter + 1))
  BY DEF Decline
<1>3. Transcribed(WithDone(client, msgCounter + 1), 0, msgCounter + 1)
  BY <1>1, TranscriptUpdates DEF Scribed
<1> QED
  BY <1>1, <1>2, <1>3, MessageUpdates, DeliverTranscribed

(* Steps that send no message event.                                        *)
LEMMA QuietScribed ==
  ASSUME Scribed, UNCHANGED msgCounter, turn'.segment = turn.segment,
         turn.segment # 0 => at' = "streaming",
         ~client'.missed => /\ ~client.missed
                            /\ client'.open = client.open
                            /\ client'.transcript = client.transcript
  PROVE  Scribed'
BY DEF Scribed, Segments, Transcribed

(* Telling the frontend of a card is no message event.                      *)
LEMMA CardScribed ==
  ASSUME client \in ClientType, NEW alive, NEW i, NEW s, Deliver(alive, WithState(client, i, s))
  PROVE  ~client'.missed => /\ ~client.missed
                            /\ client'.open = client.open
                            /\ client'.transcript = client.transcript
<1> DEFINE u == WithState(client, i, s)
<1>1. /\ u.missed = client.missed /\ u.open = client.open
      /\ u.transcript = client.transcript
  BY DEF WithState, ClientType
<1> HIDE DEF u
<1>2. ASSUME ~client'.missed
      PROVE  client' = u /\ ~client.missed
  <2>1. Deliver(alive, u)
    BY DEF u
  <2> QED
    BY <1>1, <1>2, <2>1, Delivered
<1> QED
  BY <1>1, <1>2

(* Every step of the model's completion keeps the transcript.               *)
LEMMA ModelScribed ==
  ASSUME WellFormed, Scribed, Model
  PROVE  Scribed'
<1>0. /\ client \in ClientType /\ msgCounter \in Nat /\ turn \in TurnType
      /\ turn.segment \in Nat
  BY DEF WellFormed, TypeOK, TurnType
<1>1. ASSUME turn'.segment = 0, Transcribed(client', 0, msgCounter')
      PROVE  Scribed'
  BY <1>1 DEF Scribed, Segments
<1>2. ASSUME Return
      PROVE  turn'.segment = 0
  BY <1>2 DEF Return, NoTurn
<1>3. CASE CompletionOpens
  <2>1. turn'.segment = turn.segment
    BY <1>0, <1>3 DEF CompletionOpens, TurnType
  <2> QED
    BY <1>3, <2>1, QuietScribed DEF CompletionOpens, Continue, sessionVars, observerVars
<1>4. CASE CompletionFails
  <2>1. turn.segment = 0 /\ turn'.segment = 0
    BY <1>2, <1>4 DEF CompletionFails, Scribed, Segments
  <2>2. CASE Decline
    BY <1>1, <2>1, <2>2, DeclineScribed
  <2>3. CASE Deliver(receiver, WithLlmError(client)) /\ UNCHANGED msgCounter
    <3>1. Transcribed(WithLlmError(client), 0, msgCounter)
      BY <1>0, <2>1, MessageUpdates DEF Scribed, Transcribed
    <3> QED
      BY <1>0, <1>1, <2>1, <2>3, <3>1, MessageUpdates, DeliverTranscribed
  <2> QED
    BY <1>4, <2>2, <2>3 DEF CompletionFails
<1>5. CASE TextDelta
  <2> DEFINE m == IF turn.segment = 0 THEN msgCounter + 1 ELSE turn.segment
  <2>1. msgCounter' = m /\ m \in Nat /\ m # 0
    BY <1>0, <1>5 DEF TextDelta, Scribed, Segments
  <2>2. Transcribed(WithDelta(client, m), m, m)
    BY <1>0, TranscriptUpdates DEF Scribed, Segments
  <2>3. Deliver(receiver, WithDelta(client, m))
    BY <1>5 DEF TextDelta
  <2>4. CASE receiver
    <3>1. turn'.segment = m /\ at' = "streaming"
      BY <1>0, <1>5, <2>4 DEF TextDelta, Continue, TurnType
    <3>2. Transcribed(client', m, m)
      BY <1>0, <2>2, <2>3, MessageUpdates, DeliverTranscribed
    <3> QED
      BY <2>1, <3>1, <3>2 DEF Scribed, Segments
  <2>5. CASE ~receiver
    <3>1. client'.missed /\ turn'.segment = 0
      BY <1>0, <1>2, <1>5, <2>3, <2>5 DEF TextDelta, Deliver, ClientType
    <3> QED
      BY <1>1, <3>1 DEF Transcribed
  <2> QED
    BY <2>4, <2>5
<1>6. CASE TextDone
  <2>1. turn'.segment = 0
    BY <1>0, <1>2, <1>6 DEF TextDone, TurnType
  <2> QED
    BY <1>1, <1>6, <2>1, FlushScribed DEF TextDone
<1>7. ASSUME NEW t \in ToolCalls, ToolCall(t)
      PROVE  Scribed'
  <2>1. turn'.segment = 0
    BY <1>0, <1>2, <1>7 DEF ToolCall, TurnType
  <2> QED
    BY <1>1, <1>7, <2>1, FlushScribed DEF ToolCall
<1>8. CASE StreamEnds
  BY <1>1, <1>2, <1>8, FlushScribed DEF StreamEnds
<1>9. CASE StreamBreaks
  <2> DEFINE c == IF turn.segment = 0 THEN client ELSE WithDone(client, turn.segment)
  <2>1. c \in ClientType /\ c.missed = client.missed
    BY <1>0, MessageUpdates, ClientMessages
  <2>2. Transcribed(c, 0, msgCounter)
    BY <1>0, TranscriptUpdates DEF Scribed, Segments
  <2>3. Deliver(receiver, WithLlmError(c)) /\ UNCHANGED msgCounter /\ turn'.segment = 0
    BY <1>2, <1>9 DEF StreamBreaks
  <2> HIDE DEF c
  <2>4. Transcribed(WithLlmError(c), 0, msgCounter)
    BY <2>1, <2>2, MessageUpdates DEF Transcribed
  <2> QED
    BY <1>0, <1>1, <2>1, <2>3, <2>4, MessageUpdates, DeliverTranscribed
<1> QED
  BY <1>3, <1>4, <1>5, <1>6, <1>7, <1>8, <1>9 DEF Model

(* Every step keeps the transcript.                                         *)
LEMMA ScribedStep ==
  ASSUME WellFormed, Scribed, [Next]_vars
  PROVE  Scribed'
<1>0. client \in ClientType /\ turn \in TurnType
  BY DEF WellFormed, TypeOK
<1>1. CASE UNCHANGED <<msgCounter, turn, client>> /\ (at = "streaming" => at' = "streaming")
  BY <1>1, QuietScribed DEF Scribed, Segments
<1>2. ASSUME NEW i, NEW s, NEW alive, Deliver(alive, WithState(client, i, s)),
             UNCHANGED msgCounter, turn'.segment = 0, at # "streaming"
      PROVE  Scribed'
  BY <1>0, <1>2, CardScribed, QuietScribed DEF Scribed, Segments
<1>3. ASSUME Return
      PROVE  turn'.segment = 0
  BY <1>3 DEF Return, NoTurn
<1>4. ASSUME NEW c \in Contexts, NEW alive \in BOOLEAN, HandleContextUpdate(c, alive)
      PROVE  Scribed'
  <2> DEFINE u == [client EXCEPT !.told = [i \in DOMAIN proposals |->
                     IF i \in Pending THEN "expired" ELSE client.told[i]]]
  <2>1. u.missed = client.missed /\ u.open = client.open /\ u.transcript = client.transcript
    BY <1>0 DEF ClientType
  <2>2. UNCHANGED <<msgCounter, turn, at>> /\ (UNCHANGED client \/ Deliver(alive, u))
    BY <1>4 DEF HandleContextUpdate, TellExpired
  <2> HIDE DEF u
  <2> QED
    BY <1>0, <1>1, <2>1, <2>2, Delivered, QuietScribed DEF Scribed, Segments
<1>5. ASSUME NEW alive \in BOOLEAN, HandleUserMessage(alive)
      PROVE  Scribed'
  <2>1. /\ client'.missed = client.missed /\ client'.open = client.open
        /\ client'.transcript = client.transcript
    BY <1>0, <1>5 DEF HandleUserMessage, ClientType
  <2>2. turn.segment = 0 /\ turn'.segment = 0 /\ UNCHANGED msgCounter
    BY <1>5 DEF HandleUserMessage, NoTurn, Scribed, Segments
  <2> QED
    BY <2>1, <2>2, QuietScribed
<1>6. ASSUME NEW i \in DOMAIN proposals, NEW alive \in BOOLEAN,
             HandleConfirm(i, alive) \/ HandleReject(i, alive)
      PROVE  Scribed'
  <2>1. at = "idle" /\ turn.segment = 0 /\ UNCHANGED <<msgCounter, turn>>
    BY <1>6 DEF HandleConfirm, HandleReject, Scribed, Segments
  <2> QED
    BY <1>1, <1>2, <1>6, <2>1 DEF HandleConfirm, HandleReject
<1>7. ASSUME NEW failure, ProposeFails(failure), at # "streaming"
      PROVE  Scribed'
  <2>1. turn.segment = 0
    BY <1>7 DEF Scribed, Segments
  <2>2. turn'.segment = 0
    BY <1>0, <1>3, <1>7, <2>1 DEF ProposeFails, TurnType
  <2>3. UNCHANGED <<msgCounter, client>> \/ Decline
    BY <1>7 DEF ProposeFails
  <2>4. CASE Decline
    BY <2>1, <2>2, <2>4, DeclineScribed DEF Scribed, Segments
  <2>5. CASE UNCHANGED <<msgCounter, client>>
    BY <2>1, <2>2, <2>5, QuietScribed
  <2> QED
    BY <2>3, <2>4, <2>5
<1>8. CASE ConfirmExpires /\ at # "streaming"
  BY <1>2, <1>3, <1>8 DEF ConfirmExpires
<1>9. ASSUME NEW ok \in BOOLEAN, HandlerReturns(ok)
      PROVE  Scribed'
  BY <1>2, <1>3, <1>9 DEF HandlerReturns
<1>10. CASE EmitProposal
  <2>1. /\ client'.open = client.open /\ client'.transcript = client.transcript
        /\ ~client'.missed => ~client.missed
    BY <1>0, <1>10 DEF EmitProposal, ClientType
  <2>2. turn.segment = 0 /\ turn'.segment = 0 /\ UNCHANGED msgCounter
    BY <1>3, <1>10 DEF EmitProposal, Scribed, Segments
  <2> QED
    BY <2>1, <2>2, QuietScribed
<1>11. CASE ClientEvent
  BY <1>1, <1>4, <1>5, <1>6, <1>11 DEF ClientEvent, HandleInit, observerVars
<1>12. CASE Pipeline
  BY <1>1, <1>7, <1>8, <1>9, <1>10, <1>12, PipelineCases DEF sessionVars, observerVars
<1>13. CASE ReceiverDrops \/ UNCHANGED vars
  BY <1>1, <1>13 DEF ReceiverDrops, vars, sessionVars, observerVars
<1> QED
  BY <1>11, <1>12, <1>13, ModelScribed DEF Next

(* A new session has said nothing.                                          *)
LEMMA ScribedInit == Init => Scribed
<1>1. [m \in 1 .. 0 |-> m] = <<>>
  OBVIOUS
<1> QED
  BY <1>1 DEF Init, NoTurn, Scribed, Segments, Transcribed

(* Exactly the segment being streamed is open at a frontend that lost no    *)
(* event, and the messages before it were closed once each, in order.       *)
THEOREM TranscriptIsComplete == Spec => []TranscriptComplete
<1>1. Init => WellFormed /\ Scribed
  BY WellFormedInit, ScribedInit
<1>2. WellFormed /\ Scribed /\ [Next]_vars => (WellFormed /\ Scribed)'
  BY WellFormedStep, ScribedStep
<1>3. Scribed => TranscriptComplete
  BY DEF Scribed, Transcribed, TranscriptComplete
<1> QED
  BY <1>1, <1>2, <1>3, PTL DEF Spec

-----------------------------------------------------------------------------
(***************************************************************************)
(* The session implements the propose-only contract of ProposalLifecycle:  *)
(* every step of the session is one move of one card, the withdrawal of    *)
(* all pending cards, a new card, or nothing the contract can see.         *)
(***************************************************************************)

(* The refinement mapping. *)
Cards ==
  [i \in DOMAIN proposals |-> [deed |-> DeedOf(proposals[i]), phase |-> Phase(i)]]

Performed ==
  [k \in DOMAIN calls |-> [card |-> calls[k].id, deed |-> DeedOf(calls[k])]]

(* What Append yields, position by position, for a sequence of anything.    *)
LEMMA AppendIs ==
  ASSUME NEW n \in Nat, NEW s, s = [j \in 1 .. n |-> s[j]], NEW e
  PROVE  Append(s, e) = [j \in 1 .. n + 1 |-> IF j = n + 1 THEN e ELSE s[j]]
<1> DEFINE S == {s[j] : j \in 1 .. n} \cup {e}
<1>1. s \in Seq(S) /\ e \in S /\ Len(s) = n
  OBVIOUS
<1> HIDE DEF S
<1>2. /\ Append(s, e) \in Seq(S) /\ Len(Append(s, e)) = n + 1
      /\ \A j \in 1 .. n : Append(s, e)[j] = s[j]
      /\ Append(s, e)[n + 1] = e
  BY <1>1
<1>3. \A j \in 1 .. n + 1 : j # n + 1 => j \in 1 .. n
  OBVIOUS
<1> QED
  BY <1>2, <1>3

(* The phase of a card, given where the store has it.                       *)
LEMMA PhaseIs ==
  ASSUME NEW i \in DOMAIN proposals
  PROVE  /\ proposals[i].state = "validated" => Phase(i) = "pending"
         /\ proposals[i].state = "confirmed" =>
              Phase(i) = IF at = "executing" /\ call.id = i THEN "running" ELSE "approved"
         /\ proposals[i].state \notin {"validated", "confirmed"} => Phase(i) = proposals[i].state
BY DEF Phase

(* A card the step leaves alone, and that no handler has, keeps its phase.  *)
LEMMA PhaseKept ==
  ASSUME NEW i, proposals'[i].state = proposals[i].state, proposals[i].state # "confirmed"
  PROVE  Phase(i)' = Phase(i)
BY DEF Phase

(* The cards are as many as the proposals, the deeds as many as the calls.  *)
LEMMA Mapped ==
  ASSUME WellFormed
  PROVE  /\ DOMAIN Cards = DOMAIN proposals /\ DOMAIN Cards = 1 .. Len(proposals)
         /\ \A i \in DOMAIN proposals :
              Cards[i] = [deed |-> DeedOf(proposals[i]), phase |-> Phase(i)]
         /\ DOMAIN Performed = 1 .. Len(calls)
         /\ Len(proposals) \in Nat /\ Len(calls) \in Nat
BY DEF WellFormed, TypeOK, Cards, Performed

(* A step the contract does not see: the same cards in the same phases, the *)
(* same deeds.                                                              *)
LEMMA Stutter ==
  ASSUME UNCHANGED <<proposals, calls>>,
         \A i \in DOMAIN proposals :
           proposals[i].state = "confirmed" =>
             (at = "executing" /\ call.id = i <=> at' = "executing" /\ call'.id = i)
  PROVE  UNCHANGED <<Cards, Performed>>
<1>1. \A i \in DOMAIN proposals : Phase(i)' = Phase(i)
  BY DEF Phase
<1>2. Cards' = Cards
  BY <1>1 DEF Cards, DeedOf
<1> QED
  BY <1>2 DEF Performed, DeedOf

(* One card changes its phase, and all keep their deeds.                    *)
LEMMA OneMoves ==
  ASSUME WellFormed, NEW i \in DOMAIN proposals, NEW from, NEW to,
         DOMAIN proposals' = DOMAIN proposals,
         \A j \in DOMAIN proposals : DeedOf(proposals[j])' = DeedOf(proposals[j]),
         \A j \in DOMAIN proposals : j # i => Phase(j)' = Phase(j),
         Phase(i) = from, Phase(i)' = to
  PROVE  Lifecycle!Move(i, from, to)
<1>1. /\ DOMAIN Cards = DOMAIN proposals /\ DOMAIN Cards' = DOMAIN proposals
      /\ \A j \in DOMAIN proposals :
           /\ Cards[j] = [deed |-> DeedOf(proposals[j]), phase |-> Phase(j)]
           /\ Cards'[j] = [deed |-> DeedOf(proposals[j])', phase |-> Phase(j)']
  BY DEF Cards
<1>2. Cards' = [Cards EXCEPT ![i].phase = to]
  <2> DEFINE moved == [Cards EXCEPT ![i].phase = to]
  <2>1. DOMAIN moved = DOMAIN proposals
    BY <1>1
  <2>2. \A j \in DOMAIN proposals : Cards'[j] = moved[j]
    BY <1>1
  <2>3. Cards' = [j \in DOMAIN proposals |-> Cards'[j]] /\ moved = [j \in DOMAIN proposals |-> moved[j]]
    BY <1>1, <2>1 DEF Cards
  <2> QED
    BY <2>2, <2>3
<1>3. i \in DOMAIN Cards /\ Cards[i].phase = from
  BY <1>1
<1> QED
  BY <1>2, <1>3 DEF Cards, Lifecycle!Move, Lifecycle!InPhase

(* A card of the store is in one of the states.                             *)
LEMMA CardType ==
  ASSUME WellFormed, NEW i \in DOMAIN proposals
  PROVE  proposals[i] \in Proposal /\ proposals[i].state \in States
<1>1. proposals \in Seq(Proposal)
  BY DEF WellFormed, TypeOK
<1>2. proposals[i] \in Proposal
  BY <1>1
<1> QED
  BY <1>2 DEF Proposal

(* A transition changes no deed, and no phase but that of its card.         *)
LEMMA TransitionMoves ==
  ASSUME WellFormed, NEW i \in DOMAIN proposals, NEW s \in States, Transition(i, s),
         CanTransition(proposals[i].state, s),
         \A j \in DOMAIN proposals : j # i => proposals[j].state # "confirmed"
  PROVE  /\ DOMAIN proposals' = DOMAIN proposals
         /\ \A j \in DOMAIN proposals : DeedOf(proposals[j])' = DeedOf(proposals[j])
         /\ \A j \in DOMAIN proposals : j # i => Phase(j)' = Phase(j)
         /\ proposals'[i].state = s
<1>1. /\ proposals \in Seq(Proposal) /\ signals \in Seq(Seq(States)) /\ i \in DOMAIN signals
  BY DEF WellFormed, TypeOK, Aligned
<1>2. DOMAIN proposals' = DOMAIN proposals
  BY <1>1, TransitionType
<1>3. \A j \in DOMAIN proposals : DeedOf(proposals[j])' = DeedOf(proposals[j])
  BY <1>1, TransitionKeeps DEF DeedOf
<1>4. \A j \in DOMAIN proposals : j # i => proposals'[j] = proposals[j]
  BY <1>1, TransitionKeeps
<1>5. proposals'[i].state = s
  BY <1>1, TransitionKeeps
<1> QED
  BY <1>2, <1>3, <1>4, <1>5, PhaseKept

(* An idle session, and one that proposes, has no confirmed card.           *)
LEMMA NoneConfirmed ==
  ASSUME WellFormed, call.purpose # "confirm"
  PROVE  \A i \in DOMAIN proposals : proposals[i].state # "confirmed"
BY DEF WellFormed, OneConfirmed

-----------------------------------------------------------------------------
(* Step by step. *)

(* A route change withdraws all pending cards together.                     *)
LEMMA ContextUpdateRefines ==
  ASSUME WellFormed, NEW c \in Contexts, NEW alive \in BOOLEAN, HandleContextUpdate(c, alive)
  PROVE  Lifecycle!Withdraw \/ UNCHANGED <<Cards, Performed>>
<1>1. at = "idle" /\ call.purpose = "none" /\ UNCHANGED <<calls, at, call>>
  BY DEF HandleContextUpdate, WellFormed, Attached
<1>2. CASE UNCHANGED proposals
  BY <1>1, <1>2, Stutter
<1>3. CASE /\ Pending # {}
           /\ proposals' = [i \in DOMAIN proposals |->
                IF i \in Pending THEN [proposals[i] EXCEPT !.state = "expired"] ELSE proposals[i]]
  <2>1. proposals \in Seq(Proposal)
    BY DEF WellFormed, TypeOK
  <2>2. \A i \in DOMAIN proposals : Phase(i) = "pending" <=> i \in Pending
    <3> SUFFICES ASSUME NEW i \in DOMAIN proposals
                 PROVE  Phase(i) = "pending" <=> i \in Pending
      OBVIOUS
    <3>1. proposals[i].state \in States
      BY CardType
    <3> QED
      BY <3>1, PhaseIs DEF Pending, States
  <2>3. \A i \in DOMAIN proposals :
          /\ DeedOf(proposals[i])' = DeedOf(proposals[i])
          /\ Phase(i)' = IF i \in Pending THEN "expired" ELSE Phase(i)
    <3> SUFFICES ASSUME NEW i \in DOMAIN proposals
                 PROVE  /\ DeedOf(proposals[i])' = DeedOf(proposals[i])
                        /\ Phase(i)' = IF i \in Pending THEN "expired" ELSE Phase(i)
      OBVIOUS
    <3>1. proposals[i] \in Proposal
      BY <2>1
    <3>2. CASE i \in Pending
      BY <1>3, <3>1, <3>2 DEF DeedOf, Phase, Proposal
    <3>3. CASE i \notin Pending
      <4>1. proposals'[i] = proposals[i] /\ proposals[i].state # "confirmed"
        BY <1>1, <1>3, <3>3, NoneConfirmed
      <4> QED
        BY <3>3, <4>1, PhaseKept DEF DeedOf
    <3> QED
      BY <3>2, <3>3
  <2>4. DOMAIN proposals' = DOMAIN proposals
    BY <1>3
  <2>5. Lifecycle!InPhase("pending") = Pending
    BY <2>2 DEF Lifecycle!InPhase, Pending
  <2>6. Cards' = [i \in DOMAIN Cards |->
                    IF i \in Pending THEN [Cards[i] EXCEPT !.phase = "expired"] ELSE Cards[i]]
    BY <2>3, <2>4 DEF Cards
  <2>7. Performed' = Performed
    BY <1>1 DEF Performed, DeedOf
  <2> QED
    BY <1>3, <2>5, <2>6, <2>7 DEF Lifecycle!Withdraw, Cards, Performed
<1> QED
  BY <1>2, <1>3 DEF HandleContextUpdate

(* A confirm approves a pending card while no other is on its way.          *)
LEMMA ConfirmRefines ==
  ASSUME WellFormed, NEW i \in DOMAIN proposals, NEW alive \in BOOLEAN, HandleConfirm(i, alive)
  PROVE  Lifecycle!Approve(i) \/ UNCHANGED <<Cards, Performed>>
<1>1. at = "idle" /\ call.purpose = "none" /\ UNCHANGED calls
  BY DEF HandleConfirm, WellFormed, Attached
<1>2. CASE ~Confirmable(i)
  BY <1>1, <1>2, NoneConfirmed, Stutter DEF HandleConfirm
<1>3. CASE Confirmable(i)
  <2>1. proposals \in Seq(Proposal)
    BY DEF WellFormed, TypeOK
  <2>2. /\ proposals' = [proposals EXCEPT ![i].state = "confirmed"] /\ at' = "filling"
        /\ proposals[i].state = "validated"
    BY <1>3 DEF HandleConfirm, Confirmable
  <2>3. /\ DOMAIN proposals' = DOMAIN proposals /\ proposals'[i].state = "confirmed"
        /\ \A j \in DOMAIN proposals : j # i => proposals'[j] = proposals[j]
        /\ \A j \in DOMAIN proposals : DeedOf(proposals[j])' = DeedOf(proposals[j])
    <3>1. proposals[i] \in Proposal
      BY CardType
    <3>2. /\ DOMAIN proposals' = DOMAIN proposals
          /\ proposals'[i] = [proposals[i] EXCEPT !.state = "confirmed"]
          /\ \A j \in DOMAIN proposals : j # i => proposals'[j] = proposals[j]
      BY <2>2
    <3> QED
      BY <3>1, <3>2 DEF Proposal, DeedOf
  <2>4. Phase(i) = "pending" /\ Phase(i)' = "approved"
    BY <2>2, <2>3 DEF Phase
  <2>5. \A j \in DOMAIN proposals : j # i => Phase(j)' = Phase(j)
    BY <1>1, <2>3, NoneConfirmed, PhaseKept
  <2>6. Lifecycle!Move(i, "pending", "approved")
    BY <2>3, <2>4, <2>5, OneMoves
  <2>7. \A j \in DOMAIN proposals : Phase(j) \notin {"approved", "running"}
    <3> SUFFICES ASSUME NEW j \in DOMAIN proposals
                 PROVE  Phase(j) \notin {"approved", "running"}
      OBVIOUS
    <3>1. proposals[j].state \in States /\ proposals[j].state # "confirmed"
      BY <1>1, NoneConfirmed, CardType
    <3> QED
      BY <3>1, PhaseIs DEF States
  <2>8. Lifecycle!InPhase("approved") \cup Lifecycle!InPhase("running") = {}
    BY <2>7 DEF Lifecycle!InPhase
  <2>9. Performed' = Performed
    BY <1>1 DEF Performed, DeedOf
  <2> QED
    BY <2>6, <2>8, <2>9 DEF Lifecycle!Approve, Performed
<1> QED
  BY <1>2, <1>3

(* A reject, where it is legal, rejects a pending card.                     *)
LEMMA RejectRefines ==
  ASSUME WellFormed, NEW i \in DOMAIN proposals, NEW alive \in BOOLEAN, HandleReject(i, alive)
  PROVE  Lifecycle!Reject(i) \/ UNCHANGED <<Cards, Performed>>
<1>1. at = "idle" /\ call.purpose = "none" /\ UNCHANGED <<calls, at, call>>
  BY DEF HandleReject, WellFormed, Attached
<1>2. CASE ~CanTransition(proposals[i].state, "rejected")
  BY <1>1, <1>2, Stutter DEF HandleReject, Transition
<1>3. CASE CanTransition(proposals[i].state, "rejected")
  <2>1. Transition(i, "rejected") /\ "rejected" \in States /\ proposals[i].state = "validated"
    BY <1>3 DEF HandleReject, States, CanTransition
  <2>2. /\ DOMAIN proposals' = DOMAIN proposals /\ proposals'[i].state = "rejected"
        /\ \A j \in DOMAIN proposals : DeedOf(proposals[j])' = DeedOf(proposals[j])
        /\ \A j \in DOMAIN proposals : j # i => Phase(j)' = Phase(j)
    BY <1>1, <1>3, <2>1, NoneConfirmed, TransitionMoves
  <2>3. Phase(i) = "pending" /\ Phase(i)' = "rejected"
    BY <2>1, <2>2 DEF Phase
  <2>4. Lifecycle!Move(i, "pending", "rejected")
    BY <2>2, <2>3, OneMoves
  <2>5. Performed' = Performed
    BY <1>1 DEF Performed, DeedOf
  <2> QED
    BY <2>4, <2>5 DEF Lifecycle!Reject, Performed
<1> QED
  BY <1>2, <1>3

(* Confirm-time expiry voids an approved card that did not run.             *)
LEMMA ConfirmExpiresRefines ==
  ASSUME WellFormed, call.purpose = "confirm", at # "executing", ConfirmExpires, UNCHANGED calls
  PROVE  \E i \in DOMAIN proposals : Lifecycle!Void(i)
<1>1. PICK i \in DOMAIN proposals : i = call.id
  BY DEF WellFormed, Attached
<1>2. /\ proposals[i].state = "confirmed" /\ "expired" \in States
      /\ CanTransition(proposals[i].state, "expired")
      /\ \A j \in DOMAIN proposals : j # i => proposals[j].state # "confirmed"
  BY <1>1 DEF WellFormed, OneConfirmed, CanTransition, States
<1>3. Transition(i, "expired")
  BY <1>1 DEF ConfirmExpires
<1>4. /\ DOMAIN proposals' = DOMAIN proposals /\ proposals'[i].state = "expired"
      /\ \A j \in DOMAIN proposals : DeedOf(proposals[j])' = DeedOf(proposals[j])
      /\ \A j \in DOMAIN proposals : j # i => Phase(j)' = Phase(j)
  BY <1>2, <1>3, TransitionMoves
<1>5. Phase(i) = "approved" /\ Phase(i)' = "expired"
  BY <1>2, <1>4 DEF Phase
<1>6. Lifecycle!Move(i, "approved", "expired")
  BY <1>4, <1>5, OneMoves
<1>7. Performed' = Performed
  BY DEF Performed, DeedOf
<1> QED
  BY <1>6, <1>7 DEF Lifecycle!Void, Performed

(* A new card offers a deed the registry has.                               *)
LEMMA EmitProposalRefines ==
  ASSUME WellFormed, EmitProposal
  PROVE  \E d \in [action : Actions, params : Arguments] : Lifecycle!Offer(d)
<1> DEFINE card == [action |-> call.action, args |-> call.args,
                    params |-> call.params, state |-> "validated"]
           deed == [action |-> call.action, params |-> call.params]
<1>0. PICK n \in Nat : n = Len(proposals) + 1
  BY DEF WellFormed, TypeOK
<1>1. /\ at = "slots" /\ call.purpose = "propose" /\ UNCHANGED calls
      /\ proposals' = Append(proposals, card)
  BY DEF EmitProposal, InsertValidated
<1>2. deed \in [action : Actions, params : Arguments]
  <2>1. FillFailure(call.action, call.args, context) = "ok" /\ call \in CallType
    BY <1>1 DEF WellFormed, Attached, Validated, TypeOK
  <2>2. call.action \in Actions /\ call.params \in Arguments
    BY <2>1, OkIsRegistered DEF CallType
  <2> QED
    BY <2>2
<1>3. proposals \in Seq(Proposal) /\ Len(proposals) \in Nat
  BY DEF WellFormed, TypeOK
<1>4. /\ DOMAIN proposals' = 1 .. n /\ proposals'[n] = card
      /\ \A j \in 1 .. Len(proposals) : proposals'[j] = proposals[j]
  BY <1>0, <1>1, <1>3
<1>5. /\ \A j \in 1 .. Len(proposals) : Phase(j)' = Phase(j)
      /\ Phase(n)' = "pending"
  <2>1. ASSUME NEW j \in 1 .. Len(proposals)
        PROVE  Phase(j)' = Phase(j)
    BY <1>1, <1>3, <1>4, <2>1, NoneConfirmed, PhaseKept
  <2>2. Phase(n)' = "pending"
    BY <1>4 DEF Phase
  <2> QED
    BY <2>1, <2>2
<1>6. Cards' = Append(Cards, [deed |-> deed, phase |-> "pending"])
  <2>1. Cards = [j \in 1 .. Len(proposals) |-> Cards[j]] /\ n = Len(proposals) + 1
    BY <1>0, <1>3 DEF Cards
  <2>2. Append(Cards, [deed |-> deed, phase |-> "pending"]) =
          [j \in 1 .. n |-> IF j = n THEN [deed |-> deed, phase |-> "pending"] ELSE Cards[j]]
    BY <1>3, <2>1, AppendIs
  <2>3. Cards' = [j \in 1 .. n |-> [deed |-> DeedOf(proposals'[j]), phase |-> Phase(j)']]
    BY <1>4 DEF Cards, DeedOf
  <2>4. \A j \in 1 .. Len(proposals) :
          Cards[j] = [deed |-> DeedOf(proposals[j]), phase |-> Phase(j)]
    BY <1>3 DEF Cards
  <2>5. DeedOf(proposals'[n]) = deed
    BY <1>4 DEF DeedOf
  <2>6. \A j \in 1 .. n : j # n => j \in 1 .. Len(proposals)
    BY <1>3, <2>1
  <2> HIDE DEF deed
  <2> QED
    BY <1>4, <1>5, <2>2, <2>3, <2>4, <2>5, <2>6
<1>7. Performed' = Performed
  BY <1>1 DEF Performed, DeedOf
<1> QED
  BY <1>2, <1>6, <1>7 DEF Lifecycle!Offer, Cards, Performed

(* The handler is called for an approved card, with the deed on the card.   *)
LEMMA ExecuteRefines ==
  ASSUME WellFormed, Execute
  PROVE  \E i \in DOMAIN proposals : Lifecycle!Perform(i) \/ Lifecycle!Void(i)
<1>1. at = "slots" /\ call.purpose = "confirm"
  BY DEF Execute
<1>2. CASE Drifted
  BY <1>1, <1>2, ConfirmExpiresRefines DEF Execute
<1>3. CASE ~Drifted
  <2>1. PICK i \in DOMAIN proposals : i = call.id
    BY <1>1 DEF WellFormed, Attached
  <2> DEFINE invoked == [id |-> i, action |-> call.action, params |-> proposals[i].params]
             deed == DeedOf(proposals[i])
  <2>2. /\ calls' = Append(calls, invoked) /\ at' = "executing" /\ UNCHANGED <<proposals, call>>
    BY <1>3, <2>1 DEF Execute, ShownParams, Continue, sessionVars
  <2>3. /\ proposals[i].state = "confirmed" /\ proposals[i].action = call.action
        /\ \A j \in DOMAIN proposals : j # i => proposals[j].state # "confirmed"
    BY <1>1, <2>1 DEF WellFormed, Attached, OneConfirmed
  <2>4. Phase(i) = "approved" /\ Phase(i)' = "running"
    BY <1>1, <2>1, <2>2, <2>3 DEF Phase
  <2>5. \A j \in DOMAIN proposals : j # i => Phase(j)' = Phase(j)
    BY <2>2, <2>3, PhaseKept
  <2>6. Lifecycle!Move(i, "approved", "running")
    BY <2>2, <2>4, <2>5, OneMoves DEF DeedOf
  <2>7. Performed' = Append(Performed, [card |-> i, deed |-> Cards[i].deed])
    <3> DEFINE n == Len(calls) + 1
               performing == [card |-> i, deed |-> deed]
    <3>1. /\ calls \in Seq([id : Nat \ {0}, action : Actions, params : Arguments])
          /\ Len(calls) \in Nat
      BY DEF WellFormed, TypeOK
    <3>2. /\ DOMAIN calls' = 1 .. n /\ calls'[n] = invoked
          /\ \A k \in 1 .. Len(calls) : calls'[k] = calls[k]
      BY <2>2, <3>1
    <3>3. Performed = [k \in 1 .. Len(calls) |-> Performed[k]]
      BY <3>1 DEF Performed
    <3>4. Append(Performed, performing) =
            [k \in 1 .. n |-> IF k = n THEN performing ELSE Performed[k]]
      BY <3>1, <3>3, AppendIs
    <3>5. Performed' = [k \in 1 .. n |-> [card |-> calls'[k].id, deed |-> DeedOf(calls'[k])]]
      BY <3>2 DEF Performed, DeedOf
    <3>6. \A k \in 1 .. Len(calls) :
            Performed[k] = [card |-> calls[k].id, deed |-> DeedOf(calls[k])]
      BY <3>1 DEF Performed
    <3>7. [card |-> calls'[n].id, deed |-> DeedOf(calls'[n])] = performing
      BY <2>3, <3>2 DEF DeedOf
    <3>8. \A k \in 1 .. n : k # n => k \in 1 .. Len(calls)
      BY <3>1
    <3>9. Cards[i].deed = deed
      BY DEF Cards
    <3> HIDE DEF n, performing, invoked, deed
    <3>10. Performed' = Append(Performed, performing)
      BY <3>2, <3>4, <3>5, <3>6, <3>7, <3>8
    <3> QED
      BY <3>9, <3>10 DEF performing
  <2> QED
    BY <2>6, <2>7 DEF Lifecycle!Perform, Cards, Performed
<1> QED
  BY <1>2, <1>3

(* The handler's outcome settles the running card.                          *)
LEMMA HandlerReturnsRefines ==
  ASSUME WellFormed, NEW ok \in BOOLEAN, HandlerReturns(ok)
  PROVE  \E i \in DOMAIN proposals : \E outcome \in {"executed", "failed"} :
           Lifecycle!Settle(i, outcome)
<1>1. at = "executing" /\ call.purpose = "confirm" /\ UNCHANGED calls
  BY DEF HandlerReturns, WellFormed, Attached
<1>2. PICK i \in DOMAIN proposals : i = call.id
  BY <1>1 DEF WellFormed, Attached
<1>3. PICK s \in {"executed", "failed"} : s = OutcomeState(ok)
  BY DEF OutcomeState
<1>4. /\ proposals[i].state = "confirmed" /\ s \in States
      /\ CanTransition(proposals[i].state, s)
      /\ \A j \in DOMAIN proposals : j # i => proposals[j].state # "confirmed"
  BY <1>1, <1>2 DEF WellFormed, OneConfirmed, CanTransition, States
<1>5. Transition(i, s)
  BY <1>2, <1>3 DEF HandlerReturns
<1>6. /\ DOMAIN proposals' = DOMAIN proposals /\ proposals'[i].state = s
      /\ \A j \in DOMAIN proposals : DeedOf(proposals[j])' = DeedOf(proposals[j])
      /\ \A j \in DOMAIN proposals : j # i => Phase(j)' = Phase(j)
  BY <1>4, <1>5, TransitionMoves
<1>7. Phase(i) = "running" /\ Phase(i)' = s
  BY <1>1, <1>2, <1>4, <1>6 DEF Phase
<1>8. Lifecycle!Move(i, "running", s)
  BY <1>6, <1>7, OneMoves
<1>9. Performed' = Performed
  BY <1>1 DEF Performed, DeedOf
<1> QED
  BY <1>8, <1>9 DEF Lifecycle!Settle, Performed

-----------------------------------------------------------------------------
(* A new session offers and has performed nothing.                          *)
LEMMA InitRefines == Init => Lifecycle!LifecycleInit
<1> SUFFICES ASSUME Init
             PROVE  Cards = <<>> /\ Performed = <<>>
  BY DEF Lifecycle!LifecycleInit, Cards, Performed
<1>1. DOMAIN proposals = {} /\ DOMAIN calls = {}
  BY DEF Init
<1> QED
  BY <1>1 DEF Cards, Performed

(* Every step of a well-formed session is a step of the contract.           *)
LEMMA StepRefines ==
  ASSUME WellFormed, [Next]_vars
  PROVE  Lifecycle!LifecycleNext \/ UNCHANGED <<Cards, Performed>>
<1> USE DEF Lifecycle!LifecycleNext
<1>0. DOMAIN Cards = DOMAIN proposals
  BY DEF Cards
<1>1. CASE UNCHANGED <<proposals, calls>> /\ at # "executing" /\ at' # "executing"
  BY <1>1, Stutter
<1>2. CASE ReceiverDrops \/ UNCHANGED vars
  BY <1>2, Stutter DEF ReceiverDrops, vars, sessionVars, observerVars
<1>3. CASE ClientEvent
  <2>1. ASSUME NEW c \in Contexts, HandleInit(c)
        PROVE  UNCHANGED <<Cards, Performed>>
    BY <2>1, Stutter DEF HandleInit, observerVars
  <2>2. ASSUME NEW alive \in BOOLEAN, HandleUserMessage(alive)
        PROVE  UNCHANGED <<Cards, Performed>>
    BY <2>2, Stutter DEF HandleUserMessage
  <2>3. ASSUME NEW alive \in BOOLEAN, NEW c \in Contexts, HandleContextUpdate(c, alive)
        PROVE  Lifecycle!Withdraw \/ UNCHANGED <<Cards, Performed>>
    BY <2>3, ContextUpdateRefines
  <2>4. ASSUME NEW alive \in BOOLEAN, NEW i \in DOMAIN proposals,
               HandleConfirm(i, alive) \/ HandleReject(i, alive)
        PROVE  Lifecycle!Approve(i) \/ Lifecycle!Reject(i) \/ UNCHANGED <<Cards, Performed>>
    BY <2>4, ConfirmRefines, RejectRefines
  <2> QED
    BY <1>0, <1>3, <2>1, <2>2, <2>3, <2>4 DEF ClientEvent, Cards
<1>4. CASE Model
  BY <1>1, <1>4
     DEF Model, CompletionOpens, CompletionFails, TextDelta, TextDone, StreamEnds, StreamBreaks,
         ToolCall, Chunk, Continue, Return, sessionVars, observerVars
<1>5. CASE Pipeline
  <2>1. ASSUME NEW failure, Invalid(failure), at # "executing", call.purpose # "none"
        PROVE  Lifecycle!LifecycleNext \/ UNCHANGED <<Cards, Performed>>
    <3>1. CASE call.purpose = "propose"
      BY <1>1, <2>1, <3>1 DEF Invalid, ProposeFails, Continue, Return
    <3>2. CASE call.purpose = "confirm"
      BY <1>0, <2>1, <3>2, ConfirmExpiresRefines DEF Invalid, Cards
    <3> QED
      BY <2>1, <3>1, <3>2 DEF WellFormed, TypeOK, CallType
  <2>2. ASSUME NEW stage \in {"authz", "dryRun", "slots"}, Advance(stage), at # "executing"
        PROVE  UNCHANGED <<Cards, Performed>>
    BY <2>2, Stutter DEF Advance, Continue, sessionVars, observerVars
  <2>3. ASSUME at \in {"filling", "authz", "dryRun", "slots"}
        PROVE  at # "executing" /\ call.purpose # "none"
    BY <2>3 DEF WellFormed, Attached
  <2>4. CASE FillParams \/ AuthzAllows \/ AuthzDenies \/ DryRunSucceeds \/ DryRunFails \/ SlotsFail
    BY <2>1, <2>2, <2>3, <2>4
       DEF FillParams, AuthzAllows, AuthzDenies, DryRunSucceeds, DryRunFails, SlotsFail
  <2> QED
    BY <1>0, <1>5, <2>4, EmitProposalRefines, ExecuteRefines, HandlerReturnsRefines
       DEF Pipeline, Cards
<1> QED
  BY <1>2, <1>3, <1>4, <1>5 DEF Next

(* The session implements the propose-only contract: cards are offered,     *)
(* approved one at a time, performed once and as shown, and settled, for    *)
(* every registry and every behaviour of the model, the user and the        *)
(* application.                                                             *)
THEOREM Implementation == Spec => ImplementsLifecycle
<1>1. WellFormed /\ [Next]_vars => [Lifecycle!LifecycleNext]_(Lifecycle!lifecycleVars)
  BY StepRefines DEF Lifecycle!lifecycleVars, Cards, Performed
<1>2. Spec => []WellFormed
  <2>1. Init => WellFormed
    BY WellFormedInit
  <2> QED
    BY <2>1, WellFormedStep, PTL DEF Spec
<1> QED
  BY <1>1, <1>2, InitRefines, PTL DEF Spec, ImplementsLifecycle, Lifecycle!LifecycleSpec
=============================================================================
