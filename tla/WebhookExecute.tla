--------------------------- MODULE WebhookExecute ---------------------------
(***************************************************************************)
(* Executing a confirmed action on a host over HTTP: WebhookHandler,       *)
(* the delivery loop of HostClient::execute, an unreliable network and the *)
(* host's idempotent endpoint (the mock host of the conformance kit).      *)
(*                                                                         *)
(* A delivery is <<e, n>>: attempt n of execution e. Its request may be    *)
(* delayed past the client's timeout and overtaken by a later attempt, or  *)
(* lost (it then stays in `network`, where nothing must ever take it), and *)
(* its answer only reaches a client that still waits for it.               *)
(*                                                                         *)
(* Bodies, headers and signatures are abstracted: an answer is the outcome *)
(* the host reports or "error", any other answer with a complete body.     *)
(***************************************************************************)
EXTENDS Naturals, FiniteSets

CONSTANTS
  Executions,   \* executions of confirmed actions, of any number of sessions
  Attempts,     \* RetryPolicy::execute_attempts
  Threads       \* worker threads of the host's runtime

ASSUME ExecutionAssumption == IsFiniteSet(Executions)

ASSUME AttemptAssumption == Attempts \in Nat /\ Threads \in Nat \ {0}

VARIABLES
  client,     \* client[e]: [at, attempt, outcome] of the delivery loop
  network,    \* deliveries sent that the host did not take yet
  section,    \* deliveries between the host's cache lookup and its insert
  cache,      \* HostState::executed, [key, verdict] records
  executions, \* executions[e]: how often the host performed e
  answers     \* complete answers on their way to a waiting client

vars == <<client, network, section, cache, executions, answers>>

(* execute_attempts.max(1) *)
AttemptLimit == IF Attempts = 0 THEN 1 ELSE Attempts

Deliveries == Executions \X (1 .. AttemptLimit)

Verdicts == {"executed", "rejected"}

Outcomes == {"none", "executed", "rejected", "answeredError", "unknown"}

Init ==
  /\ client = [e \in Executions |-> [at |-> "idle", attempt |-> 0, outcome |-> "none"]]
  /\ network = {}
  /\ section = {}
  /\ cache = {}
  /\ executions = [e \in Executions |-> 0]
  /\ answers = {}

-----------------------------------------------------------------------------
(* The client: HostClient::execute under WebhookHandler::execute. *)

(* The idempotency key is minted once per execution.                        *)
Key(d) == d[1]

Awaited(d) == client[d[1]].at = "sending" /\ client[d[1]].attempt = d[2]

Deliver(e, attempt) ==
  /\ client' = [client EXCEPT ![e] = [@ EXCEPT !.at = "sending", !.attempt = attempt]]
  /\ network' = network \cup {<<e, attempt>>}

Execute(e) ==
  /\ client[e].at = "idle"
  /\ Deliver(e, 1)
  /\ UNCHANGED <<section, cache, executions, answers>>

Finish(e, outcome) ==
  client' = [client EXCEPT ![e] = [@ EXCEPT !.at = "returned", !.outcome = outcome]]

(* An answer that is neither verdict is an error, and final. *)
OutcomeOf(status) == IF status = "error" THEN "answeredError" ELSE status

(* A complete answer ends the loop, whatever it says. *)
Answered(a) ==
  /\ a \in answers
  /\ Awaited(a.delivery)
  /\ Finish(a.delivery[1], OutcomeOf(a.status))
  /\ answers' = answers \ {a}
  /\ UNCHANGED <<network, section, cache, executions>>

(* Mutant: running out of attempts is reported as a refusal. *)
UnknownAsRejected == "rejected"

GivesUp(e) == client[e].attempt >= AttemptLimit

UnknownOutcome == "unknown"

(* An attempt with an unknown outcome: back off and retry, or give up.      *)
Unreachable(e) ==
  IF GivesUp(e) THEN Finish(e, UnknownOutcome)
  ELSE client' = [client EXCEPT ![e].at = "backoff"]

OthersAnswers(e) == {a \in answers : a.delivery[1] # e}

(* No answer within the timeout, no connection, or an answer whose body     *)
(* breaks off after the status line (deliver_json reports it unreachable).   *)
TimesOut(e) ==
  /\ client[e].at = "sending"
  /\ Unreachable(e)
  /\ answers' = OthersAnswers(e)
  /\ UNCHANGED <<network, section, cache, executions>>

(* Mutant: a retry does not count. *)
SameAttempt(e) == client[e].attempt

NextAttempt(e) == client[e].attempt + 1

Retry(e) ==
  /\ client[e].at = "backoff"
  /\ Deliver(e, NextAttempt(e))
  /\ UNCHANGED <<section, cache, executions, answers>>

-----------------------------------------------------------------------------
(* The host's execute endpoint. Between two awaits a handler runs on one    *)
(* worker thread: with a single thread nothing else runs from the cache     *)
(* lookup to the insert.                                                    *)

Respond(d, status) ==
  answers' = IF Awaited(d) THEN answers \cup {[delivery |-> d, status |-> status]} ELSE answers

Runnable == Cardinality(section) < Threads

Cached(d) == {c \in cache : c.key = Key(d)}

(* Refused headers, an unknown action or a failing host: nothing runs.      *)
HostRefuses(d) ==
  /\ d \in network
  /\ network' = network \ {d}
  /\ Respond(d, "error")
  /\ UNCHANGED <<client, section, cache, executions>>

(* A known key is answered with the first outcome. *)
HostReplays(d) ==
  /\ d \in network
  /\ Runnable
  /\ network' = network \ {d}
  /\ \E c \in Cached(d) : Respond(d, c.verdict)
  /\ UNCHANGED <<client, section, cache, executions>>

(* A new key: the action is performed, or refused by its script. *)
HostPerforms(d, verdict) ==
  /\ d \in network
  /\ Runnable
  /\ Cached(d) = {}
  /\ network' = network \ {d}
  /\ section' = section \cup {[delivery |-> d, verdict |-> verdict]}
  /\ executions' = IF verdict = "executed" THEN [executions EXCEPT ![d[1]] = @ + 1]
                   ELSE executions
  /\ UNCHANGED <<client, cache, answers>>

(* Mutants: only performed executions are remembered; or none are. *)
RememberPerformed(s) ==
  cache' = IF s.verdict = "executed"
           THEN cache \cup {[key |-> Key(s.delivery), verdict |-> s.verdict]} ELSE cache
RememberNothing(s) == cache' = cache

Remember(s) == cache' = cache \cup {[key |-> Key(s.delivery), verdict |-> s.verdict]}

HostAnswers(s) ==
  /\ s \in section
  /\ section' = section \ {s}
  /\ Remember(s)
  /\ Respond(s.delivery, s.verdict)
  /\ UNCHANGED <<client, network, executions>>

-----------------------------------------------------------------------------
ClientStep(e) ==
  \/ \E a \in answers : a.delivery[1] = e /\ Answered(a)
  \/ TimesOut(e) \/ Retry(e)

Host ==
  \/ \E d \in network : \/ HostRefuses(d)
                        \/ HostReplays(d)
                        \/ \E verdict \in Verdicts : HostPerforms(d, verdict)
  \/ \E s \in section : HostAnswers(s)

Next == Host \/ \E e \in Executions : Execute(e) \/ ClientStep(e)

Spec == Init /\ [][Next]_vars

(* Every attempt has a timeout and every backoff ends. Nothing is assumed   *)
(* of the network or the host.                                              *)
Fairness == \A e \in Executions : WF_vars(ClientStep(e))

FairSpec == Spec /\ Fairness

-----------------------------------------------------------------------------
(* Spec invariant 14, the reason retries are safe: however the attempts of  *)
(* an execution are lost, delayed or reordered, it is performed at most     *)
(* once.                                                                    *)
PerformedOnce == \A e \in Executions : executions[e] <= 1

(* What the agent is told for certain is true, and stays true whatever      *)
(* attempts the network still delivers: "executed" was performed, a card    *)
(* rejected by the host never is. Unknown and error outcomes assert nothing.*)
OutcomeIsTrue ==
  \A e \in Executions :
    /\ client[e].outcome = "executed" => executions[e] = 1
    /\ client[e].outcome = "rejected" => executions[e] = 0

(* The delivery loop always returns an outcome to the agent. *)
ExecuteReturns == \A e \in Executions : client[e].at = "sending" ~> client[e].at = "returned"

-----------------------------------------------------------------------------
(* The delivery loop and the host together keep the handler's contract. *)

PhaseOf(e) ==
  CASE client[e].at = "idle" -> "idle"
    [] client[e].at = "returned" ->
         IF client[e].outcome \in Verdicts THEN client[e].outcome ELSE "error"
    [] OTHER -> "called"

VerdictOf(e) ==
  IF executions[e] > 0 THEN "ran"
  ELSE IF \/ \E s \in section : s.delivery[1] = e
          \/ \E c \in cache : c.key = e
       THEN "refused" ELSE "open"

Contract == INSTANCE HandlerContract WITH
  phase   <- [e \in Executions |-> PhaseOf(e)],
  verdict <- [e \in Executions |-> VerdictOf(e)]

(* Each execution is decided once and reported as decided.                  *)
KeepsContract == Contract!ContractSpec
=============================================================================
