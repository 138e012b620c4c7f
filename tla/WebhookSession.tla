--------------------------- MODULE WebhookSession ---------------------------
(***************************************************************************)
(* Sessions of the standalone service over a webhook host: each stream is  *)
(* verified first, then every card is authorized, dry-run and given its    *)
(* slots when it is proposed and once more when it is confirmed, and only  *)
(* then executed (WebhookExecute). A call is one HTTP delivery without a   *)
(* retry; it may time out, and the host may still take it afterwards. The  *)
(* host is the conformance kit's, which answers from scripts and counts    *)
(* its calls over all sessions.                                            *)
(*                                                                         *)
(* A body is [kind, of]: what the contract of its endpoint calls it, and   *)
(* for a principal which one. Params, previews and slot content are left   *)
(* out, the check of the slots against the schema is the agent's.          *)
(***************************************************************************)
EXTENDS WebhookExecute, Sequences

CONSTANTS Sessions,   \* envelope streams
          SessionOf,  \* the session of each execution's card
          Scripts     \* what a host is set up with: [overrides, authz, dry_run, slots]

(* A session is no execution: an answer returns to the call it answers.     *)
ASSUME SessionAssumption ==
  SessionOf \in [Executions -> Sessions] /\ Sessions \cap Executions = {}

(* A scripted sequence of answers and the one that follows it; overrides    *)
(* of endpoints, of which the last repeats.                                 *)
IsScript(s) ==
  /\ \A p \in DOMAIN s.overrides : Len(s.overrides[p]) > 0
  /\ s.authz.then \in {"allow", "deny"}
  /\ \A i \in DOMAIN s.authz.sequence : s.authz.sequence[i] \in {"allow", "deny"}
  /\ s.dry_run.exists \in BOOLEAN /\ s.dry_run.then \in {"preview", "rejected"}
  /\ \A i \in DOMAIN s.dry_run.sequence : s.dry_run.sequence[i] \in {"preview", "rejected"}
  /\ s.slots \in BOOLEAN

ASSUME ScriptAssumption == \A s \in Scripts : IsScript(s)

VARIABLES
  script,      \* the scripts of this host
  trust,       \* what its header check finds in this service's deliveries: "ok" or a status
  session,     \* session[s]: [at, principal], the principal wrapped with its session id
  card,        \* card[e]: [phase, step] of the agent's validation of the card
  calls,       \* deliveries the host did not take: [of, phase, endpoint, session_id, principal]
  replies,     \* answers on their way to a caller: [of, status, body]
  host,        \* HostState's counters: [cursors, authz_calls, dry_run_calls]
  deliveries,  \* HostState::deliveries, as a set
  granted,     \* history: calls the host answered yes to
  issued       \* history: the principal the host gave each session

seamVars == <<script, trust, session, card, calls, replies, host, deliveries, granted, issued>>
allVars == <<vars, seamVars>>

Seams == <<"authorize", "dry_run", "build_slots">>
None == [kind |-> "none", of |-> 0]
Answer(status, kind) == [status |-> status, body |-> [kind |-> kind, of |-> 0]]

(* The counters of a host that was just set up.                             *)
HostState == [cursors |-> [p \in DOMAIN script.overrides |-> 0], authz_calls |-> 0, dry_run_calls |-> 0]

SessionInit ==
  /\ Init
  /\ script \in Scripts /\ trust \in {"ok", "401", "400"}
  /\ session = [s \in Sessions |-> [at |-> "idle", principal |-> None]]
  /\ card = [e \in Executions |-> [phase |-> "none", step |-> 0]]
  /\ calls = {} /\ replies = {}
  /\ host = HostState
  /\ deliveries = {} /\ granted = {} /\ issued = [s \in Sessions |-> None]

-----------------------------------------------------------------------------
(* The principal of a session travels wrapped with the session's id.        *)
session_principal(s, principal) == [session_id |-> s, principal |-> principal]

(* The body of a call, of a session's or an execution's phase.              *)
Request(of, phase, endpoint, session_id, principal) ==
  [of |-> of, phase |-> phase, endpoint |-> endpoint, session_id |-> session_id, principal |-> principal]

(* Mutant: the wrapper itself is sent as the principal.                     *)
seam_request_wrapped(of, phase, endpoint, wrapped) == Request(of, phase, endpoint, wrapped.session_id, wrapped)

seam_request(of, phase, endpoint, wrapped) ==
  Request(of, phase, endpoint, wrapped.session_id, wrapped.principal)

(* Mutant: a body that reads like an answer is one, whatever the status.    *)
deliver_json_any(endpoint, reply) == reply.body.kind

(* What deliver_json makes of an answer: only a 2xx body that is of its     *)
(* endpoint's contract is one.                                              *)
deliver_json(endpoint, reply) ==
  LET contract == [authorize |-> {"allow", "deny"}, dry_run |-> {"preview", "rejected"}, build_slots |-> {"slots"}]
  IN IF reply.status # "200" THEN "Status"
     ELSE IF reply.body.kind \in contract[endpoint] THEN reply.body.kind
     ELSE "MalformedBody"

WebhookAuthz(answer) ==
  CASE answer = "allow" -> "Allow" [] answer = "deny" -> "Denied" [] OTHER -> "Unavailable"
WebhookDryRun(answer) ==
  CASE answer = "preview" -> "Preview" [] answer = "rejected" -> "Rejected" [] OTHER -> "Internal"
WebhookSlots(answer) == IF answer = "slots" THEN "Slots" ELSE "Internal"

SeamOutcome(endpoint, answer) ==
  CASE endpoint = "authorize" -> WebhookAuthz(answer)
    [] endpoint = "dry_run" -> WebhookDryRun(answer)
    [] endpoint = "build_slots" -> WebhookSlots(answer)

-----------------------------------------------------------------------------
(* Establishing a stream.                                                   *)

Verify(s) ==
  /\ session[s].at = "idle"
  /\ session' = [session EXCEPT ![s].at = "verifying"]
  /\ calls' = calls \cup {Request(s, "verify", "verify_session", s, None)}
  /\ UNCHANGED <<vars, script, trust, card, replies, host, deliveries, granted, issued>>

(* verify: a principal opens the session, 401 and 403 refuse it as they     *)
(* are, and everything else as unavailable.                                 *)
Verified(s, reply) ==
  session' = [session EXCEPT ![s] =
    CASE reply.status = "200" /\ reply.body.kind = "principal" ->
           [at |-> "open", principal |-> session_principal(s, reply.body)]
      [] reply.status \in {"401", "403"} -> [at |-> reply.status, principal |-> None]
      [] OTHER -> [at |-> "503", principal |-> None]]

VerifyAnswered(s) ==
  /\ session[s].at = "verifying"
  /\ \E r \in replies : r.of = s /\ Verified(s, r) /\ replies' = replies \ {r}
  /\ UNCHANGED <<vars, script, trust, card, calls, host, deliveries, granted, issued>>

VerifyTimesOut(s) ==
  /\ session[s].at = "verifying"
  /\ session' = [session EXCEPT ![s].at = "503"]
  /\ replies' = {r \in replies : r.of # s}
  /\ UNCHANGED <<vars, script, trust, card, calls, host, deliveries, granted, issued>>

-----------------------------------------------------------------------------
(* A card: the seams in the validator's order, first at propose time, then  *)
(* at confirm time. A step of it is one call.                               *)

CallSeam(e, phase, step) ==
  /\ card' = [card EXCEPT ![e] = [phase |-> phase, step |-> step]]
  /\ calls' = calls \cup {seam_request(e, phase, Seams[step], session[SessionOf[e]].principal)}

Propose(e) ==
  /\ session[SessionOf[e]].at = "open" /\ card[e].phase = "none"
  /\ CallSeam(e, "propose", 1)
  /\ UNCHANGED <<vars, script, trust, session, replies, host, deliveries, granted, issued>>

Confirm(e) ==
  /\ card[e].phase = "pending"
  /\ CallSeam(e, "confirm", 1)
  /\ UNCHANGED <<vars, script, trust, session, replies, host, deliveries, granted, issued>>

Validating(e) == card[e].phase \in {"propose", "confirm"}

(* The seam said yes: the next one, or the card is shown or executes.       *)
SeamPasses(e) ==
  IF card[e].step < Len(Seams) THEN CallSeam(e, card[e].phase, card[e].step + 1)
  ELSE /\ card' = [card EXCEPT ![e] = [phase |-> IF @.phase = "propose" THEN "pending" ELSE "confirmed", step |-> 0]]
       /\ calls' = calls

(* Anything else ends it: no card at propose time, an expired one at        *)
(* confirm time.                                                            *)
SeamFails(e) ==
  /\ card' = [card EXCEPT ![e] = [phase |-> IF @.phase = "propose" THEN "invalid" ELSE "expired", step |-> 0]]
  /\ calls' = calls

SeamAnswered(e) ==
  /\ Validating(e)
  /\ \E r \in replies :
       /\ r.of = e /\ replies' = replies \ {r}
       /\ LET endpoint == Seams[card[e].step]
          IN IF SeamOutcome(endpoint, deliver_json(endpoint, r)) \in {"Allow", "Preview", "Slots"}
             THEN SeamPasses(e) ELSE SeamFails(e)
  /\ UNCHANGED <<vars, script, trust, session, host, deliveries, granted, issued>>

SeamTimesOut(e) ==
  /\ Validating(e)
  /\ SeamFails(e)
  /\ replies' = {r \in replies : r.of # e}
  /\ UNCHANGED <<vars, script, trust, session, host, deliveries, granted, issued>>

-----------------------------------------------------------------------------
(* The host's seams. A script is a sequence and what follows it.            *)

At(sequence, then, n) == IF n + 1 \in DOMAIN sequence THEN sequence[n + 1] ELSE then

(* record_and_override's script: its last behavior repeats.                 *)
Override(endpoint) ==
  IF endpoint \notin DOMAIN script.overrides THEN Answer("pass", "none")
  ELSE LET scripted == script.overrides[endpoint]
       IN At(scripted, scripted[Len(scripted)], host.cursors[endpoint])

Scripted(endpoint) ==
  CASE endpoint = "verify_session" -> Answer("200", "principal")
    [] endpoint = "authorize" -> Answer("200", At(script.authz.sequence, script.authz.then, host.authz_calls))
    [] endpoint = "dry_run" ->
         IF script.dry_run.exists
         THEN Answer("200", At(script.dry_run.sequence, script.dry_run.then, host.dry_run_calls))
         ELSE Answer("404", "error")
    [] endpoint = "build_slots" -> IF script.slots THEN Answer("200", "slots") ELSE Answer("404", "error")

(* The answer of a default path counts, an override moves its cursor.       *)
Counted(endpoint) ==
  LET past == IF endpoint \in DOMAIN host.cursors THEN [host EXCEPT !.cursors[endpoint] = @ + 1] ELSE host
  IN IF Override(endpoint).status # "pass" THEN past
     ELSE CASE endpoint = "authorize" -> [past EXCEPT !.authz_calls = @ + 1]
            [] endpoint = "dry_run" /\ script.dry_run.exists -> [past EXCEPT !.dry_run_calls = @ + 1]
            [] OTHER -> past

Delivery(endpoint, session_id, principal) ==
  [endpoint |-> endpoint, session_id |-> session_id, principal |-> principal]

Calling(c) ==
  IF c.phase = "verify" THEN session[c.of].at = "verifying"
  ELSE card[c.of].phase = c.phase /\ Seams[card[c.of].step] = c.endpoint

Replies(c, answer) ==
  /\ replies' = IF Calling(c) THEN replies \cup {[of |-> c.of, status |-> answer.status, body |-> answer.body]}
                ELSE replies
  /\ granted' = IF answer.status = "200" /\ answer.body.kind \in {"allow", "preview", "slots"}
                THEN granted \cup {<<c.of, c.phase, c.endpoint>>} ELSE granted
  /\ issued' = IF answer.status = "200" /\ answer.body.kind = "principal" /\ c.phase = "verify"
               THEN [issued EXCEPT ![c.of] = answer.body] ELSE issued

HostRefusesHeaders(c) ==
  /\ trust # "ok" /\ c \in calls /\ calls' = calls \ {c}
  /\ Replies(c, Answer(trust, "error"))
  /\ UNCHANGED <<vars, script, trust, session, card, host, deliveries>>

HostTakes(c) ==
  /\ trust = "ok" /\ c \in calls /\ calls' = calls \ {c}
  /\ deliveries' = deliveries \cup {Delivery(c.endpoint, c.session_id, c.principal)}
  /\ host' = Counted(c.endpoint)
  /\ LET behavior == Override(c.endpoint)
     IN CASE behavior.status = "timeout" -> UNCHANGED <<replies, granted, issued>>
          [] behavior.status = "pass" -> Replies(c, Scripted(c.endpoint))
          [] OTHER -> Replies(c, behavior)
  /\ UNCHANGED <<vars, script, trust, session, card>>

-----------------------------------------------------------------------------
(* Execution, as WebhookExecute has it, of confirmed cards only.            *)

ExecuteConfirmed(e) == card[e].phase = "confirmed" /\ Execute(e) /\ UNCHANGED seamVars
ClientStepOf(e) == ClientStep(e) /\ UNCHANGED seamVars

HostTakesExecute(d) ==
  /\ \/ HostRefuses(d)
     \/ HostReplays(d)
     \/ \E verdict \in Verdicts : HostPerforms(d, verdict)
  /\ LET request == seam_request(d[1], "execute", "execute", session[SessionOf[d[1]]].principal)
     IN deliveries' = deliveries \cup {Delivery("execute", request.session_id, request.principal)}
  /\ UNCHANGED <<script, trust, session, card, calls, replies, host, granted, issued>>

SessionNext ==
  \/ \E s \in Sessions : Verify(s) \/ VerifyAnswered(s) \/ VerifyTimesOut(s)
  \/ \E e \in Executions : Propose(e) \/ Confirm(e) \/ SeamAnswered(e) \/ SeamTimesOut(e)
  \/ \E c \in calls : HostRefusesHeaders(c) \/ HostTakes(c)
  \/ \E e \in Executions : ExecuteConfirmed(e) \/ ClientStepOf(e)
  \/ \E d \in network : HostTakesExecute(d)
  \/ \E x \in section : HostAnswers(x) /\ UNCHANGED seamVars

(* Every delivery has a timeout; nothing is assumed of network or host.     *)
SessionSpec ==
  SessionInit /\ [][SessionNext]_allVars /\ \A e \in Executions : WF_allVars(ClientStepOf(e))

-----------------------------------------------------------------------------
(* Every failure of a seam denies: a session is open only if the host gave  *)
(* it its principal, a card is shown only if the host said yes to each of   *)
(* its seams, and executes only if it did so again after the confirm. An    *)
(* error status with a body that reads like a yes, nonsense with status     *)
(* 200, a lost answer and one that comes late are no yes (spec section 14,  *)
(* WebhookAuthz, WebhookDryRun, WebhookSlots, WebhookVerifier).             *)
SeamsFailClosed ==
  /\ \A s \in Sessions : session[s].at = "open" => issued[s].kind = "principal"
  /\ \A e \in Executions : \A i \in DOMAIN Seams :
       /\ card[e].phase \in {"pending", "confirm", "confirmed", "expired"} => <<e, "propose", Seams[i]>> \in granted
       /\ card[e].phase = "confirmed" => <<e, "confirm", Seams[i]>> \in granted
       /\ executions[e] > 0 => card[e].phase = "confirmed"

(* The host sees each session's own principal on every call of the session, *)
(* exactly as it issued it (spec invariant 13: "echoed verbatim").          *)
PrincipalEchoed ==
  \A d \in deliveries : d.endpoint # "verify_session" => d.principal = issued[d.session_id]
=============================================================================
