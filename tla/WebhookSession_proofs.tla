------------------------ MODULE WebhookSession_proofs ------------------------
(***************************************************************************)
(* Execution on a host with one worker thread, for any number of           *)
(* executions and attempts. The argument follows the verdict: once the     *)
(* host decided an execution, its verdict is in the section or in the      *)
(* cache for good, under the key all attempts share, so no second verdict  *)
(* is ever reached and every answer repeats the first. With more threads   *)
(* the section no longer excludes a second lookup (MCWebhookExecute shows  *)
(* the double execution), so the hypothesis cannot be dropped.             *)
(*                                                                         *)
(* Then sessions over a webhook host, for any number of sessions and       *)
(* cards, any scripts of the host and any number of its threads. Whatever  *)
(* the host answers is arbitrary here; the argument is about which call an *)
(* answer answers. A card asks each seam once per phase, so when it moves  *)
(* on, no answer to an earlier call can be taken for one to the next, and  *)
(* a yes it takes is one the host gave to exactly this question.           *)
(***************************************************************************)
EXTENDS WebhookSession, FiniteSetTheorems, TLAPS

Deliverable == Executions \X Nat

Loop == [at : {"idle", "sending", "backoff", "returned"}, attempt : Nat, outcome : Outcomes]

Types ==
  /\ client \in [Executions -> Loop]
  /\ network \subseteq Deliverable
  /\ section \subseteq [delivery : Deliverable, verdict : Verdicts]
  /\ cache \subseteq [key : Executions, verdict : Verdicts]
  /\ executions \in [Executions -> Nat]
  /\ answers \subseteq [delivery : Deliverable, status : Verdicts \cup {"error"}]

(* The host decided v about e.                                              *)
DecidedAs(e, v) ==
  \/ \E s \in section : s.delivery[1] = e /\ s.verdict = v
  \/ \E c \in cache : c.key = e /\ c.verdict = v

(* The single worker thread is in at most one section.                      *)
OneSection == IsFiniteSet(section) /\ \A s, t \in section : s = t

(* An execution has at most one verdict, it ran exactly if that is          *)
(* "executed", and nothing is decided that was not called.                  *)
OneVerdict ==
  \A e \in Executions :
    /\ \A v, w \in Verdicts : DecidedAs(e, v) /\ DecidedAs(e, w) => v = w
    /\ executions[e] = IF DecidedAs(e, "executed") THEN 1 ELSE 0
    /\ \A v \in Verdicts : DecidedAs(e, v) => client[e].at # "idle"

(* What is answered, and what is returned, was decided; an outcome is       *)
(* known only to a call that returned.                                      *)
Answerable ==
  /\ \A d \in network : client[d[1]].at # "idle"
  /\ \A a \in answers : a.status \in Verdicts => DecidedAs(a.delivery[1], a.status)
  /\ \A e \in Executions :
       /\ client[e].outcome \in Verdicts => DecidedAs(e, client[e].outcome)
       /\ client[e].outcome # "none" <=> client[e].at = "returned"

IInv == Types /\ OneSection /\ OneVerdict /\ Answerable

-----------------------------------------------------------------------------
(* A call that was not made is undecided.                                   *)
LEMMA InvInit == Init => IInv
<1> SUFFICES ASSUME Init
             PROVE  IInv
  OBVIOUS
<1> USE DEF Init
<1>1. Types
  BY DEF Types, Loop, Outcomes
<1>2. OneSection
  BY FS_EmptySet DEF OneSection
<1>3. \A e, v : ~DecidedAs(e, v)
  BY DEF DecidedAs
<1>4. OneVerdict /\ Answerable
  BY <1>3 DEF OneVerdict, Answerable, Verdicts
<1> QED
  BY <1>1, <1>2, <1>4 DEF IInv

(* Changing one client's loop, with the host as it is: what must be shown   *)
(* of the new client, network and answers.                                  *)
LEMMA ClientMoves ==
  ASSUME IInv, NEW e \in Executions, UNCHANGED <<section, cache, executions>>,
         NEW c \in Loop, client' = [client EXCEPT ![e] = c],
         c.at # "idle", c.outcome # "none" <=> c.at = "returned",
         c.outcome \in Verdicts => DecidedAs(e, c.outcome),
         network' = network \/ network' = network \cup {<<e, c.attempt>>},
         answers' \subseteq answers
  PROVE  IInv'
<1> USE DEF IInv
<1>1. /\ client'[e] = c
      /\ \A f \in Executions : f # e => client'[f] = client[f]
  BY DEF Types
<1>2. \A f, v : DecidedAs(f, v)' <=> DecidedAs(f, v)
  BY DEF DecidedAs
<1>3. Types'
  <2>1. network' \subseteq Deliverable
    BY DEF Types, Deliverable, Loop
  <2>2. client' \in [Executions -> Loop]
    BY DEF Types, Loop
  <2> QED
    BY <2>1, <2>2 DEF Types
<1>4. OneSection'
  BY DEF OneSection
<1>5. OneVerdict'
  BY <1>1, <1>2 DEF OneVerdict
<1>6. \A d \in network' : client'[d[1]].at # "idle"
  <2> SUFFICES ASSUME NEW d \in network'
               PROVE  client'[d[1]].at # "idle"
    OBVIOUS
  <2>1. CASE d \in network
    <3>1. d[1] \in Executions
      BY <2>1 DEF Types, Deliverable
    <3> QED
      BY <1>1, <2>1, <3>1 DEF Answerable
  <2>2. CASE d = <<e, c.attempt>>
    BY <1>1, <2>2
  <2> QED
    BY <2>1, <2>2
<1>7. \A a \in answers' : a.status \in Verdicts => DecidedAs(a.delivery[1], a.status)'
  BY <1>2 DEF Answerable
<1>8. \A f \in Executions :
        /\ client'[f].outcome \in Verdicts => DecidedAs(f, client[f].outcome)'
        /\ client'[f].outcome # "none" <=> client'[f].at = "returned"
  <2> SUFFICES ASSUME NEW f \in Executions
               PROVE  /\ client'[f].outcome \in Verdicts => DecidedAs(f, client[f].outcome)'
                      /\ client'[f].outcome # "none" <=> client'[f].at = "returned"
    OBVIOUS
  <2>1. CASE f = e
    BY <1>1, <2>1 DEF DecidedAs
  <2>2. CASE f # e
    BY <1>1, <2>2 DEF Answerable, DecidedAs
  <2> QED
    BY <2>1, <2>2
<1>9. Answerable'
  BY <1>6, <1>7, <1>8 DEF Answerable
<1> QED
  BY <1>3, <1>4, <1>5, <1>9

(* The delivery loop keeps the invariant.                                   *)
LEMMA ClientKeeps ==
  ASSUME IInv, NEW e \in Executions, Execute(e) \/ ClientStep(e)
  PROVE  IInv'
<1>0. /\ client[e] \in Loop
      /\ client[e].attempt \in Nat /\ client[e].outcome \in Outcomes
      /\ client[e].outcome # "none" <=> client[e].at = "returned"
  BY DEF IInv, Types, Loop, Answerable
<1>1. ASSUME NEW attempt \in Nat, Deliver(e, attempt), client[e].at # "returned",
             UNCHANGED <<section, cache, executions, answers>>
      PROVE  IInv'
  <2> DEFINE c == [client[e] EXCEPT !.at = "sending", !.attempt = attempt]
  <2>1. client' = [client EXCEPT ![e] = c] /\ network' = network \cup {<<e, attempt>>}
    BY <1>1 DEF Deliver
  <2>2. client[e].outcome = "none"
    BY <1>0, <1>1
  <2>3. c \in Loop /\ c.at = "sending" /\ c.attempt = attempt /\ c.outcome = "none"
    BY <1>0, <2>2 DEF Loop, Outcomes
  <2> HIDE DEF c
  <2> QED
    BY <1>1, <2>1, <2>3, ClientMoves DEF Verdicts
<1>2. CASE Execute(e)
  BY <1>1, <1>2 DEF Execute
<1>3. ASSUME NEW a \in answers, a.delivery[1] = e, Answered(a)
      PROVE  IInv'
  <2> DEFINE told == OutcomeOf(a.status)
             c == [client[e] EXCEPT !.at = "returned", !.outcome = told]
  <2>1. a.status \in Verdicts \cup {"error"} /\ (a.status \in Verdicts => DecidedAs(e, a.status))
    BY <1>3 DEF IInv, Types, Answerable
  <2>2. /\ told \in Outcomes /\ told # "none"
        /\ told \in Verdicts => told = a.status /\ DecidedAs(e, told)
    BY <2>1 DEF OutcomeOf, Outcomes, Verdicts
  <2>3. /\ client' = [client EXCEPT ![e] = c] /\ answers' \subseteq answers
        /\ UNCHANGED <<network, section, cache, executions>>
    BY <1>3 DEF Answered, Finish
  <2> HIDE DEF told
  <2>4. c \in Loop /\ c.at = "returned" /\ c.outcome = told
    BY <1>0, <2>2 DEF Loop
  <2> HIDE DEF c
  <2> QED
    BY <2>2, <2>3, <2>4, ClientMoves
<1>4. CASE TimesOut(e)
  <2>1. /\ UNCHANGED <<network, section, cache, executions>> /\ answers' \subseteq answers
        /\ client[e].at = "sending" /\ client[e].outcome = "none"
    BY <1>0, <1>4 DEF TimesOut, OthersAnswers
  <2>2. CASE GivesUp(e)
    <3> DEFINE c == [client[e] EXCEPT !.at = "returned", !.outcome = "unknown"]
    <3>1. client' = [client EXCEPT ![e] = c]
      BY <1>4, <2>2 DEF TimesOut, Unreachable, Finish, UnknownOutcome
    <3>2. c \in Loop /\ c.at = "returned" /\ c.outcome = "unknown"
      BY <1>0 DEF Loop, Outcomes
    <3> HIDE DEF c
    <3> QED
      BY <2>1, <3>1, <3>2, ClientMoves DEF Verdicts
  <2>3. CASE ~GivesUp(e)
    <3> DEFINE c == [client[e] EXCEPT !.at = "backoff"]
    <3>1. client' = [client EXCEPT ![e] = c]
      BY <1>4, <2>3 DEF TimesOut, Unreachable
    <3>2. c \in Loop /\ c.at = "backoff" /\ c.outcome = "none"
      BY <1>0, <2>1 DEF Loop
    <3> HIDE DEF c
    <3> QED
      BY <2>1, <3>1, <3>2, ClientMoves DEF Verdicts
  <2> QED
    BY <2>2, <2>3
<1>5. CASE Retry(e)
  BY <1>0, <1>1, <1>5 DEF Retry, NextAttempt
<1> QED
  BY <1>2, <1>3, <1>4, <1>5 DEF ClientStep

-----------------------------------------------------------------------------
(* A host that decides nothing new leaves every verdict where it was.       *)
LEMMA HostTakesKeeps ==
  ASSUME IInv, UNCHANGED <<client, section, cache, executions>>,
         network' \subseteq network,
         \A a \in answers' : \/ a \in answers
                             \/ /\ a \in [delivery : Deliverable, status : Verdicts \cup {"error"}]
                                /\ a.status \in Verdicts => DecidedAs(a.delivery[1], a.status)
  PROVE  IInv'
<1> USE DEF IInv
<1>1. \A f, v : DecidedAs(f, v)' <=> DecidedAs(f, v)
  BY DEF DecidedAs
<1>2. Types'
  BY DEF Types
<1>3. OneSection' /\ OneVerdict'
  BY <1>1 DEF OneSection, OneVerdict
<1>4. Answerable'
  <2>1. \A d \in network' : client'[d[1]].at # "idle"
    BY DEF Answerable
  <2>2. \A a \in answers' : a.status \in Verdicts => DecidedAs(a.delivery[1], a.status)
    BY DEF Answerable
  <2>3. \A f \in Executions :
          /\ client[f].outcome \in Verdicts => DecidedAs(f, client[f].outcome)
          /\ client[f].outcome # "none" <=> client[f].at = "returned"
    BY DEF Answerable
  <2> QED
    BY <2>1, <2>2, <2>3 DEF Answerable, DecidedAs
<1> QED
  BY <1>2, <1>3, <1>4

(* A free worker thread has left its section.                               *)
LEMMA SectionEmpty ==
  ASSUME IInv, Threads = 1, Runnable
  PROVE  section = {}
BY FS_EmptySet, FS_CardinalityType DEF IInv, OneSection, Runnable

(* The endpoint keeps the invariant: a lookup that misses decides the       *)
(* execution for the first time.                                            *)
LEMMA HostKeeps ==
  ASSUME IInv, Threads = 1, Host
  PROVE  IInv'
<1>1. ASSUME NEW d \in network, NEW status, Respond(d, status)
      PROVE  \A a \in answers' : a \in answers \/ a = [delivery |-> d, status |-> status]
  BY <1>1 DEF Respond
<1>2. ASSUME NEW d \in network
      PROVE  d \in Deliverable /\ d[1] \in Executions
  BY DEF IInv, Types, Deliverable
<1>3. ASSUME NEW d \in network, HostRefuses(d)
      PROVE  IInv'
  <2>1. "error" \notin Verdicts
    BY DEF Verdicts
  <2> QED
    BY <1>1, <1>2, <1>3, <2>1, HostTakesKeeps DEF HostRefuses
<1>4. ASSUME NEW d \in network, HostReplays(d)
      PROVE  IInv'
  <2>1. PICK c \in Cached(d) : Respond(d, c.verdict)
    BY <1>4 DEF HostReplays
  <2>2. c.verdict \in Verdicts /\ DecidedAs(d[1], c.verdict)
    BY <2>1 DEF Cached, Key, DecidedAs, IInv, Types
  <2> QED
    BY <1>1, <1>2, <1>4, <2>1, <2>2, HostTakesKeeps DEF HostReplays
<1>5. ASSUME NEW d \in network, NEW verdict \in Verdicts, HostPerforms(d, verdict)
      PROVE  IInv'
  <2> DEFINE e == d[1]
             new == [delivery |-> d, verdict |-> verdict]
  <2>1. section = {} /\ section' = {new} /\ UNCHANGED <<client, cache, answers>>
    BY <1>5, SectionEmpty DEF HostPerforms
  <2>2. \A v : ~DecidedAs(e, v)
    BY <1>5, <2>1 DEF HostPerforms, Cached, Key, DecidedAs
  <2>3. \A v : \A f \in Executions : DecidedAs(f, v)' <=> DecidedAs(f, v) \/ (f = e /\ v = verdict)
    BY <2>1 DEF DecidedAs
  <2>4. client[e].at # "idle" /\ d \in Deliverable /\ e \in Executions
    BY <1>2 DEF IInv, Answerable
  <2>5. executions' = [executions EXCEPT ![e] = IF verdict = "executed" THEN 1 ELSE 0]
    <3>1. executions[e] = 0 /\ executions \in [Executions -> Nat]
      BY <2>2, <2>4 DEF IInv, OneVerdict, Types
    <3>2. CASE verdict = "executed"
      <4>1. executions' = [executions EXCEPT ![e] = executions[e] + 1]
        BY <1>5, <3>2 DEF HostPerforms
      <4> QED
        BY <3>1, <3>2, <4>1
    <3>3. CASE verdict # "executed"
      <4>1. executions' = executions
        BY <1>5, <3>3 DEF HostPerforms
      <4> QED
        BY <3>1, <3>3, <4>1
    <3> QED
      BY <3>2, <3>3
  <2>6. Types'
    BY <1>5, <2>1, <2>4, <2>5 DEF HostPerforms, IInv, Types
  <2>7. OneSection'
    BY <2>1, FS_Singleton DEF OneSection
  <2>8. OneVerdict'
    <3> SUFFICES ASSUME NEW f \in Executions
                 PROVE  /\ \A v, w \in Verdicts : DecidedAs(f, v)' /\ DecidedAs(f, w)' => v = w
                        /\ executions'[f] = IF DecidedAs(f, "executed")' THEN 1 ELSE 0
                        /\ \A v \in Verdicts : DecidedAs(f, v)' => client'[f].at # "idle"
      BY DEF OneVerdict
    <3>1. executions \in [Executions -> Nat]
      BY DEF IInv, Types
    <3>2. CASE f = e
      BY <2>1, <2>2, <2>3, <2>4, <2>5, <3>1, <3>2
    <3>3. CASE f # e
      BY <2>1, <2>3, <2>5, <3>1, <3>3 DEF IInv, OneVerdict
    <3> QED
      BY <3>2, <3>3
  <2>9. Answerable'
    <3>1. \A f \in network' : client'[f[1]].at # "idle"
      BY <1>5, <2>1 DEF HostPerforms, IInv, Answerable
    <3>2. \A a \in answers : a.status \in Verdicts => DecidedAs(a.delivery[1], a.status)'
      <4> SUFFICES ASSUME NEW a \in answers, a.status \in Verdicts
                   PROVE  DecidedAs(a.delivery[1], a.status)'
        OBVIOUS
      <4>1. a.delivery[1] \in Executions
        BY DEF IInv, Types, Deliverable
      <4>2. DecidedAs(a.delivery[1], a.status)
        BY DEF IInv, Answerable
      <4> QED
        BY <2>3, <4>1, <4>2
    <3>3. \A f \in Executions :
            /\ client[f].outcome \in Verdicts => DecidedAs(f, client[f].outcome)
            /\ client[f].outcome # "none" <=> client[f].at = "returned"
      BY DEF IInv, Answerable
    <3>4. \A f \in Executions : \A v : DecidedAs(f, v) => DecidedAs(f, v)'
      BY <2>3
    <3> QED
      BY <2>1, <3>1, <3>2, <3>3, <3>4 DEF Answerable, DecidedAs
  <2> QED
    BY <2>6, <2>7, <2>8, <2>9 DEF IInv
<1>6. ASSUME NEW x \in section, HostAnswers(x)
      PROVE  IInv'
  <2> DEFINE d == x.delivery
             entry == [key |-> Key(d), verdict |-> x.verdict]
  <2>1. /\ section = {x} /\ section' = {} /\ cache' = cache \cup {entry}
        /\ UNCHANGED <<client, network, executions>> /\ Respond(d, x.verdict)
    BY <1>6 DEF HostAnswers, Remember, IInv, OneSection
  <2>2. /\ d \in Deliverable /\ d[1] \in Executions /\ x.verdict \in Verdicts
        /\ entry \in [key : Executions, verdict : Verdicts] /\ DecidedAs(d[1], x.verdict)
    BY DEF IInv, Types, Deliverable, Key, DecidedAs
  <2>3. \A f, v : DecidedAs(f, v)' <=> DecidedAs(f, v)
    <3> SUFFICES ASSUME NEW f, NEW v
                 PROVE  DecidedAs(f, v)' <=> DecidedAs(f, v)
      OBVIOUS
    <3>1. DecidedAs(f, v) <=> \/ d[1] = f /\ x.verdict = v
                              \/ \E c \in cache : c.key = f /\ c.verdict = v
      BY <2>1 DEF DecidedAs
    <3>2. DecidedAs(f, v)' <=> \E c \in cache \cup {entry} : c.key = f /\ c.verdict = v
      BY <2>1 DEF DecidedAs
    <3>3. entry.key = d[1] /\ entry.verdict = x.verdict
      BY DEF Key
    <3> QED
      BY <3>1, <3>2, <3>3
  <2>4. \A a \in answers' : a \in answers \/ a = [delivery |-> d, status |-> x.verdict]
    BY <2>1 DEF Respond
  <2>5. Types'
    BY <2>1, <2>2, <2>4 DEF IInv, Types
  <2>6. OneSection'
    BY <2>1, FS_EmptySet DEF OneSection
  <2>7. OneVerdict'
    BY <2>1, <2>3 DEF IInv, OneVerdict
  <2>8. \A a \in answers' : a.status \in Verdicts => DecidedAs(a.delivery[1], a.status)
    BY <2>2, <2>4 DEF IInv, Answerable
  <2>9. /\ \A f \in network : client[f[1]].at # "idle"
        /\ \A f \in Executions :
            /\ client[f].outcome \in Verdicts => DecidedAs(f, client[f].outcome)
            /\ client[f].outcome # "none" <=> client[f].at = "returned"
    BY DEF IInv, Answerable
  <2> HIDE DEF d, entry
  <2>10. Answerable'
    <3>1. \A a \in answers' : a.status \in Verdicts => DecidedAs(a.delivery[1], a.status)'
      BY <2>3, <2>8
    <3>2. \A f \in Executions : client'[f].outcome \in Verdicts => DecidedAs(f, client[f].outcome)'
      <4> SUFFICES ASSUME NEW f \in Executions, client[f].outcome \in Verdicts
                   PROVE  DecidedAs(f, client[f].outcome)'
        BY <2>1
      <4>1. PICK v \in Verdicts : v = client[f].outcome
        OBVIOUS
      <4>2. DecidedAs(f, v)'
        BY <2>3, <2>9, <4>1
      <4> QED
        BY <2>1, <4>1, <4>2 DEF DecidedAs
    <3> QED
      BY <2>1, <2>9, <3>1, <3>2 DEF Answerable
  <2> QED
    BY <2>5, <2>6, <2>7, <2>10 DEF IInv
<1> QED
  BY <1>3, <1>4, <1>5, <1>6 DEF Host

(* Every step of the loop and the host keeps the invariant.                 *)
LEMMA InvStep ==
  ASSUME Threads = 1, IInv, [Next]_vars
  PROVE  IInv'
<1>1. CASE UNCHANGED vars
  BY <1>1 DEF vars, IInv, Types, OneSection, OneVerdict, Answerable, DecidedAs
<1> QED
  BY <1>1, ClientKeeps, HostKeeps DEF Next

(* With one worker thread the invariant holds throughout.                   *)
LEMMA Invariant ==
  ASSUME Threads = 1
  PROVE  Spec => []IInv
<1>1. IInv /\ [Next]_vars => IInv'
  BY InvStep
<1> QED
  BY <1>1, InvInit, PTL DEF Spec

(* However attempts are lost, delayed or overtaken, a host with one worker  *)
(* thread performs each execution at most once.                             *)
THEOREM ExecutedOnce ==
  ASSUME Threads = 1
  PROVE  Spec => []PerformedOnce
<1>1. IInv => PerformedOnce
  BY DEF IInv, OneVerdict, PerformedOnce
<1> QED
  BY <1>1, Invariant, PTL

(* An outcome the agent is told for certain is the truth, and stays the     *)
(* truth whatever attempts are still under way.                             *)
THEOREM OutcomeHolds ==
  ASSUME Threads = 1
  PROVE  Spec => []OutcomeIsTrue
<1>1. IInv => OutcomeIsTrue
  BY DEF IInv, OneVerdict, Answerable, Verdicts, OutcomeIsTrue
<1> QED
  BY <1>1, Invariant, PTL

-----------------------------------------------------------------------------
(* The loop and the host implement the handler's contract. *)

PhaseMap == [e \in Executions |-> PhaseOf(e)]

VerdictMap == [e \in Executions |-> VerdictOf(e)]

(* What the contract calls a verdict, by what the host decided.             *)
VerdictTold(e) ==
  /\ DecidedAs(e, "executed") => VerdictOf(e) = "ran"
  /\ DecidedAs(e, "rejected") => VerdictOf(e) = "refused"
  /\ (\A v \in Verdicts : ~DecidedAs(e, v)) => VerdictOf(e) = "open"

(* The invariant makes it so.                                               *)
LEMMA VerdictIs ==
  ASSUME NEW e \in Executions
  PROVE  IInv => VerdictTold(e)
<1> SUFFICES ASSUME IInv
             PROVE  VerdictTold(e)
  OBVIOUS
<1> DEFINE Evidence == \/ \E s \in section : s.delivery[1] = e
                       \/ \E c \in cache : c.key = e
<1>1. /\ executions[e] = IF DecidedAs(e, "executed") THEN 1 ELSE 0
      /\ ~(DecidedAs(e, "executed") /\ DecidedAs(e, "rejected"))
  BY DEF IInv, OneVerdict, Verdicts
<1>2. ASSUME NEW v, DecidedAs(e, v) PROVE Evidence
  BY <1>2 DEF DecidedAs
<1>3. ASSUME Evidence PROVE \E v \in Verdicts : DecidedAs(e, v)
  <2>1. CASE \E s \in section : s.delivery[1] = e
    <3>1. PICK s \in section : s.delivery[1] = e
      BY <2>1
    <3>2. s.verdict \in Verdicts
      BY DEF IInv, Types
    <3> QED
      BY <3>1, <3>2 DEF DecidedAs
  <2>2. CASE \E c \in cache : c.key = e
    <3>1. PICK c \in cache : c.key = e
      BY <2>2
    <3>2. c.verdict \in Verdicts
      BY DEF IInv, Types
    <3> QED
      BY <3>1, <3>2 DEF DecidedAs
  <2> QED
    BY <1>3, <2>1, <2>2
<1>4. VerdictOf(e) = IF executions[e] > 0 THEN "ran" ELSE IF Evidence THEN "refused" ELSE "open"
  BY DEF VerdictOf
<1> HIDE DEF Evidence
<1>5. ASSUME DecidedAs(e, "executed") PROVE VerdictOf(e) = "ran"
  BY <1>1, <1>4, <1>5
<1>6. ASSUME DecidedAs(e, "rejected") PROVE VerdictOf(e) = "refused"
  <2>1. Evidence
    BY <1>2, <1>6
  <2> QED
    BY <1>1, <1>4, <1>6, <2>1
<1>7. ASSUME \A v \in Verdicts : ~DecidedAs(e, v) PROVE VerdictOf(e) = "open"
  <2>1. ~Evidence /\ ~DecidedAs(e, "executed")
    BY <1>3, <1>7 DEF Verdicts
  <2> QED
    BY <1>1, <1>4, <2>1
<1> QED
  BY <1>5, <1>6, <1>7 DEF VerdictTold

AllTold == \A e \in Executions : VerdictTold(e)

(* So it does before and after a step that keeps it.                        *)
LEMMA AlwaysTold == (IInv => AllTold) /\ (IInv' => AllTold')
<1>1. IInv => AllTold
  BY VerdictIs DEF AllTold
<1> QED
  BY <1>1, PTL

(* A step of one delivery loop changes one phase and no verdict.            *)
LEMMA OnePhase ==
  ASSUME NEW e \in Executions, UNCHANGED <<section, cache, executions>>,
         NEW to, PhaseOf(e)' = to,
         \A f \in Executions : f # e => client'[f] = client[f]
  PROVE  VerdictMap' = VerdictMap /\ PhaseMap' = [PhaseMap EXCEPT ![e] = to]
<1>1. \A f \in Executions : VerdictOf(f)' = VerdictOf(f)
  BY DEF VerdictOf
<1>2. \A f \in Executions : f # e => PhaseOf(f)' = PhaseOf(f)
  BY DEF PhaseOf
<1>3. VerdictMap' = VerdictMap
  BY <1>1 DEF VerdictMap
<1>4. PhaseMap' = [PhaseMap EXCEPT ![e] = to]
  BY <1>2 DEF PhaseMap
<1> QED
  BY <1>3, <1>4

(* The delivery loop calls, waits and returns an outcome of the contract.   *)
LEMMA ClientRefines ==
  ASSUME IInv, NEW e \in Executions, Execute(e) \/ ClientStep(e)
  PROVE  Contract!ContractNext \/ UNCHANGED <<PhaseMap, VerdictMap>>
<1> USE DEF Contract!ContractNext
<1>0. /\ client \in [Executions -> Loop] /\ client[e] \in Loop
      /\ client[e].outcome # "none" <=> client[e].at = "returned"
  BY DEF IInv, Types, Answerable
<1>1. ASSUME Deliver(e, client[e].attempt + 1) \/ Deliver(e, 1)
      PROVE  /\ PhaseOf(e)' = "called"
             /\ \A f \in Executions : f # e => client'[f] = client[f]
  <2>1. PICK n : client' = [client EXCEPT ![e] = [@ EXCEPT !.at = "sending", !.attempt = n]]
    BY <1>1 DEF Deliver
  <2>2. client'[e].at = "sending"
    BY <1>0, <2>1 DEF Loop
  <2>3. \A f \in Executions : f # e => client'[f] = client[f]
    BY <1>0, <2>1
  <2> QED
    BY <2>2, <2>3 DEF PhaseOf
<1>2. CASE Execute(e)
  <2>1. client[e].at = "idle" /\ Deliver(e, 1) /\ UNCHANGED <<section, cache, executions>>
    BY <1>2 DEF Execute
  <2>2. PhaseMap[e] = "idle"
    BY <2>1 DEF PhaseMap, PhaseOf
  <2>3. VerdictMap' = VerdictMap /\ PhaseMap' = [PhaseMap EXCEPT ![e] = "called"]
    BY <1>1, <2>1, OnePhase
  <2>4. Contract!Call(e)
    BY <2>2, <2>3 DEF Contract!Call, PhaseMap, VerdictMap
  <2> QED
    BY <2>4
<1>3. CASE Retry(e)
  <2>1. /\ client[e].at = "backoff" /\ Deliver(e, client[e].attempt + 1)
        /\ UNCHANGED <<section, cache, executions>>
    BY <1>3 DEF Retry, NextAttempt
  <2>2. PhaseMap[e] = "called"
    BY <2>1 DEF PhaseMap, PhaseOf
  <2>3. VerdictMap' = VerdictMap /\ PhaseMap' = [PhaseMap EXCEPT ![e] = "called"]
    BY <1>1, <2>1, OnePhase
  <2> QED
    BY <2>2, <2>3 DEF PhaseMap
<1>4. ASSUME NEW outcome \in Outcomes, Finish(e, outcome), client[e].at = "sending",
             UNCHANGED <<section, cache, executions>>,
             outcome \in Verdicts => DecidedAs(e, outcome)
      PROVE  \E o \in {"executed", "rejected", "error"} : Contract!ReturnOutcome(e, o)
  <2> DEFINE o == IF outcome \in Verdicts THEN outcome ELSE "error"
  <2>1. /\ client'[e].at = "returned" /\ client'[e].outcome = outcome
        /\ \A f \in Executions : f # e => client'[f] = client[f]
    BY <1>0, <1>4 DEF Finish, Loop
  <2>2. PhaseOf(e)' = o /\ PhaseMap[e] = "called" /\ o \in {"executed", "rejected", "error"}
    BY <1>4, <2>1 DEF PhaseOf, PhaseMap, Verdicts
  <2>3. VerdictMap[e] = VerdictOf(e)
    BY DEF VerdictMap
  <2>4. /\ o = "executed" => VerdictMap[e] = "ran"
        /\ o = "rejected" => VerdictMap[e] = "refused"
    BY <1>4, <2>3, VerdictIs DEF VerdictTold, Verdicts
  <2> HIDE DEF o
  <2>5. VerdictMap' = VerdictMap /\ PhaseMap' = [PhaseMap EXCEPT ![e] = o]
    BY <1>4, <2>1, <2>2, OnePhase
  <2>6. Contract!ReturnOutcome(e, o)
    BY <2>2, <2>4, <2>5 DEF Contract!ReturnOutcome, PhaseMap, VerdictMap
  <2> QED
    BY <2>2, <2>6
<1>5. ASSUME NEW a \in answers, a.delivery[1] = e, Answered(a)
      PROVE  Contract!ContractNext
  <2>1. a.status \in Verdicts \cup {"error"} /\ (a.status \in Verdicts => DecidedAs(e, a.status))
    BY <1>5 DEF IInv, Types, Answerable
  <2>2. PICK outcome \in Outcomes : outcome = OutcomeOf(a.status)
    BY <2>1 DEF OutcomeOf, Outcomes, Verdicts
  <2>3. outcome \in Verdicts => DecidedAs(e, outcome)
    BY <2>1, <2>2 DEF OutcomeOf, Verdicts
  <2>4. Finish(e, outcome) /\ client[e].at = "sending" /\ UNCHANGED <<section, cache, executions>>
    BY <1>5, <2>2 DEF Answered, Awaited, Finish
  <2> QED
    BY <1>4, <2>3, <2>4
<1>6. CASE TimesOut(e)
  <2>1. client[e].at = "sending" /\ Unreachable(e) /\ UNCHANGED <<section, cache, executions>>
    BY <1>6 DEF TimesOut
  <2>2. CASE GivesUp(e)
    <3>1. Finish(e, "unknown") /\ "unknown" \in Outcomes /\ "unknown" \notin Verdicts
      BY <2>1, <2>2 DEF Unreachable, UnknownOutcome, Outcomes, Verdicts
    <3> QED
      BY <1>4, <2>1, <3>1
  <2>3. CASE ~GivesUp(e)
    <3>1. client' = [client EXCEPT ![e].at = "backoff"]
      BY <2>1, <2>3 DEF Unreachable
    <3>2. /\ PhaseOf(e)' = "called" /\ PhaseMap[e] = "called"
          /\ \A f \in Executions : f # e => client'[f] = client[f]
      BY <1>0, <2>1, <3>1 DEF PhaseOf, PhaseMap, Loop
    <3>3. VerdictMap' = VerdictMap /\ PhaseMap' = [PhaseMap EXCEPT ![e] = "called"]
      BY <2>1, <3>2, OnePhase
    <3> QED
      BY <3>2, <3>3 DEF PhaseMap
  <2> QED
    BY <2>2, <2>3
<1> QED
  BY <1>2, <1>3, <1>5, <1>6 DEF ClientStep

(* Taking a decided execution out of the section leaves all verdicts.       *)
LEMMA SameVerdicts ==
  ASSUME IInv, IInv', \A e \in Executions, v \in Verdicts : DecidedAs(e, v)' <=> DecidedAs(e, v),
         UNCHANGED client
  PROVE  UNCHANGED <<PhaseMap, VerdictMap>>
<1>1. ASSUME NEW e \in Executions
      PROVE  VerdictOf(e)' = VerdictOf(e)
  <2>1. VerdictTold(e) /\ VerdictTold(e)'
    BY AlwaysTold DEF AllTold
  <2>2. \/ DecidedAs(e, "executed") \/ DecidedAs(e, "rejected")
        \/ \A v \in Verdicts : ~DecidedAs(e, v)
    BY DEF Verdicts
  <2> QED
    BY <2>1, <2>2 DEF VerdictTold, Verdicts
<1>2. \A e \in Executions : PhaseOf(e)' = PhaseOf(e)
  BY DEF PhaseOf
<1> QED
  BY <1>1, <1>2 DEF PhaseMap, VerdictMap
(* The host decides an execution the contract says was called and is open,  *)
(* or changes nothing the contract sees.                                    *)
LEMMA HostRefines ==
  ASSUME IInv, IInv', Threads = 1, Host
  PROVE  Contract!ContractNext \/ UNCHANGED <<PhaseMap, VerdictMap>>
<1>1. ASSUME UNCHANGED <<client, section, cache>>
      PROVE  UNCHANGED <<PhaseMap, VerdictMap>>
  <2>1. \A e \in Executions, v \in Verdicts : DecidedAs(e, v)' <=> DecidedAs(e, v)
    BY <1>1 DEF DecidedAs
  <2> QED
    BY <1>1, <2>1, SameVerdicts
<1>2. ASSUME NEW d \in network, HostRefuses(d) \/ HostReplays(d)
      PROVE  UNCHANGED <<PhaseMap, VerdictMap>>
  BY <1>1, <1>2 DEF HostRefuses, HostReplays
<1>3. ASSUME NEW s \in section, HostAnswers(s)
      PROVE  UNCHANGED <<PhaseMap, VerdictMap>>
  <2>1. /\ section' = section \ {s} /\ UNCHANGED client
        /\ cache' = cache \cup {[key |-> s.delivery[1], verdict |-> s.verdict]}
    BY <1>3 DEF HostAnswers, Remember, Key
  <2>2. ASSUME NEW e \in Executions, NEW v \in Verdicts
        PROVE  DecidedAs(e, v)' <=> DecidedAs(e, v)
    <3>1. (\E c \in cache' : c.key = e /\ c.verdict = v)
            <=> \/ \E c \in cache : c.key = e /\ c.verdict = v
                \/ s.delivery[1] = e /\ s.verdict = v
      <4> DEFINE known == [key |-> s.delivery[1], verdict |-> s.verdict]
      <4>1. known.key = s.delivery[1] /\ known.verdict = s.verdict
        OBVIOUS
      <4>2. cache' = cache \cup {known}
        BY <2>1
      <4> HIDE DEF known
      <4> QED
        BY <4>1, <4>2
    <3>2. (\E t \in section : t.delivery[1] = e /\ t.verdict = v)
            <=> \/ \E t \in section' : t.delivery[1] = e /\ t.verdict = v
                \/ s.delivery[1] = e /\ s.verdict = v
      BY <2>1
    <3> QED
      BY <3>1, <3>2 DEF DecidedAs
  <2> QED
    BY <2>1, <2>2, SameVerdicts
<1>4. ASSUME NEW d \in network, NEW v \in Verdicts, HostPerforms(d, v)
      PROVE  Contract!ContractNext
  <2> DEFINE e == d[1]
             told == IF v = "executed" THEN "ran" ELSE "refused"
  <2>1. e \in Executions /\ client[e].at # "idle"
    BY DEF IInv, Types, Deliverable, Answerable
  <2>2. /\ section = {} /\ section' = {[delivery |-> d, verdict |-> v]}
        /\ UNCHANGED <<client, cache>> /\ \A c \in cache : c.key # e
    BY <1>4, SectionEmpty DEF HostPerforms, Cached, Key
  <2> HIDE DEF e
  <2>3. \A w \in Verdicts : ~DecidedAs(e, w)
    BY <2>2 DEF DecidedAs
  <2>4. VerdictOf(e) = "open"
    BY <2>1, <2>3, AlwaysTold DEF AllTold, VerdictTold
  <2>5. DecidedAs(e, v)'
    BY <2>2 DEF DecidedAs, e
  <2>6. VerdictOf(e)' = told
    BY <2>1, <2>5, AlwaysTold DEF AllTold, VerdictTold, Verdicts
  <2>7. \A f \in Executions : f # e => VerdictOf(f)' = VerdictOf(f)
    <3> SUFFICES ASSUME NEW f \in Executions, f # e
                 PROVE  VerdictOf(f)' = VerdictOf(f)
      OBVIOUS
    <3>1. \A w \in Verdicts : DecidedAs(f, w)' <=> DecidedAs(f, w)
      BY <2>2 DEF DecidedAs, e
    <3>2. \/ DecidedAs(f, "executed") \/ DecidedAs(f, "rejected")
          \/ \A w \in Verdicts : ~DecidedAs(f, w)
      BY DEF Verdicts
    <3>3. VerdictTold(f) /\ VerdictTold(f)'
      BY AlwaysTold DEF AllTold
    <3> QED
      BY <3>1, <3>2, <3>3 DEF VerdictTold, Verdicts
  <2>8. PhaseOf(e) # "idle" /\ \A f \in Executions : PhaseOf(f)' = PhaseOf(f)
    BY <2>1, <2>2 DEF PhaseOf, IInv, Types, Loop, Verdicts
  <2>9. PhaseMap' = PhaseMap /\ VerdictMap' = [VerdictMap EXCEPT ![e] = told]
    BY <2>6, <2>7, <2>8 DEF PhaseMap, VerdictMap
  <2>10. PhaseMap[e] # "idle" /\ VerdictMap[e] = "open" /\ told \in {"ran", "refused"}
    BY <2>1, <2>4, <2>8 DEF PhaseMap, VerdictMap
  <2> HIDE DEF told
  <2>11. Contract!SettleVerdict(e, told)
    BY <2>9, <2>10 DEF Contract!SettleVerdict, PhaseMap, VerdictMap
  <2> QED
    BY <2>1, <2>10, <2>11 DEF Contract!ContractNext
<1> QED
  BY <1>2, <1>3, <1>4 DEF Host

(* Nothing is called or decided at the start.                               *)
LEMMA InitRefines == Init => Contract!ContractInit
BY DEF Init, Contract!ContractInit, PhaseOf, VerdictOf

(* With one worker thread, the delivery loop, the network that loses and    *)
(* reorders, and the idempotent host together are a handler that decides    *)
(* each execution once and reports it as decided: the promise the agent     *)
(* loop relies on.                                                          *)
THEOREM KeepsTheContract ==
  ASSUME Threads = 1
  PROVE  Spec => KeepsContract
<1>1. IInv /\ IInv' /\ [Next]_vars => [Contract!ContractNext]_Contract!contractVars
  <2> SUFFICES ASSUME IInv, IInv', [Next]_vars
               PROVE  Contract!ContractNext \/ UNCHANGED <<PhaseMap, VerdictMap>>
    BY DEF Contract!contractVars, PhaseMap, VerdictMap
  <2>1. CASE UNCHANGED vars
    BY <2>1 DEF vars, PhaseMap, VerdictMap, PhaseOf, VerdictOf
  <2> QED
    BY <2>1, ClientRefines, HostRefines DEF Next
<1> QED
  BY <1>1, Invariant, InitRefines, PTL DEF Spec, KeepsContract, Contract!ContractSpec

-----------------------------------------------------------------------------
(* Sessions.                                                                *)

Yes(r) == r.status = "200" /\ r.body.kind \in {"allow", "preview", "slots"}
Issues(r) == r.status = "200" /\ r.body.kind = "principal"

Shapes ==
  /\ DOMAIN session = Sessions /\ DOMAIN issued = Sessions /\ DOMAIN card = Executions
  /\ \A s \in Sessions : session[s] = [at |-> session[s].at, principal |-> session[s].principal]
  /\ DOMAIN client = Executions /\ executions \in [Executions -> Nat]

(* An open session carries the principal the host gave it.                  *)
Streams ==
  \A s \in Sessions : session[s].at = "open" =>
    issued[s].kind = "principal" /\ session[s].principal = session_principal(s, issued[s])

(* The card has come as far as the i-th seam of a phase.                    *)
Asked(e, phase, i) ==
  \/ /\ phase = "propose" /\ card[e].phase # "none"
     /\ card[e].phase = "propose" => i <= card[e].step
  \/ /\ phase = "confirm" /\ card[e].phase \in {"confirm", "confirmed", "expired"}
     /\ card[e].phase = "confirm" => i <= card[e].step

VerifyCall(c) ==
  /\ c.of \in Sessions /\ session[c.of].at \in {"verifying", "503"}
  /\ c = Request(c.of, "verify", "verify_session", c.of, None)

SeamCall(c) ==
  /\ c.of \in Executions
  /\ \E i \in DOMAIN Seams : c.endpoint = Seams[i] /\ Asked(c.of, c.phase, i)
  /\ c = seam_request(c.of, c.phase, c.endpoint, session[SessionOf[c.of]].principal)

(* Every call still under way is one a session or a card once made.         *)
Called == \A c \in calls : VerifyCall(c) \/ SeamCall(c)

(* An answer is for the call its session or card waits for, the only one,   *)
(* and what it says the host said.                                          *)
Expected(r) ==
  \/ /\ r.of \in Sessions /\ session[r.of].at = "verifying"
     /\ Issues(r) => issued[r.of] = r.body
  \/ /\ r.of \in Executions /\ Validating(r.of)
     /\ Yes(r) => <<r.of, card[r.of].phase, Seams[card[r.of].step]>> \in granted

Answering ==
  /\ \A q, r \in replies : q.of = r.of => q = r
  /\ \A r \in replies : Expected(r) /\ \A c \in calls : r.of = c.of => ~Calling(c)

(* A card has the host's yes to every seam it passed.                       *)
Passed(e, phase, i) ==
  \/ phase = "propose" /\ card[e].phase \in {"pending", "confirm", "confirmed", "expired"}
  \/ phase = "confirm" /\ card[e].phase = "confirmed"
  \/ card[e].phase = phase /\ i < card[e].step

Cleared ==
  \A e \in Executions :
    /\ card[e].phase # "none" => session[SessionOf[e]].at = "open"
    /\ Validating(e) => card[e].step \in DOMAIN Seams
    /\ \A i \in DOMAIN Seams, phase \in {"propose", "confirm"} :
         Passed(e, phase, i) => <<e, phase, Seams[i]>> \in granted

(* Only a confirmed card is delivered for execution, or performed.          *)
Executing ==
  /\ \A e \in Executions : client[e].at # "idle" \/ executions[e] > 0 => card[e].phase = "confirmed"
  /\ \A d \in network : d[1] \in Executions /\ card[d[1]].phase = "confirmed"

(* What the host recorded was sent by an open session.                      *)
Echoed ==
  \A d \in deliveries : d.endpoint # "verify_session" =>
    /\ d.session_id \in Sessions /\ session[d.session_id].at = "open"
    /\ d.principal = issued[d.session_id]

SInv == Shapes /\ Streams /\ Called /\ Answering /\ Cleared /\ Executing /\ Echoed
-----------------------------------------------------------------------------
(* The seams of a card are numbered 1 to 3.                                 *)
LEMMA SeamCount == DOMAIN Seams = 1 .. 3 /\ Len(Seams) = 3
BY DEF Seams

(* Nothing was called, sent or granted at the start.                        *)
LEMMA SInvInit == SessionInit => SInv
<1> SUFFICES ASSUME SessionInit
             PROVE  SInv
  OBVIOUS
<1> USE DEF SessionInit, Init
<1>1. Shapes
  BY DEF Shapes
<1>2. Streams /\ Called /\ Answering /\ Echoed
  BY DEF Streams, Called, Answering, Echoed
<1>3. Cleared
  BY DEF Cleared, Validating, Passed
<1>4. Executing
  BY DEF Executing
<1> QED
  BY <1>1, <1>2, <1>3, <1>4 DEF SInv

(* A session that is not open yet moves on; its answers are gone, and with  *)
(* them the call they answered.                                             *)
LEMMA SessionMoves ==
  ASSUME SInv, NEW s \in Sessions, NEW x, session' = [session EXCEPT ![s] = x],
         x = [at |-> x.at, principal |-> x.principal], session[s].at # "open",
         UNCHANGED <<vars, card, deliveries, granted, issued>>,
         x.at = "open" => /\ issued[s].kind = "principal"
                          /\ x.principal = session_principal(s, issued[s]),
         x.at \in {"verifying", "503"} \/ \A c \in calls : c.of # s,
         \/ calls' = calls
         \/ /\ calls' = calls \cup {Request(s, "verify", "verify_session", s, None)}
            /\ x.at = "verifying",
         replies' \subseteq replies, \A r \in replies' : r.of # s
  PROVE  SInv'
<1> USE DEF SInv
<1>1. session'[s] = x /\ \A t \in Sessions : t # s => session'[t] = session[t]
  BY DEF Shapes
<1>2. Shapes'
  BY <1>1 DEF Shapes, vars
<1>3. Streams' /\ Echoed'
  BY <1>1 DEF Streams, Echoed
<1>4. \A e \in Executions : card[e].phase # "none" => SessionOf[e] \in Sessions /\ SessionOf[e] # s
  BY SessionAssumption DEF Cleared
<1>5. Called'
  <2> SUFFICES ASSUME NEW c \in calls'
               PROVE  VerifyCall(c)' \/ SeamCall(c)'
    BY DEF Called
  <2>1. CASE c \in calls /\ VerifyCall(c)
    BY <1>1, <2>1 DEF VerifyCall
  <2>2. CASE c \in calls /\ SeamCall(c)
    <3>1. card[c.of].phase # "none"
      BY <2>2 DEF SeamCall, Asked
    <3>2. session'[SessionOf[c.of]] = session[SessionOf[c.of]]
      BY <1>1, <1>4, <2>2, <3>1 DEF SeamCall
    <3> QED
      BY <2>2, <3>2 DEF SeamCall, Asked
  <2>3. CASE c = Request(s, "verify", "verify_session", s, None) /\ x.at = "verifying"
    BY <1>1, <2>3 DEF VerifyCall, Request
  <2> QED
    BY <2>1, <2>2, <2>3 DEF Called
<1>6. Answering'
  <2>1. \A r \in replies' : Expected(r)'
    BY <1>1 DEF Answering, Expected, Validating
  <2>2. ASSUME NEW r \in replies', NEW c \in calls', r.of = c.of
        PROVE  ~Calling(c)'
    <3>1. c \in calls /\ c.of # s
      BY <2>2 DEF Request
    <3>2. ~Calling(c) /\ (VerifyCall(c) \/ SeamCall(c))
      BY <2>2, <3>1 DEF Answering, Called
    <3>3. c.phase = "verify" => c.of \in Sessions
      BY <3>2 DEF VerifyCall, SeamCall, Asked
    <3> QED
      BY <1>1, <3>1, <3>2, <3>3 DEF Calling
  <2> QED
    BY <2>1, <2>2 DEF Answering
<1>7. Cleared'
  BY <1>1, <1>4 DEF Cleared, Validating, Passed
<1>8. Executing'
  BY DEF Executing, vars
<1> QED
  BY <1>2, <1>3, <1>5, <1>6, <1>7, <1>8

(* Verifying a stream keeps the invariant: what is taken for the session's  *)
(* principal is what the host issued, and no other answer can follow.       *)
LEMMA SessionKeeps ==
  ASSUME SInv, NEW s \in Sessions, Verify(s) \/ VerifyAnswered(s) \/ VerifyTimesOut(s)
  PROVE  SInv'
<1> USE DEF SInv
<1>0. session[s] = [at |-> session[s].at, principal |-> session[s].principal]
  BY DEF Shapes
<1>1. CASE Verify(s)
  <2> DEFINE x == [session[s] EXCEPT !.at = "verifying"]
  <2>1. /\ session' = [session EXCEPT ![s] = x] /\ session[s].at = "idle"
        /\ UNCHANGED <<vars, card, replies, deliveries, granted, issued>>
        /\ calls' = calls \cup {Request(s, "verify", "verify_session", s, None)}
    BY <1>1 DEF Verify
  <2>2. x = [at |-> x.at, principal |-> x.principal] /\ x.at = "verifying"
    BY <1>0
  <2>3. \A r \in replies : r.of # s
    BY <2>1, SessionAssumption DEF Answering, Expected
  <2> HIDE DEF x
  <2> QED
    BY <2>1, <2>2, <2>3, SessionMoves
<1>2. CASE VerifyAnswered(s)
  <2>1. PICK r \in replies : r.of = s /\ Verified(s, r) /\ replies' = replies \ {r}
    BY <1>2 DEF VerifyAnswered
  <2>2. /\ session[s].at = "verifying"
        /\ UNCHANGED <<vars, card, calls, deliveries, granted, issued>>
    BY <1>2 DEF VerifyAnswered
  <2>3. \A q \in replies' : q.of # s
    BY <2>1 DEF Answering
  <2>4. \A c \in calls : c.of # s
    <3> SUFFICES ASSUME NEW c \in calls, c.of = s
                 PROVE  FALSE
      OBVIOUS
    <3>1. VerifyCall(c)
      BY SessionAssumption DEF Called, SeamCall
    <3>2. Calling(c)
      BY <2>2, <3>1 DEF VerifyCall, Request, Calling
    <3> QED
      BY <2>1, <3>2 DEF Answering
  <2>5. Issues(r) => issued[s] = r.body
    BY <2>1, SessionAssumption DEF Answering, Expected
  <2> DEFINE opened == [at |-> "open", principal |-> session_principal(s, r.body)]
             refused == [at |-> r.status, principal |-> None]
             failed == [at |-> "503", principal |-> None]
  <2>6. \/ Issues(r) /\ session' = [session EXCEPT ![s] = opened]
        \/ r.status \in {"401", "403"} /\ session' = [session EXCEPT ![s] = refused]
        \/ session' = [session EXCEPT ![s] = failed]
    BY <2>1 DEF Verified, Issues
  <2>7. CASE Issues(r) /\ session' = [session EXCEPT ![s] = opened]
    <3>1. /\ opened = [at |-> opened.at, principal |-> opened.principal] /\ opened.at = "open"
          /\ opened.principal = session_principal(s, issued[s]) /\ issued[s].kind = "principal"
      BY <2>5, <2>7 DEF Issues
    <3> HIDE DEF opened
    <3> QED
      BY <2>1, <2>2, <2>3, <2>4, <2>7, <3>1, SessionMoves
  <2>8. CASE r.status \in {"401", "403"} /\ session' = [session EXCEPT ![s] = refused]
    <3>1. refused = [at |-> refused.at, principal |-> refused.principal] /\ refused.at # "open"
      BY <2>8
    <3> HIDE DEF refused
    <3> QED
      BY <2>1, <2>2, <2>3, <2>4, <2>8, <3>1, SessionMoves
  <2>9. CASE session' = [session EXCEPT ![s] = failed]
    <3>1. failed = [at |-> failed.at, principal |-> failed.principal] /\ failed.at # "open"
      OBVIOUS
    <3> HIDE DEF failed
    <3> QED
      BY <2>1, <2>2, <2>3, <2>4, <2>9, <3>1, SessionMoves
  <2> QED
    BY <2>6, <2>7, <2>8, <2>9
<1>3. CASE VerifyTimesOut(s)
  <2> DEFINE x == [session[s] EXCEPT !.at = "503"]
  <2>1. /\ session' = [session EXCEPT ![s] = x] /\ session[s].at = "verifying"
        /\ UNCHANGED <<vars, card, calls, deliveries, granted, issued>>
        /\ replies' = {r \in replies : r.of # s}
    BY <1>3 DEF VerifyTimesOut
  <2>2. x = [at |-> x.at, principal |-> x.principal] /\ x.at = "503"
    BY <1>0
  <2> HIDE DEF x
  <2> QED
    BY <2>1, <2>2, SessionMoves
<1> QED
  BY <1>1, <1>2, <1>3

(* A card moves on: to a seam it asks for the first time, or out of its     *)
(* validation.                                                              *)
LEMMA CardMoves ==
  ASSUME SInv, NEW e \in Executions, NEW p, NEW n,
         card' = [card EXCEPT ![e] = [phase |-> p, step |-> n]],
         card[e].phase # "confirmed", p # "none", session[SessionOf[e]].at = "open",
         UNCHANGED <<vars, session, deliveries, granted, issued>>,
         \/ /\ p \in {"propose", "confirm"} /\ n \in DOMAIN Seams
            /\ calls' = calls \cup {seam_request(e, p, Seams[n], session[SessionOf[e]].principal)}
         \/ p \notin {"propose", "confirm"} /\ calls' = calls,
         \A i \in DOMAIN Seams : \A phase : Asked(e, phase, i) => Asked(e, phase, i)',
         \A i \in DOMAIN Seams, phase \in {"propose", "confirm"} :
           Passed(e, phase, i)' => <<e, phase, Seams[i]>> \in granted,
         replies' \subseteq replies, \A r \in replies' : r.of # e
  PROVE  SInv'
<1> USE DEF SInv
<1>1. /\ card'[e].phase = p /\ card'[e].step = n
      /\ \A f \in Executions : f # e => card'[f] = card[f]
  BY DEF Shapes
<1>2. Shapes' /\ Streams' /\ Echoed'
  BY DEF Shapes, Streams, Echoed, vars
<1>3. Called'
  <2> SUFFICES ASSUME NEW c \in calls'
               PROVE  VerifyCall(c)' \/ SeamCall(c)'
    BY DEF Called
  <2>1. CASE c \in calls /\ VerifyCall(c)
    BY <2>1 DEF VerifyCall
  <2>2. CASE c \in calls /\ SeamCall(c)
    <3>1. \A i \in DOMAIN Seams : \A phase : Asked(c.of, phase, i) => Asked(c.of, phase, i)'
      BY <1>1, <2>2 DEF Asked, SeamCall
    <3> QED
      BY <2>2, <3>1 DEF SeamCall
  <2>3. CASE /\ p \in {"propose", "confirm"} /\ n \in DOMAIN Seams
             /\ c = seam_request(e, p, Seams[n], session[SessionOf[e]].principal)
    <3>1. c.of = e /\ c.phase = p /\ c.endpoint = Seams[n]
      BY <2>3 DEF seam_request, Request
    <3>2. Asked(e, p, n)'
      BY <1>1, <2>3, SeamCount DEF Asked
    <3> QED
      BY <2>3, <3>1, <3>2 DEF SeamCall
  <2> QED
    BY <2>1, <2>2, <2>3 DEF Called
<1>4. Answering'
  <2>1. \A r \in replies' : Expected(r)'
    BY <1>1 DEF Answering, Expected, Validating
  <2>2. ASSUME NEW r \in replies', NEW c \in calls', r.of = c.of
        PROVE  ~Calling(c)'
    <3>1. c \in calls /\ c.of # e
      BY <2>2 DEF seam_request, Request
    <3>2. ~Calling(c) /\ (VerifyCall(c) \/ SeamCall(c))
      BY <2>2, <3>1 DEF Answering, Called
    <3>3. CASE VerifyCall(c)
      BY <3>2, <3>3 DEF VerifyCall, Request, Calling
    <3>4. CASE SeamCall(c)
      BY <1>1, <3>1, <3>2, <3>4 DEF SeamCall, Calling
    <3> QED
      BY <3>2, <3>3, <3>4
  <2> QED
    BY <2>1, <2>2 DEF Answering
<1>5. Cleared'
  <2> SUFFICES ASSUME NEW f \in Executions
               PROVE  /\ card'[f].phase # "none" => session[SessionOf[f]].at = "open"
                      /\ Validating(f)' => card'[f].step \in DOMAIN Seams
                      /\ \A i \in DOMAIN Seams, phase \in {"propose", "confirm"} :
                           Passed(f, phase, i)' => <<f, phase, Seams[i]>> \in granted
    BY DEF Cleared
  <2>1. CASE f = e
    BY <1>1, <2>1 DEF Validating
  <2>2. CASE f # e
    BY <1>1, <2>2 DEF Cleared, Validating, Passed
  <2> QED
    BY <2>1, <2>2
<1>6. Executing'
  <2>1. /\ client' = client /\ executions' = executions /\ network' = network
    BY DEF vars
  <2>2. \A f \in Executions : card[f].phase = "confirmed" => card'[f].phase = "confirmed"
    BY <1>1
  <2> QED
    BY <2>1, <2>2 DEF Executing
<1> QED
  BY <1>2, <1>3, <1>4, <1>5, <1>6

(* A card of an open session, and no answer to it, while it is not being    *)
(* validated.                                                               *)
LEMMA CardAtRest ==
  ASSUME SInv, NEW e \in Executions, ~Validating(e)
  PROVE  \A r \in replies : r.of # e
BY SessionAssumption DEF SInv, Answering, Expected

(* Every step of a card keeps the invariant.                                *)
LEMMA CardKeeps ==
  ASSUME SInv, NEW e \in Executions,
         Propose(e) \/ Confirm(e) \/ SeamAnswered(e) \/ SeamTimesOut(e)
  PROVE  SInv'
<1> USE DEF SInv
<1>0. e \in DOMAIN card
  BY DEF Shapes
<1>1. CASE Propose(e)
  <2> DEFINE n == 1
  <2>1. /\ card' = [card EXCEPT ![e] = [phase |-> "propose", step |-> n]]
        /\ calls' = calls \cup {seam_request(e, "propose", Seams[n], session[SessionOf[e]].principal)}
        /\ card[e].phase = "none" /\ session[SessionOf[e]].at = "open"
        /\ UNCHANGED <<vars, session, replies, deliveries, granted, issued>>
    BY <1>1 DEF Propose, CallSeam
  <2>2. /\ \A i \in DOMAIN Seams : \A phase : Asked(e, phase, i) => Asked(e, phase, i)'
        /\ \A i \in DOMAIN Seams, phase \in {"propose", "confirm"} : ~Passed(e, phase, i)'
    BY <1>0, <2>1, SeamCount DEF Asked, Passed
  <2>3. \A r \in replies : r.of # e
    BY <2>1, CardAtRest DEF Validating
  <2>4. n \in DOMAIN Seams
    BY SeamCount
  <2>5. replies' \subseteq replies /\ \A r \in replies' : r.of # e
    BY <2>1, <2>3
  <2>6. card[e].phase # "confirmed"
    BY <2>1
  <2> DEFINE p == "propose"
  <2>7. p \in {"propose", "confirm"} /\ p # "none"
    OBVIOUS
  <2>8. /\ card' = [card EXCEPT ![e] = [phase |-> p, step |-> n]]
        /\ calls' = calls \cup {seam_request(e, p, Seams[n], session[SessionOf[e]].principal)}
        /\ session[SessionOf[e]].at = "open" /\ UNCHANGED <<vars, session, deliveries, granted, issued>>
    BY <2>1
  <2>9. \A i \in DOMAIN Seams, phase \in {"propose", "confirm"} :
          Passed(e, phase, i)' => <<e, phase, Seams[i]>> \in granted
    BY <2>2
  <2> HIDE DEF n, p, SInv
  <2> QED
    BY <2>2, <2>4, <2>5, <2>6, <2>7, <2>8, <2>9, CardMoves
<1>2. CASE Confirm(e)
  <2> DEFINE n == 1
  <2>1. /\ card' = [card EXCEPT ![e] = [phase |-> "confirm", step |-> n]]
        /\ calls' = calls \cup {seam_request(e, "confirm", Seams[n], session[SessionOf[e]].principal)}
        /\ card[e].phase = "pending"
        /\ UNCHANGED <<vars, session, replies, deliveries, granted, issued>>
    BY <1>2 DEF Confirm, CallSeam
  <2>2. \A i \in DOMAIN Seams : \A phase : Asked(e, phase, i) => Asked(e, phase, i)'
    BY <1>0, <2>1 DEF Asked
  <2>3. \A i \in DOMAIN Seams, phase \in {"propose", "confirm"} :
          Passed(e, phase, i)' => <<e, phase, Seams[i]>> \in granted
    <3>1. card'[e].phase = "confirm" /\ card'[e].step = 1
      BY <1>0, <2>1
    <3>2. \A i \in DOMAIN Seams : \A phase : Passed(e, phase, i)' => phase = "propose"
      BY <3>1, SeamCount DEF Passed
    <3>3. \A i \in DOMAIN Seams : Passed(e, "propose", i)
      BY <2>1 DEF Passed
    <3> QED
      BY <3>2, <3>3 DEF Cleared
  <2>4. \A r \in replies : r.of # e
    BY <2>1, CardAtRest DEF Validating
  <2>5. session[SessionOf[e]].at = "open"
    BY <2>1 DEF Cleared
  <2>6. n \in DOMAIN Seams
    BY SeamCount
  <2> HIDE DEF n
  <2> QED
    BY <2>1, <2>2, <2>3, <2>4, <2>5, <2>6, CardMoves
<1>3. ASSUME Validating(e), SeamFails(e), replies' \subseteq replies, \A r \in replies' : r.of # e,
             UNCHANGED <<vars, session, deliveries, granted, issued>>
      PROVE  SInv'
  <2> DEFINE p == IF card[e].phase = "propose" THEN "invalid" ELSE "expired"
  <2>1. /\ card' = [card EXCEPT ![e] = [phase |-> p, step |-> 0]] /\ calls' = calls
        /\ p = "invalid" <=> card[e].phase = "propose"
        /\ p \in {"invalid", "expired"}
        /\ card[e].phase \in {"propose", "confirm"}
    BY <1>3 DEF SeamFails, Validating
  <2> HIDE DEF p
  <2>2. \A i \in DOMAIN Seams : \A phase : Asked(e, phase, i) => Asked(e, phase, i)'
    BY <1>0, <2>1 DEF Asked
  <2>3. \A i \in DOMAIN Seams, phase \in {"propose", "confirm"} :
          Passed(e, phase, i)' => <<e, phase, Seams[i]>> \in granted
    BY <1>0, <2>1 DEF Passed, Cleared
  <2>4. session[SessionOf[e]].at = "open"
    BY <2>1 DEF Cleared
  <2> QED
    BY <1>3, <2>1, <2>2, <2>3, <2>4, CardMoves
<1>4. ASSUME Validating(e), SeamPasses(e), replies' \subseteq replies, \A r \in replies' : r.of # e,
             UNCHANGED <<vars, session, deliveries, granted, issued>>,
             <<e, card[e].phase, Seams[card[e].step]>> \in granted
      PROVE  SInv'
  <2>1. card[e].phase \in {"propose", "confirm"} /\ card[e].step \in 1 .. 3
        /\ session[SessionOf[e]].at = "open"
    BY <1>4, SeamCount DEF Validating, Cleared
  <2>2. CASE card[e].step < 3
    <3> DEFINE p == card[e].phase
               n == card[e].step + 1
    <3>1. /\ card' = [card EXCEPT ![e] = [phase |-> p, step |-> n]]
          /\ calls' = calls \cup {seam_request(e, p, Seams[n], session[SessionOf[e]].principal)}
      BY <1>4, <2>2, SeamCount DEF SeamPasses, CallSeam
    <3>2. card'[e].phase = card[e].phase /\ card'[e].step = card[e].step + 1
      BY <1>0, <3>1
    <3>3. ASSUME NEW i \in DOMAIN Seams, NEW phase, Asked(e, phase, i)
          PROVE  Asked(e, phase, i)'
      BY <2>1, <3>2, <3>3, SeamCount DEF Asked
    <3>4. \A i \in DOMAIN Seams, phase \in {"propose", "confirm"} :
            Passed(e, phase, i)' => <<e, phase, Seams[i]>> \in granted
      <4>1. ASSUME NEW i \in DOMAIN Seams, NEW phase, Passed(e, phase, i)'
            PROVE  Passed(e, phase, i) \/ (phase = card[e].phase /\ i = card[e].step)
        BY <2>1, <3>2, <4>1, SeamCount DEF Passed
      <4> QED
        BY <1>4, <4>1 DEF Cleared
    <3>5. p \in {"propose", "confirm"} /\ n \in DOMAIN Seams /\ p # "none" /\ p # "confirmed"
      BY <2>1, <2>2, SeamCount
    <3> HIDE DEF n
    <3> QED
      BY <1>4, <2>1, <3>1, <3>3, <3>4, <3>5, CardMoves
  <2>3. CASE ~(card[e].step < 3)
    <3> DEFINE p == IF card[e].phase = "propose" THEN "pending" ELSE "confirmed"
    <3>1. /\ card' = [card EXCEPT ![e] = [phase |-> p, step |-> 0]] /\ calls' = calls
          /\ p = "pending" <=> card[e].phase = "propose"
          /\ p \in {"pending", "confirmed"} /\ card[e].step = 3
      BY <1>4, <2>1, <2>3, SeamCount DEF SeamPasses
    <3> HIDE DEF p
    <3>2. \A i \in DOMAIN Seams : \A phase : Asked(e, phase, i) => Asked(e, phase, i)'
      BY <1>0, <2>1, <3>1 DEF Asked
    <3>3. \A i \in DOMAIN Seams, phase \in {"propose", "confirm"} :
            Passed(e, phase, i)' => <<e, phase, Seams[i]>> \in granted
      <4>1. card'[e].phase = p /\ card'[e].step = 0
        BY <1>0, <3>1
      <4>2. ASSUME NEW i \in DOMAIN Seams, NEW phase \in {"propose", "confirm"}, Passed(e, phase, i)'
            PROVE  Passed(e, phase, i) \/ (phase = card[e].phase /\ i = card[e].step)
        BY <2>1, <3>1, <4>1, <4>2, SeamCount DEF Passed
      <4> QED
        BY <1>4, <4>2 DEF Cleared
    <3> QED
      BY <1>4, <2>1, <3>1, <3>2, <3>3, CardMoves
  <2> QED
    BY <2>2, <2>3
<1>5. CASE SeamAnswered(e)
  <2>1. PICK r \in replies :
          /\ r.of = e /\ replies' = replies \ {r}
          /\ IF SeamOutcome(Seams[card[e].step], deliver_json(Seams[card[e].step], r))
                   \in {"Allow", "Preview", "Slots"}
             THEN SeamPasses(e) ELSE SeamFails(e)
    BY <1>5 DEF SeamAnswered
  <2>2. Validating(e) /\ UNCHANGED <<vars, session, deliveries, granted, issued>>
    BY <1>5 DEF SeamAnswered
  <2>3. \A q \in replies' : q.of # e
    BY <2>1 DEF Answering
  <2>4. Yes(r) => <<e, card[e].phase, Seams[card[e].step]>> \in granted
    BY <2>1, SessionAssumption DEF Answering, Expected
  <2>5. ASSUME NEW i \in DOMAIN Seams,
               SeamOutcome(Seams[i], deliver_json(Seams[i], r)) \in {"Allow", "Preview", "Slots"}
        PROVE  Yes(r)
    <3> DEFINE got == deliver_json(Seams[i], r)
    <3>1. Seams[i] \in {"authorize", "dry_run", "build_slots"}
      BY SeamCount DEF Seams
    <3>2. got \in {"allow", "preview", "slots"}
      BY <2>5, <3>1 DEF SeamOutcome, WebhookAuthz, WebhookDryRun, WebhookSlots
    <3>3. got = r.body.kind /\ r.status = "200"
      <4>1. CASE r.status # "200"
        <5>1. got = "Status"
          BY <4>1 DEF deliver_json
        <5> HIDE DEF got
        <5> QED
          BY <3>2, <5>1
      <4>2. CASE r.status = "200"
        <5>1. got \in {r.body.kind, "MalformedBody"}
          BY <4>2 DEF deliver_json
        <5> HIDE DEF got
        <5> QED
          BY <3>2, <4>2, <5>1
      <4> QED
        BY <4>1, <4>2
    <3> QED
      BY <3>2, <3>3 DEF Yes
  <2>6. card[e].step \in DOMAIN Seams
    BY <2>2 DEF Cleared
  <2> QED
    BY <1>3, <1>4, <2>1, <2>2, <2>3, <2>4, <2>5, <2>6
<1>6. CASE SeamTimesOut(e)
  BY <1>3, <1>6 DEF SeamTimesOut
<1> QED
  BY <1>1, <1>2, <1>5, <1>6
(* The endpoint answers a call once, whatever it answers: only the call     *)
(* the session or card waits for gets through, and a session's principal    *)
(* is not issued again once it opened.                                      *)
LEMMA CallTaken ==
  ASSUME SInv, NEW c \in calls, NEW reply, calls' = calls \ {c},
         UNCHANGED <<vars, session, card>>,
         UNCHANGED <<replies, granted, issued>> \/ Replies(c, reply),
         \/ deliveries' = deliveries
         \/ deliveries' = deliveries \cup {Delivery(c.endpoint, c.session_id, c.principal)}
  PROVE  SInv'
<1> USE DEF SInv
<1> DEFINE new == [of |-> c.of, status |-> reply.status, body |-> reply.body]
<1>1. VerifyCall(c) \/ SeamCall(c)
  BY DEF Called
<1>2. /\ new.of = c.of /\ (Yes(new) <=> Yes(reply)) /\ (Issues(new) <=> Issues(reply))
      /\ new.body = reply.body
  BY DEF Yes, Issues
<1>3. \/ UNCHANGED <<replies, granted, issued>>
      \/ /\ replies' = IF Calling(c) THEN replies \cup {new} ELSE replies
         /\ granted' = IF Yes(reply) THEN granted \cup {<<c.of, c.phase, c.endpoint>>} ELSE granted
         /\ issued' = IF Issues(reply) /\ c.phase = "verify"
                      THEN [issued EXCEPT ![c.of] = reply.body] ELSE issued
  BY DEF Replies, Yes, Issues
<1> HIDE DEF new
<1>4. granted \subseteq granted'
  BY <1>3
<1>5. DOMAIN issued' = Sessions /\ \A s \in Sessions : session[s].at = "open" => issued'[s] = issued[s]
  <2>1. c.phase = "verify" => c.of \in Sessions /\ session[c.of].at # "open"
    BY <1>1 DEF VerifyCall, SeamCall, Asked
  <2> QED
    BY <1>3, <2>1 DEF Shapes
<1>6. Shapes' /\ Streams'
  BY <1>5 DEF Shapes, Streams, vars
<1>7. Called'
  BY DEF Called, VerifyCall, SeamCall, Asked
<1>8. Cleared' /\ Executing'
  BY <1>4 DEF Cleared, Validating, Passed, Executing, vars
<1>9. Echoed'
  <2> SUFFICES ASSUME NEW d \in deliveries', d.endpoint # "verify_session"
               PROVE  /\ d.session_id \in Sessions /\ session[d.session_id].at = "open"
                      /\ d.principal = issued'[d.session_id]
    BY DEF Echoed
  <2>1. CASE d \in deliveries
    BY <1>5, <2>1 DEF Echoed
  <2>2. CASE d = Delivery(c.endpoint, c.session_id, c.principal)
    <3>1. d.endpoint = c.endpoint /\ d.session_id = c.session_id /\ d.principal = c.principal
      BY <2>2 DEF Delivery
    <3>2. SeamCall(c)
      BY <1>1, <3>1 DEF VerifyCall, Request
    <3> DEFINE s == SessionOf[c.of]
    <3>3. s \in Sessions /\ session[s].at = "open"
      BY <3>2, SessionAssumption DEF SeamCall, Asked, Cleared
    <3>4. session[s].principal = session_principal(s, issued[s])
      BY <3>3 DEF Streams
    <3>5. c.session_id = s /\ c.principal = issued[s]
      BY <3>2, <3>4 DEF SeamCall, seam_request, Request, session_principal
    <3> QED
      BY <1>5, <3>1, <3>3, <3>5
  <2> QED
    BY <2>1, <2>2
<1>10. Answering'
  <2>1. \A r \in replies : (r.of \in Executions => Expected(r)') /\ (Calling(c) => r.of # c.of)
    BY <1>4, SessionAssumption DEF Answering, Expected, Validating
  <2>2. \A r \in replies : Expected(r)'
    <3> SUFFICES ASSUME NEW r \in replies, r.of \in Sessions
                 PROVE  Expected(r)'
      BY <2>1 DEF Answering, Expected
    <3>1. Expected(r) /\ session[r.of].at = "verifying"
      BY SessionAssumption DEF Answering, Expected
    <3>2. r.of = c.of => c.phase # "verify"
      BY <2>1, <3>1 DEF Calling
    <3>3. issued'[r.of] = issued[r.of]
      BY <1>3, <3>2 DEF Shapes
    <3> QED
      BY <3>1, <3>3, SessionAssumption DEF Expected
  <2>3. ASSUME NEW b \in calls, b.of = c.of, Calling(b), Calling(c)
        PROVE  b = c
    <3>1. VerifyCall(b) \/ SeamCall(b)
      BY DEF Called
    <3>2. CASE c.of \in Sessions
      BY <1>1, <2>3, <3>1, <3>2, SessionAssumption DEF VerifyCall, SeamCall
    <3>3. CASE c.of \in Executions
      <4>1. SeamCall(b) /\ SeamCall(c)
        BY <1>1, <2>3, <3>1, <3>3, SessionAssumption DEF VerifyCall
      <4>2. b.phase = c.phase /\ b.endpoint = c.endpoint
        BY <2>3, <4>1 DEF SeamCall, Asked, Calling
      <4> QED
        BY <2>3, <4>1, <4>2 DEF SeamCall
    <3> QED
      BY <1>1, <3>2, <3>3 DEF VerifyCall, SeamCall
  <2>4. \A b \in calls' : Calling(b)' <=> Calling(b)
    BY DEF Calling
  <2>5. CASE replies' = replies
    BY <2>2, <2>4, <2>5 DEF Answering
  <2>6. CASE /\ Calling(c) /\ replies' = replies \cup {new}
             /\ granted' = IF Yes(reply) THEN granted \cup {<<c.of, c.phase, c.endpoint>>} ELSE granted
             /\ issued' = IF Issues(reply) /\ c.phase = "verify"
                          THEN [issued EXCEPT ![c.of] = reply.body] ELSE issued
    <3>1. Expected(new)'
      <4>1. CASE VerifyCall(c)
        <5>1. c.phase = "verify" /\ c.of \in Sessions /\ session[c.of].at = "verifying"
          BY <2>6, <4>1 DEF VerifyCall, Request, Calling
        <5>2. Issues(new) => issued'[c.of] = new.body
          BY <1>2, <2>6, <5>1 DEF Shapes
        <5> QED
          BY <1>2, <5>1, <5>2 DEF Expected
      <4>2. CASE SeamCall(c)
        <5>1. /\ c.of \in Executions /\ c.phase \in {"propose", "confirm"}
              /\ card[c.of].phase = c.phase /\ Seams[card[c.of].step] = c.endpoint
          BY <2>6, <4>2 DEF SeamCall, Asked, Calling
        <5>2. Validating(c.of)' /\ (Yes(new) => <<c.of, card'[c.of].phase, Seams[card'[c.of].step]>> \in granted')
          BY <1>2, <2>6, <5>1 DEF Validating
        <5> QED
          BY <1>2, <5>1, <5>2 DEF Expected
      <4> QED
        BY <1>1, <4>1, <4>2
    <3>2. \A q, r \in replies' : q.of = r.of => q = r
      BY <1>2, <2>1, <2>6 DEF Answering
    <3>3. \A r \in replies', b \in calls' : r.of = b.of => ~Calling(b)'
      BY <1>2, <2>3, <2>4, <2>6 DEF Answering
    <3> QED
      BY <2>2, <2>6, <3>1, <3>2, <3>3 DEF Answering
  <2> QED
    BY <1>3, <2>5, <2>6
<1> QED
  BY <1>6, <1>7, <1>8, <1>9, <1>10

(* The host's seams keep the invariant.                                     *)
LEMMA SeamHostKeeps ==
  ASSUME SInv, NEW c \in calls, HostRefusesHeaders(c) \/ HostTakes(c)
  PROVE  SInv'
<1>1. CASE HostRefusesHeaders(c)
  BY <1>1, CallTaken DEF HostRefusesHeaders
<1>2. CASE HostTakes(c)
  <2>1. /\ calls' = calls \ {c} /\ UNCHANGED <<vars, session, card>>
        /\ deliveries' = deliveries \cup {Delivery(c.endpoint, c.session_id, c.principal)}
        /\ \/ UNCHANGED <<replies, granted, issued>>
           \/ Replies(c, Scripted(c.endpoint))
           \/ Replies(c, Override(c.endpoint))
    BY <1>2 DEF HostTakes
  <2> QED
    BY <2>1, CallTaken
<1> QED
  BY <1>1, <1>2

(* Execution, behind the gate of the confirmed card.                        *)
LEMMA ExecutionKeeps ==
  ASSUME SInv,
         \/ \E e \in Executions : ExecuteConfirmed(e) \/ ClientStepOf(e)
         \/ \E d \in network : HostTakesExecute(d)
         \/ \E x \in section : HostAnswers(x) /\ UNCHANGED seamVars
  PROVE  SInv'
<1> USE DEF SInv
<1>1. ASSUME DOMAIN client' = Executions, executions' \in [Executions -> Nat], Executing',
             UNCHANGED <<session, card, calls, replies, granted, issued>>, Echoed'
      PROVE  SInv'
  <2>1. Shapes' /\ Streams'
    BY <1>1 DEF Shapes, Streams
  <2>2. Called'
    BY <1>1 DEF Called, VerifyCall, SeamCall, Asked
  <2>3. Answering'
    BY <1>1 DEF Answering, Expected, Validating, Calling
  <2>4. Cleared'
    BY <1>1 DEF Cleared, Validating, Passed
  <2> QED
    BY <1>1, <2>1, <2>2, <2>3, <2>4
<1>2. ASSUME NEW e \in Executions, card[e].phase = "confirmed", executions' = executions,
             \A f \in Executions : f # e => client'[f] = client[f],
             DOMAIN client' = Executions, UNCHANGED seamVars,
             \/ network' = network
             \/ \E n : network' = network \cup {<<e, n>>}
      PROVE  SInv'
  <2>1. Executing'
    BY <1>2 DEF Executing, seamVars
  <2>2. Echoed'
    BY <1>2 DEF Echoed, seamVars
  <2> QED
    BY <1>1, <1>2, <2>1, <2>2 DEF Shapes, seamVars
<1>3. ASSUME NEW e \in Executions, ExecuteConfirmed(e)
      PROVE  SInv'
  BY <1>2, <1>3 DEF ExecuteConfirmed, Execute, Deliver, Shapes
<1>4. ASSUME NEW e \in Executions, ClientStepOf(e)
      PROVE  SInv'
  <2>1. client[e].at # "idle"
    BY <1>4 DEF ClientStepOf, ClientStep, Answered, Awaited, TimesOut, Retry
  <2>2. card[e].phase = "confirmed"
    BY <2>1 DEF Executing
  <2>3. UNCHANGED seamVars /\ executions' = executions
    BY <1>4 DEF ClientStepOf, ClientStep, Answered, TimesOut, Retry
  <2>4. /\ \A f \in Executions : f # e => client'[f] = client[f]
        /\ DOMAIN client' = Executions
    BY <1>4 DEF ClientStepOf, ClientStep, Answered, TimesOut, Retry, Deliver, Unreachable, Finish, Shapes
  <2>5. network' = network \/ \E n : network' = network \cup {<<e, n>>}
    BY <1>4 DEF ClientStepOf, ClientStep, Answered, TimesOut, Retry, Deliver
  <2> QED
    BY <1>2, <2>2, <2>3, <2>4, <2>5
<1>5. ASSUME NEW d \in network, HostTakesExecute(d)
      PROVE  SInv'
  <2> DEFINE e == d[1]
             s == SessionOf[e]
  <2>1. e \in Executions /\ card[e].phase = "confirmed"
    BY DEF Executing
  <2>2. s \in Sessions /\ session[s].at = "open"
    BY <2>1, SessionAssumption DEF Cleared
  <2>3. session[s].principal = session_principal(s, issued[s])
    BY <2>2 DEF Streams
  <2>4. /\ UNCHANGED <<session, card, calls, replies, granted, issued, client>>
        /\ network' \subseteq network
        /\ executions' = executions \/ executions' = [executions EXCEPT ![e] = @ + 1]
    BY <1>5 DEF HostTakesExecute, HostRefuses, HostReplays, HostPerforms
  <2>5. deliveries' = deliveries \cup {Delivery("execute", s, issued[s])}
    BY <1>5, <2>3 DEF HostTakesExecute, seam_request, Request, session_principal
  <2> HIDE DEF e, s
  <2>6. Executing' /\ executions' \in [Executions -> Nat]
    BY <2>1, <2>4 DEF Executing, Shapes
  <2>7. Echoed'
    BY <2>2, <2>4, <2>5 DEF Echoed, Delivery
  <2> QED
    BY <1>1, <2>4, <2>6, <2>7 DEF Shapes
<1>6. ASSUME NEW x \in section, HostAnswers(x), UNCHANGED seamVars
      PROVE  SInv'
  <2>1. UNCHANGED <<client, network, executions>>
    BY <1>6 DEF HostAnswers
  <2>2. Executing' /\ Echoed'
    BY <1>6, <2>1 DEF Executing, Echoed, seamVars
  <2> QED
    BY <1>1, <1>6, <2>1, <2>2 DEF Shapes, seamVars
<1> QED
  BY <1>3, <1>4, <1>5, <1>6
(* Every step of the service and its host keeps the invariant.              *)
LEMMA SInvStep ==
  ASSUME SInv, [SessionNext]_allVars
  PROVE  SInv'
<1>1. CASE UNCHANGED allVars
  <2> USE <1>1 DEF allVars, vars, seamVars, SInv
  <2>1. Shapes' /\ Streams' /\ Executing' /\ Echoed'
    BY DEF Shapes, Streams, Executing, Echoed
  <2>2. Called'
    BY DEF Called, VerifyCall, SeamCall, Asked
  <2>3. Answering'
    BY DEF Answering, Expected, Validating, Calling
  <2>4. Cleared'
    BY DEF Cleared, Validating, Passed
  <2> QED
    BY <2>1, <2>2, <2>3, <2>4
<1> QED
  BY <1>1, SessionKeeps, CardKeeps, SeamHostKeeps, ExecutionKeeps DEF SessionNext

(* The invariant holds throughout.                                          *)
LEMMA SInvariant == SessionSpec => []SInv
<1>1. SInv /\ [SessionNext]_allVars => SInv'
  BY SInvStep
<1> QED
  BY <1>1, SInvInit, PTL DEF SessionSpec

(* Every failure of a seam denies, whatever the host answers, also late or  *)
(* to another call: a session opens, a card is shown and a confirmed one    *)
(* executes only after the host said yes to exactly that.                   *)
THEOREM FailClosed == SessionSpec => []SeamsFailClosed
<1>1. SInv => SeamsFailClosed
  BY DEF SInv, Streams, Cleared, Passed, Executing, SeamsFailClosed
<1> QED
  BY <1>1, SInvariant, PTL

(* The host sees on every call of a session the principal it issued it.     *)
THEOREM EchoesPrincipal == SessionSpec => []PrincipalEchoed
<1>1. SInv => PrincipalEchoed
  BY DEF SInv, Echoed, PrincipalEchoed
<1> QED
  BY <1>1, SInvariant, PTL

-----------------------------------------------------------------------------
(* The service's sessions execute as WebhookExecute does.                   *)
LEMMA SessionExecutes == SessionSpec => Spec
<1>1. SessionInit => Init
  BY DEF SessionInit
<1>2. [SessionNext]_allVars => [Next]_vars
  <2> SUFFICES ASSUME SessionNext
               PROVE  [Next]_vars
    BY DEF allVars
  <2>1. CASE \E s \in Sessions : Verify(s) \/ VerifyAnswered(s) \/ VerifyTimesOut(s)
    BY <2>1 DEF Verify, VerifyAnswered, VerifyTimesOut
  <2>2. CASE \E e \in Executions : Propose(e) \/ Confirm(e) \/ SeamAnswered(e) \/ SeamTimesOut(e)
    BY <2>2 DEF Propose, Confirm, SeamAnswered, SeamTimesOut
  <2>3. CASE \E c \in calls : HostRefusesHeaders(c) \/ HostTakes(c)
    BY <2>3 DEF HostRefusesHeaders, HostTakes
  <2>4. CASE \E e \in Executions : ExecuteConfirmed(e) \/ ClientStepOf(e)
    BY <2>4 DEF ExecuteConfirmed, ClientStepOf, Next
  <2>5. CASE \E d \in network : HostTakesExecute(d)
    BY <2>5 DEF HostTakesExecute, Next, Host
  <2>6. CASE \E x \in section : HostAnswers(x) /\ UNCHANGED seamVars
    BY <2>6 DEF Next, Host
  <2> QED
    BY <2>1, <2>2, <2>3, <2>4, <2>5, <2>6 DEF SessionNext
<1> QED
  BY <1>1, <1>2, PTL DEF SessionSpec, Spec

(* So a card of a session is performed at most once, is reported as it was  *)
(* decided, and the service as a whole keeps the handler's contract.        *)
THEOREM SessionsExecuteOnce ==
  ASSUME Threads = 1
  PROVE  SessionSpec => [](PerformedOnce /\ OutcomeIsTrue) /\ KeepsContract
BY SessionExecutes, ExecutedOnce, OutcomeHolds, KeepsTheContract, PTL
=============================================================================
