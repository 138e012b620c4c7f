----------------------- MODULE ServiceTelemetry_proofs -----------------------
(***************************************************************************)
(* What the instruments say is what the service did, for any number of     *)
(* streams, seams and attempts. Every count is a balance: a step of one    *)
(* task changes what that task has under way by as much as it changes the  *)
(* instruments, so the sums over all tasks keep theirs.                    *)
(***************************************************************************)
EXTENDS ServiceTelemetry, FiniteSetTheorems, FunctionTheorems, TLAPS

SeamNames == {Seams[i] : i \in DOMAIN Seams}

Deliveries ==
  [at : {"none", "sent", "body", "backoff"}, endpoint : Endpoints \union {"none"}, attempt : Nat,
   status : Statuses \union {"none"}]

Counters ==
  [proposals : [States -> Nat], deliveries : [Endpoints \X Outcomes -> Nat], delivery_duration : [Endpoints -> Nat],
   execute_retries : Nat, sessions_active : Int, session_duration : Nat,
   llm_requests : [{"ok", "error"} -> Nat], llm_duration : Nat]

Stages == {"none", "verifying", "upgrading", "open", "refused", "left", "ended"}
Calls == {"none", "calling", "streaming", "errored"}
Begun == [calls : Nat, executions : Nat, sent : [Endpoints -> Nat]]
Lost == [deliveries : [Endpoints -> Nat], waits : Nat, executions : Nat]

Typed ==
  /\ layer \in BOOLEAN
  /\ stream \in [Streams -> Stages]
  /\ delivery \in [Streams -> Deliveries]
  /\ llm \in [Streams -> Calls]
  /\ cards \in [Streams -> Nat]
  /\ instruments \in Counters
  /\ begun \in Begun
  /\ lost \in Lost

(* What a task can have under way at once.                                  *)
PlacedAs(at, sent, call) ==
  /\ call # "none" => at = "open"
  /\ sent.endpoint = "none" <=> sent = NoDelivery
  /\ sent.at = "none" <=> sent = NoDelivery
  /\ sent.endpoint = "verify_session" <=> at = "verifying"
  /\ sent.endpoint \in SeamNames \union {"execute"} => at = "open"
  /\ sent # NoDelivery => call \in {"none", "streaming"}
  /\ sent.endpoint = "execute" => call = "none" /\ sent.attempt >= 1 /\ sent.attempt <= Attempts
  /\ sent.at = "backoff" => sent.endpoint = "execute" /\ sent.attempt < Attempts

Placed(s) == PlacedAs(stream[s], delivery[s], llm[s])

(* The share of one task in each sum.                                       *)
Opened(s) == IF stream[s] = "open" THEN 1 ELSE 0
Ended(s) == IF stream[s] = "ended" THEN 1 ELSE 0
Calling(s) == IF llm[s] # "none" THEN 1 ELSE 0
Sent(s, e) == IF delivery[s].at = "sent" /\ delivery[s].endpoint = e THEN 1 ELSE 0
Waiting(s) == IF delivery[s].at = "backoff" THEN 1 ELSE 0
Running(s) == IF delivery[s].endpoint = "execute" THEN 1 ELSE 0
IsDeciding(s) == delivery[s].endpoint \in SeamNames \union {"execute"} /\ llm[s] = "none"
Deciding(s) == IF IsDeciding(s) THEN 1 ELSE 0
IsFound(s) == stream[s] \in {"upgrading", "open", "ended"}
Found(s) == IF IsFound(s) THEN 1 ELSE 0
IsAnswered(s) == delivery[s].endpoint = "verify_session" /\ delivery[s].at = "body" /\ delivery[s].status = "2xx"
Answered(s) == IF IsAnswered(s) THEN 1 ELSE 0

(* The retries a running execution may still take.                          *)
Spare(s) ==
  IF delivery[s].endpoint = "execute" THEN Attempts - delivery[s].attempt - Waiting(s) ELSE 0

(* A sum of naturals over the streams, as the size of a set.                *)
Units(f) == {p \in Streams \X Nat : 1 <= p[2] /\ p[2] <= f[p[1]]}
Spares == [s \in Streams |-> Spare(s)]
AllPlaced == \A x \in Streams : Placed(x)
AllSpared == \A x \in Streams : Spare(x) \in Nat

(* Sums that no property has, and that each of them is finite.              *)
Finite ==
  /\ IsFiniteSet({s \in Streams : stream[s] = "open"}) /\ IsFiniteSet({s \in Streams : stream[s] = "ended"})
  /\ IsFiniteSet({s \in Streams : llm[s] # "none"})
  /\ \A e \in Endpoints : IsFiniteSet({s \in Awaiting("sent") : delivery[s].endpoint = e})
  /\ IsFiniteSet(Awaiting("backoff")) /\ IsFiniteSet(Executing)
  /\ IsFiniteSet(Units(Spares)) /\ IsFiniteSet(Units(cards)) /\ IsFiniteSet({s \in Streams : IsDeciding(s)})
  /\ IsFiniteSet({s \in Streams : IsFound(s)}) /\ IsFiniteSet({s \in Streams : IsAnswered(s)})

Told(state) == instruments.proposals[state]
Decisions == Told("executed") + Told("failed") + Told("expired") + Told("rejected")
Requests == instruments.llm_requests["ok"] + instruments.llm_requests["error"]

(* The retries taken and those to spare are no more than executions allow;  *)
(* cards decided, being decided and still open are no more than those       *)
(* shown; sessions and those about to be are no more than verifications.    *)
Bounded ==
  layer =>
    /\ instruments.execute_retries + Cardinality(Units(Spares)) <= (Attempts - 1) * begun.executions
    /\ Decisions + Cardinality(Units(cards)) + Cardinality({s \in Streams : IsDeciding(s)}) <= Told("validated")
    /\ extractor = "verify_session" =>
         Cardinality({s \in Streams : IsFound(s)}) + Cardinality({s \in Streams : IsAnswered(s)})
           <= instruments.deliveries[<<"verify_session", "ok">>]

Exact ==
  /\ GaugeTellsSessions
  /\ CallsCounted
  /\ DeliveriesCounted
  /\ layer => begun.executions + instruments.execute_retries =
                begun.sent["execute"] + Cardinality(Awaiting("backoff")) + lost.waits
  /\ layer => Told("executed") + Told("failed") + Cardinality(Executing) + lost.executions = begun.executions

IInv ==
  /\ Typed
  /\ AllPlaced
  /\ Finite
  /\ Exact
  /\ Bounded

(* A step of the task of s: the other tasks stay as they are, and s's share *)
(* changes with the instruments.                                            *)
Alone(s) ==
  /\ layer' = layer /\ extractor' = extractor
  /\ \A x \in Streams : x # s =>
       stream'[x] = stream[x] /\ delivery'[x] = delivery[x] /\ llm'[x] = llm[x] /\ cards'[x] = cards[x]

Balanced(s) ==
  layer =>
    /\ instruments'.sessions_active - Opened(s)' = instruments.sessions_active - Opened(s)
    /\ instruments'.session_duration - Ended(s)' = instruments.session_duration - Ended(s)
    /\ Requests' + Calling(s)' - begun'.calls = Requests + Calling(s) - begun.calls
    /\ instruments'.llm_duration - Requests' = instruments.llm_duration - Requests
    /\ \A e \in Endpoints :
         /\ Counted(e)' + Sent(s, e)' + lost'.deliveries[e] - begun'.sent[e]
              = Counted(e) + Sent(s, e) + lost.deliveries[e] - begun.sent[e]
         /\ instruments'.delivery_duration[e] - Counted(e)' = instruments.delivery_duration[e] - Counted(e)
    /\ begun'.executions + instruments'.execute_retries - begun'.sent["execute"] - Waiting(s)' - lost'.waits
         = begun.executions + instruments.execute_retries - begun.sent["execute"] - Waiting(s) - lost.waits
    /\ Told("executed")' + Told("failed")' + Running(s)' + lost'.executions - begun'.executions
         = Told("executed") + Told("failed") + Running(s) + lost.executions - begun.executions
    /\ instruments'.execute_retries + Spare(s)' - (Attempts - 1) * begun'.executions
         <= instruments.execute_retries + Spare(s) - (Attempts - 1) * begun.executions
    /\ Decisions' + cards'[s] + Deciding(s)' - Told("validated")'
         <= Decisions + cards[s] + Deciding(s) - Told("validated")
    /\ extractor = "verify_session" =>
         Found(s)' + Answered(s)' - instruments'.deliveries[<<"verify_session", "ok">>]
           <= Found(s) + Answered(s) - instruments.deliveries[<<"verify_session", "ok">>]

-----------------------------------------------------------------------------
(* Counting.                                                                *)

(* A set that differs from another at most in s has its size, but for s.    *)
LEMMA CountMoves ==
  ASSUME NEW A, NEW B, NEW s, IsFiniteSet(A), \A x : x # s => (x \in A <=> x \in B)
  PROVE  /\ IsFiniteSet(B) /\ Cardinality(A) \in Nat /\ Cardinality(B) \in Nat
         /\ Cardinality(B) - (IF s \in B THEN 1 ELSE 0) = Cardinality(A) - (IF s \in A THEN 1 ELSE 0)
<1> DEFINE C == A \ {s}
<1>1. IsFiniteSet(C) /\ Cardinality(C) = IF s \in A THEN Cardinality(A) - 1 ELSE Cardinality(A)
  BY FS_RemoveElement
<1>2. Cardinality(A) \in Nat /\ Cardinality(C) \in Nat
  BY <1>1, FS_CardinalityType
<1>3. CASE s \in B
  <2>1. B = C \union {s} /\ s \notin C
    BY <1>3
  <2>2. IsFiniteSet(B) /\ Cardinality(B) = Cardinality(C) + 1
    BY <1>1, <2>1, FS_AddElement
  <2> QED
    BY <1>1, <1>2, <1>3, <2>2
<1>4. CASE s \notin B
  <2>1. B = C
    BY <1>4
  <2> QED
    BY <1>1, <1>2, <1>4, <2>1
<1> QED
  BY <1>3, <1>4

(* The units of one stream are as many as its number says.                  *)
LEMMA Column ==
  ASSUME NEW s, NEW n \in Nat
  PROVE  IsFiniteSet({s} \X (1 .. n)) /\ Cardinality({s} \X (1 .. n)) = n
<1> DEFINE f == [i \in 1 .. n |-> <<s, i>>]
<1>1. f \in Bijection(1 .. n, {s} \X (1 .. n))
  <2>1. f \in [1 .. n -> {s} \X (1 .. n)]
    OBVIOUS
  <2>2. \A a, b \in 1 .. n : f[a] = f[b] => a = b
    OBVIOUS
  <2>3. \A t \in {s} \X (1 .. n) : \E a \in 1 .. n : f[a] = t
    OBVIOUS
  <2> QED
    BY <2>1, <2>2, <2>3, Fun_IsBij
<1>2. ExistsBijection(1 .. n, {s} \X (1 .. n))
  BY <1>1 DEF ExistsBijection
<1>3. IsFiniteSet(1 .. n) /\ Cardinality(1 .. n) = n
  BY FS_Interval
<1> QED
  BY <1>2, <1>3, FS_Bijection

(* A sum in which one number changes, changes by as much.                   *)
LEMMA UnitsMove ==
  ASSUME NEW f \in [Streams -> Nat], NEW g \in [Streams -> Nat], NEW s \in Streams,
         IsFiniteSet(Units(f)), \A x \in Streams : x # s => g[x] = f[x]
  PROVE  /\ IsFiniteSet(Units(g)) /\ Cardinality(Units(f)) \in Nat /\ Cardinality(Units(g)) \in Nat
         /\ Cardinality(Units(g)) - g[s] = Cardinality(Units(f)) - f[s]
<1> DEFINE Rest == {p \in Units(f) : p[1] # s}
           Old == {s} \X (1 .. f[s])
           New == {s} \X (1 .. g[s])
<1>1. f[s] \in Nat /\ g[s] \in Nat
  OBVIOUS
<1>2. /\ IsFiniteSet(Old) /\ Cardinality(Old) = f[s]
      /\ IsFiniteSet(New) /\ Cardinality(New) = g[s]
  BY <1>1, Column
<1>3. IsFiniteSet(Rest)
  BY FS_Subset
<1>4. Units(f) = Rest \union Old /\ Rest \cap Old = {}
  BY <1>1 DEF Units
<1>5. Units(g) = Rest \union New /\ Rest \cap New = {}
  BY <1>1 DEF Units
<1>6. Cardinality(Rest) \in Nat
  BY <1>3, FS_CardinalityType
<1> HIDE DEF Rest, Old, New
<1>7. IsFiniteSet(Rest \union Old) /\ Cardinality(Rest \union Old) = Cardinality(Rest) + Cardinality(Old) - Cardinality(Rest \cap Old)
  BY <1>2, <1>3, FS_Union
<1>8. IsFiniteSet(Rest \union New) /\ Cardinality(Rest \union New) = Cardinality(Rest) + Cardinality(New) - Cardinality(Rest \cap New)
  BY <1>2, <1>3, FS_Union
<1>9. Cardinality({}) = 0
  BY FS_EmptySet
<1>10. Cardinality(Units(f)) = Cardinality(Rest) + f[s]
  <2>1. Cardinality(Units(f)) = Cardinality(Rest) + Cardinality(Old) - Cardinality({})
    BY <1>4, <1>7
  <2> QED
    BY <1>1, <1>2, <1>6, <1>9, <2>1
<1>11. IsFiniteSet(Units(g)) /\ Cardinality(Units(g)) = Cardinality(Rest) + g[s]
  <2>1. IsFiniteSet(Units(g)) /\ Cardinality(Units(g)) = Cardinality(Rest) + Cardinality(New) - Cardinality({})
    BY <1>5, <1>8
  <2> QED
    BY <1>1, <1>2, <1>6, <1>9, <2>1
<1> QED
  BY <1>1, <1>6, <1>10, <1>11

(* The product of one more.                                                 *)
LEMMA TimesOneMore ==
  ASSUME NEW a \in Nat, NEW n \in Nat
  PROVE  a * n \in Nat /\ a * (n + 1) = a * n + a
OBVIOUS

(* Every sum changes by what the share of the one task in it does.          *)
LEMMA SharesAre ==
  ASSUME Finite, NEW s \in Streams, Alone(s)
  PROVE  /\ IsFiniteSet({x \in Streams : stream[x] = "open"})' /\ Cardinality({x \in Streams : stream[x] = "open"}) \in Nat /\ Cardinality({x \in Streams : stream[x] = "open"})' \in Nat
         /\ Cardinality({x \in Streams : stream[x] = "open"})' - Opened(s)' = Cardinality({x \in Streams : stream[x] = "open"}) - Opened(s)
         /\ IsFiniteSet({x \in Streams : stream[x] = "ended"})' /\ Cardinality({x \in Streams : stream[x] = "ended"}) \in Nat /\ Cardinality({x \in Streams : stream[x] = "ended"})' \in Nat
         /\ Cardinality({x \in Streams : stream[x] = "ended"})' - Ended(s)' = Cardinality({x \in Streams : stream[x] = "ended"}) - Ended(s)
         /\ IsFiniteSet({x \in Streams : llm[x] # "none"})' /\ Cardinality({x \in Streams : llm[x] # "none"}) \in Nat /\ Cardinality({x \in Streams : llm[x] # "none"})' \in Nat
         /\ Cardinality({x \in Streams : llm[x] # "none"})' - Calling(s)' = Cardinality({x \in Streams : llm[x] # "none"}) - Calling(s)
         /\ IsFiniteSet(Awaiting("backoff"))' /\ Cardinality(Awaiting("backoff")) \in Nat /\ Cardinality(Awaiting("backoff"))' \in Nat
         /\ Cardinality(Awaiting("backoff"))' - Waiting(s)' = Cardinality(Awaiting("backoff")) - Waiting(s)
         /\ IsFiniteSet(Executing)' /\ Cardinality(Executing) \in Nat /\ Cardinality(Executing)' \in Nat
         /\ Cardinality(Executing)' - Running(s)' = Cardinality(Executing) - Running(s)
         /\ IsFiniteSet({x \in Streams : IsDeciding(x)})' /\ Cardinality({x \in Streams : IsDeciding(x)}) \in Nat /\ Cardinality({x \in Streams : IsDeciding(x)})' \in Nat
         /\ Cardinality({x \in Streams : IsDeciding(x)})' - Deciding(s)' = Cardinality({x \in Streams : IsDeciding(x)}) - Deciding(s)
         /\ IsFiniteSet({x \in Streams : IsFound(x)})' /\ Cardinality({x \in Streams : IsFound(x)}) \in Nat /\ Cardinality({x \in Streams : IsFound(x)})' \in Nat
         /\ Cardinality({x \in Streams : IsFound(x)})' - Found(s)' = Cardinality({x \in Streams : IsFound(x)}) - Found(s)
         /\ IsFiniteSet({x \in Streams : IsAnswered(x)})' /\ Cardinality({x \in Streams : IsAnswered(x)}) \in Nat /\ Cardinality({x \in Streams : IsAnswered(x)})' \in Nat
         /\ Cardinality({x \in Streams : IsAnswered(x)})' - Answered(s)' = Cardinality({x \in Streams : IsAnswered(x)}) - Answered(s)
         /\ \A e \in Endpoints :
              /\ IsFiniteSet({x \in Awaiting("sent") : delivery[x].endpoint = e})' /\ Cardinality({x \in Awaiting("sent") : delivery[x].endpoint = e}) \in Nat /\ Cardinality({x \in Awaiting("sent") : delivery[x].endpoint = e})' \in Nat
              /\ Cardinality({x \in Awaiting("sent") : delivery[x].endpoint = e})' - Sent(s, e)' = Cardinality({x \in Awaiting("sent") : delivery[x].endpoint = e}) - Sent(s, e)
<1>1. /\ IsFiniteSet({x \in Streams : stream[x] = "open"})' /\ Cardinality({x \in Streams : stream[x] = "open"}) \in Nat /\ Cardinality({x \in Streams : stream[x] = "open"})' \in Nat
      /\ Cardinality({x \in Streams : stream[x] = "open"})' - Opened(s)' = Cardinality({x \in Streams : stream[x] = "open"}) - Opened(s)
  <2> DEFINE A == {x \in Streams : stream[x] = "open"}
             B == {x \in Streams : stream[x] = "open"}'
  <2>1. IsFiniteSet(A)
    BY DEF Finite
  <2>2. (\A x : x # s => (x \in A <=> x \in B)) /\ (s \in A <=> Opened(s) = 1) /\ (s \in B <=> Opened(s)' = 1)
    BY DEF Alone, Opened
  <2>3. Opened(s) = (IF s \in A THEN 1 ELSE 0) /\ Opened(s)' = (IF s \in B THEN 1 ELSE 0)
    BY <2>2 DEF Opened
  <2> HIDE DEF A, B
  <2>4. IsFiniteSet(B) /\ Cardinality(A) \in Nat /\ Cardinality(B) \in Nat /\ Cardinality(B) - Opened(s)' = Cardinality(A) - Opened(s)
    BY <2>1, <2>2, <2>3, CountMoves
  <2> QED
    BY <2>4 DEF A, B
<1>2. /\ IsFiniteSet({x \in Streams : stream[x] = "ended"})' /\ Cardinality({x \in Streams : stream[x] = "ended"}) \in Nat /\ Cardinality({x \in Streams : stream[x] = "ended"})' \in Nat
      /\ Cardinality({x \in Streams : stream[x] = "ended"})' - Ended(s)' = Cardinality({x \in Streams : stream[x] = "ended"}) - Ended(s)
  <2> DEFINE A == {x \in Streams : stream[x] = "ended"}
             B == {x \in Streams : stream[x] = "ended"}'
  <2>1. IsFiniteSet(A)
    BY DEF Finite
  <2>2. (\A x : x # s => (x \in A <=> x \in B)) /\ (s \in A <=> Ended(s) = 1) /\ (s \in B <=> Ended(s)' = 1)
    BY DEF Alone, Ended
  <2>3. Ended(s) = (IF s \in A THEN 1 ELSE 0) /\ Ended(s)' = (IF s \in B THEN 1 ELSE 0)
    BY <2>2 DEF Ended
  <2> HIDE DEF A, B
  <2>4. IsFiniteSet(B) /\ Cardinality(A) \in Nat /\ Cardinality(B) \in Nat /\ Cardinality(B) - Ended(s)' = Cardinality(A) - Ended(s)
    BY <2>1, <2>2, <2>3, CountMoves
  <2> QED
    BY <2>4 DEF A, B
<1>3. /\ IsFiniteSet({x \in Streams : llm[x] # "none"})' /\ Cardinality({x \in Streams : llm[x] # "none"}) \in Nat /\ Cardinality({x \in Streams : llm[x] # "none"})' \in Nat
      /\ Cardinality({x \in Streams : llm[x] # "none"})' - Calling(s)' = Cardinality({x \in Streams : llm[x] # "none"}) - Calling(s)
  <2> DEFINE A == {x \in Streams : llm[x] # "none"}
             B == {x \in Streams : llm[x] # "none"}'
  <2>1. IsFiniteSet(A)
    BY DEF Finite
  <2>2. (\A x : x # s => (x \in A <=> x \in B)) /\ (s \in A <=> Calling(s) = 1) /\ (s \in B <=> Calling(s)' = 1)
    BY DEF Alone, Calling
  <2>3. Calling(s) = (IF s \in A THEN 1 ELSE 0) /\ Calling(s)' = (IF s \in B THEN 1 ELSE 0)
    BY <2>2 DEF Calling
  <2> HIDE DEF A, B
  <2>4. IsFiniteSet(B) /\ Cardinality(A) \in Nat /\ Cardinality(B) \in Nat /\ Cardinality(B) - Calling(s)' = Cardinality(A) - Calling(s)
    BY <2>1, <2>2, <2>3, CountMoves
  <2> QED
    BY <2>4 DEF A, B
<1>4. /\ IsFiniteSet(Awaiting("backoff"))' /\ Cardinality(Awaiting("backoff")) \in Nat /\ Cardinality(Awaiting("backoff"))' \in Nat
      /\ Cardinality(Awaiting("backoff"))' - Waiting(s)' = Cardinality(Awaiting("backoff")) - Waiting(s)
  <2> DEFINE A == Awaiting("backoff")
             B == Awaiting("backoff")'
  <2>1. IsFiniteSet(A)
    BY DEF Finite
  <2>2. (\A x : x # s => (x \in A <=> x \in B)) /\ (s \in A <=> Waiting(s) = 1) /\ (s \in B <=> Waiting(s)' = 1)
    BY DEF Alone, Waiting, Awaiting
  <2>3. Waiting(s) = (IF s \in A THEN 1 ELSE 0) /\ Waiting(s)' = (IF s \in B THEN 1 ELSE 0)
    BY <2>2 DEF Waiting
  <2> HIDE DEF A, B
  <2>4. IsFiniteSet(B) /\ Cardinality(A) \in Nat /\ Cardinality(B) \in Nat /\ Cardinality(B) - Waiting(s)' = Cardinality(A) - Waiting(s)
    BY <2>1, <2>2, <2>3, CountMoves
  <2> QED
    BY <2>4 DEF A, B
<1>5. /\ IsFiniteSet(Executing)' /\ Cardinality(Executing) \in Nat /\ Cardinality(Executing)' \in Nat
      /\ Cardinality(Executing)' - Running(s)' = Cardinality(Executing) - Running(s)
  <2> DEFINE A == Executing
             B == Executing'
  <2>1. IsFiniteSet(A)
    BY DEF Finite
  <2>2. (\A x : x # s => (x \in A <=> x \in B)) /\ (s \in A <=> Running(s) = 1) /\ (s \in B <=> Running(s)' = 1)
    BY DEF Alone, Running, Executing
  <2>3. Running(s) = (IF s \in A THEN 1 ELSE 0) /\ Running(s)' = (IF s \in B THEN 1 ELSE 0)
    BY <2>2 DEF Running
  <2> HIDE DEF A, B
  <2>4. IsFiniteSet(B) /\ Cardinality(A) \in Nat /\ Cardinality(B) \in Nat /\ Cardinality(B) - Running(s)' = Cardinality(A) - Running(s)
    BY <2>1, <2>2, <2>3, CountMoves
  <2> QED
    BY <2>4 DEF A, B
<1>6. /\ IsFiniteSet({x \in Streams : IsDeciding(x)})' /\ Cardinality({x \in Streams : IsDeciding(x)}) \in Nat /\ Cardinality({x \in Streams : IsDeciding(x)})' \in Nat
      /\ Cardinality({x \in Streams : IsDeciding(x)})' - Deciding(s)' = Cardinality({x \in Streams : IsDeciding(x)}) - Deciding(s)
  <2> DEFINE A == {x \in Streams : IsDeciding(x)}
             B == {x \in Streams : IsDeciding(x)}'
  <2>1. IsFiniteSet(A)
    BY DEF Finite
  <2>2. (\A x : x # s => (x \in A <=> x \in B)) /\ (s \in A <=> Deciding(s) = 1) /\ (s \in B <=> Deciding(s)' = 1)
    BY DEF Alone, Deciding, IsDeciding
  <2>3. Deciding(s) = (IF s \in A THEN 1 ELSE 0) /\ Deciding(s)' = (IF s \in B THEN 1 ELSE 0)
    BY <2>2 DEF Deciding
  <2> HIDE DEF A, B
  <2>4. IsFiniteSet(B) /\ Cardinality(A) \in Nat /\ Cardinality(B) \in Nat /\ Cardinality(B) - Deciding(s)' = Cardinality(A) - Deciding(s)
    BY <2>1, <2>2, <2>3, CountMoves
  <2> QED
    BY <2>4 DEF A, B
<1>7. /\ IsFiniteSet({x \in Streams : IsFound(x)})' /\ Cardinality({x \in Streams : IsFound(x)}) \in Nat /\ Cardinality({x \in Streams : IsFound(x)})' \in Nat
      /\ Cardinality({x \in Streams : IsFound(x)})' - Found(s)' = Cardinality({x \in Streams : IsFound(x)}) - Found(s)
  <2> DEFINE A == {x \in Streams : IsFound(x)}
             B == {x \in Streams : IsFound(x)}'
  <2>1. IsFiniteSet(A)
    BY DEF Finite
  <2>2. (\A x : x # s => (x \in A <=> x \in B)) /\ (s \in A <=> Found(s) = 1) /\ (s \in B <=> Found(s)' = 1)
    BY DEF Alone, Found, IsFound
  <2>3. Found(s) = (IF s \in A THEN 1 ELSE 0) /\ Found(s)' = (IF s \in B THEN 1 ELSE 0)
    BY <2>2 DEF Found
  <2> HIDE DEF A, B
  <2>4. IsFiniteSet(B) /\ Cardinality(A) \in Nat /\ Cardinality(B) \in Nat /\ Cardinality(B) - Found(s)' = Cardinality(A) - Found(s)
    BY <2>1, <2>2, <2>3, CountMoves
  <2> QED
    BY <2>4 DEF A, B
<1>8. /\ IsFiniteSet({x \in Streams : IsAnswered(x)})' /\ Cardinality({x \in Streams : IsAnswered(x)}) \in Nat /\ Cardinality({x \in Streams : IsAnswered(x)})' \in Nat
      /\ Cardinality({x \in Streams : IsAnswered(x)})' - Answered(s)' = Cardinality({x \in Streams : IsAnswered(x)}) - Answered(s)
  <2> DEFINE A == {x \in Streams : IsAnswered(x)}
             B == {x \in Streams : IsAnswered(x)}'
  <2>1. IsFiniteSet(A)
    BY DEF Finite
  <2>2. (\A x : x # s => (x \in A <=> x \in B)) /\ (s \in A <=> Answered(s) = 1) /\ (s \in B <=> Answered(s)' = 1)
    BY DEF Alone, Answered, IsAnswered
  <2>3. Answered(s) = (IF s \in A THEN 1 ELSE 0) /\ Answered(s)' = (IF s \in B THEN 1 ELSE 0)
    BY <2>2 DEF Answered
  <2> HIDE DEF A, B
  <2>4. IsFiniteSet(B) /\ Cardinality(A) \in Nat /\ Cardinality(B) \in Nat /\ Cardinality(B) - Answered(s)' = Cardinality(A) - Answered(s)
    BY <2>1, <2>2, <2>3, CountMoves
  <2> QED
    BY <2>4 DEF A, B
<1>9. ASSUME NEW e \in Endpoints
      PROVE  /\ IsFiniteSet({x \in Awaiting("sent") : delivery[x].endpoint = e})' /\ Cardinality({x \in Awaiting("sent") : delivery[x].endpoint = e}) \in Nat /\ Cardinality({x \in Awaiting("sent") : delivery[x].endpoint = e})' \in Nat
             /\ Cardinality({x \in Awaiting("sent") : delivery[x].endpoint = e})' - Sent(s, e)' = Cardinality({x \in Awaiting("sent") : delivery[x].endpoint = e}) - Sent(s, e)
  <2> DEFINE A == {x \in Awaiting("sent") : delivery[x].endpoint = e}
             B == {x \in Awaiting("sent") : delivery[x].endpoint = e}'
  <2>1. IsFiniteSet(A)
    BY DEF Finite
  <2>2. (\A x : x # s => (x \in A <=> x \in B)) /\ (s \in A <=> Sent(s, e) = 1) /\ (s \in B <=> Sent(s, e)' = 1)
    BY DEF Alone, Sent, Awaiting
  <2>3. Sent(s, e) = (IF s \in A THEN 1 ELSE 0) /\ Sent(s, e)' = (IF s \in B THEN 1 ELSE 0)
    BY <2>2 DEF Sent
  <2> HIDE DEF A, B
  <2>4. IsFiniteSet(B) /\ Cardinality(A) \in Nat /\ Cardinality(B) \in Nat /\ Cardinality(B) - Sent(s, e)' = Cardinality(A) - Sent(s, e)
    BY <2>1, <2>2, <2>3, CountMoves
  <2> QED
    BY <2>4 DEF A, B
<1> QED
  BY <1>1, <1>2, <1>3, <1>4, <1>5, <1>6, <1>7, <1>8, <1>9


(* At least one attempt, whatever the policy says.                          *)
LEMMA AttemptsAre == Attempts \in Nat /\ Attempts - 1 \in Nat
BY ServiceAssumption DEF Attempts

(* No execution has taken more than its attempts.                           *)
LEMMA SparesAre == Typed /\ AllPlaced => AllSpared
<1> SUFFICES ASSUME Typed, NEW s \in Streams, Placed(s) PROVE Spare(s) \in Nat
  BY DEF AllPlaced, AllSpared
<1>1. /\ delivery[s] \in Deliveries
      /\ delivery[s].endpoint = "execute" => delivery[s].attempt >= 1 /\ delivery[s].attempt <= Attempts
      /\ delivery[s].at = "backoff" => delivery[s].attempt < Attempts
  BY DEF Typed, Placed, PlacedAs
<1>2. delivery[s].attempt \in Nat
  BY <1>1 DEF Deliveries
<1> QED
  BY <1>1, <1>2, AttemptsAre DEF Spare, Waiting

(* The sums of numbers change by what the numbers of the one task do.       *)
LEMMA UnitsAre ==
  ASSUME Typed, Typed', AllPlaced, AllPlaced', Finite,
         NEW s \in Streams, Alone(s)
  PROVE  /\ Spare(s) \in Nat /\ Spare(s)' \in Nat
         /\ IsFiniteSet(Units(Spares))' /\ Cardinality(Units(Spares)) \in Nat /\ Cardinality(Units(Spares))' \in Nat
         /\ Cardinality(Units(Spares))' - Spare(s)' = Cardinality(Units(Spares)) - Spare(s)
         /\ IsFiniteSet(Units(cards))' /\ Cardinality(Units(cards)) \in Nat /\ Cardinality(Units(cards))' \in Nat
         /\ Cardinality(Units(cards))' - cards'[s] = Cardinality(Units(cards)) - cards[s]
<1>1. \A x \in Streams : Spare(x) \in Nat
  BY SparesAre DEF AllPlaced, AllSpared
<1>2. \A x \in Streams : Spare(x)' \in Nat
  <2>1. (Typed /\ AllPlaced => AllSpared)'
    BY SparesAre, PTL
  <2> QED
    BY <2>1 DEF AllPlaced, AllSpared
<1>3. Spares \in [Streams -> Nat] /\ \A x \in Streams : Spares[x] = Spare(x)
  BY <1>1 DEF Spares
<1>4. Spares' \in [Streams -> Nat] /\ \A x \in Streams : Spares'[x] = Spare(x)'
  BY <1>2 DEF Spares
<1>5. \A x \in Streams : x # s => Spares'[x] = Spares[x]
  <2>1. \A x \in Streams : x # s => Spare(x)' = Spare(x)
    BY DEF Alone, Spare, Waiting
  <2> QED
    BY <1>3, <1>4, <2>1
<1>6. IsFiniteSet(Units(Spares)) /\ IsFiniteSet(Units(cards))
  BY DEF Finite
<1>7. /\ IsFiniteSet(Units(Spares')) /\ Cardinality(Units(Spares)) \in Nat /\ Cardinality(Units(Spares')) \in Nat
      /\ Cardinality(Units(Spares')) - Spares'[s] = Cardinality(Units(Spares)) - Spares[s]
  BY <1>3, <1>4, <1>5, <1>6, UnitsMove
<1>8. cards \in [Streams -> Nat] /\ cards' \in [Streams -> Nat] /\ \A x \in Streams : x # s => cards'[x] = cards[x]
  BY DEF Typed, Alone
<1>9. /\ IsFiniteSet(Units(cards')) /\ Cardinality(Units(cards)) \in Nat /\ Cardinality(Units(cards')) \in Nat
      /\ Cardinality(Units(cards')) - cards'[s] = Cardinality(Units(cards)) - cards[s]
  BY <1>6, <1>8, UnitsMove
<1>10. Units(Spares)' = Units(Spares') /\ Units(cards)' = Units(cards')
  BY DEF Units
<1> QED
  BY <1>1, <1>2, <1>3, <1>4, <1>7, <1>9, <1>10

(* The numbers are numbers.                                                 *)
LEMMA NumbersAre ==
  Typed =>
    /\ instruments.sessions_active \in Int /\ instruments.session_duration \in Nat
    /\ instruments.llm_requests["ok"] \in Nat /\ instruments.llm_requests["error"] \in Nat
    /\ instruments.llm_duration \in Nat /\ instruments.execute_retries \in Nat
    /\ \A state \in States : Told(state) \in Nat
    /\ \A e \in Endpoints : \A out \in Outcomes : instruments.deliveries[<<e, out>>] \in Nat
    /\ \A e \in Endpoints : /\ Counted(e) \in Nat /\ instruments.delivery_duration[e] \in Nat
                            /\ lost.deliveries[e] \in Nat /\ begun.sent[e] \in Nat
    /\ begun.calls \in Nat /\ begun.executions \in Nat /\ lost.waits \in Nat /\ lost.executions \in Nat
    /\ Decisions \in Nat /\ Requests \in Nat
    /\ (Attempts - 1) * begun.executions \in Nat
<1> SUFFICES ASSUME Typed
             PROVE  /\ instruments.sessions_active \in Int /\ instruments.session_duration \in Nat
                    /\ instruments.llm_requests["ok"] \in Nat /\ instruments.llm_requests["error"] \in Nat
                    /\ instruments.llm_duration \in Nat /\ instruments.execute_retries \in Nat
                    /\ \A state \in States : Told(state) \in Nat
                    /\ \A e \in Endpoints : \A out \in Outcomes : instruments.deliveries[<<e, out>>] \in Nat
                    /\ \A e \in Endpoints : /\ Counted(e) \in Nat /\ instruments.delivery_duration[e] \in Nat
                                            /\ lost.deliveries[e] \in Nat /\ begun.sent[e] \in Nat
                    /\ begun.calls \in Nat /\ begun.executions \in Nat /\ lost.waits \in Nat /\ lost.executions \in Nat
                    /\ Decisions \in Nat /\ Requests \in Nat
                    /\ (Attempts - 1) * begun.executions \in Nat
  OBVIOUS
<1>1. /\ instruments.proposals \in [States -> Nat] /\ instruments.deliveries \in [Endpoints \X Outcomes -> Nat]
      /\ instruments.delivery_duration \in [Endpoints -> Nat] /\ instruments.execute_retries \in Nat
      /\ instruments.sessions_active \in Int /\ instruments.session_duration \in Nat
      /\ instruments.llm_requests \in [{"ok", "error"} -> Nat] /\ instruments.llm_duration \in Nat
  BY DEF Typed, Counters
<1>2. /\ begun.calls \in Nat /\ begun.executions \in Nat /\ begun.sent \in [Endpoints -> Nat]
      /\ lost.deliveries \in [Endpoints -> Nat] /\ lost.waits \in Nat /\ lost.executions \in Nat
  BY DEF Typed, Begun, Lost
<1>3. \A state \in States : Told(state) \in Nat
  BY <1>1 DEF Told
<1>4. \A e \in Endpoints : \A out \in Outcomes : instruments.deliveries[<<e, out>>] \in Nat
  BY <1>1
<1>5. \A e \in Endpoints : Counted(e) \in Nat
  <2>1. {"ok", "status_4xx", "status_5xx", "status_other", "unreachable"} \subseteq Outcomes
    BY DEF Outcomes
  <2>2. ASSUME NEW e \in Endpoints PROVE Counted(e) \in Nat
    <3>1. /\ instruments.deliveries[<<e, "ok">>] \in Nat /\ instruments.deliveries[<<e, "status_4xx">>] \in Nat
          /\ instruments.deliveries[<<e, "status_5xx">>] \in Nat /\ instruments.deliveries[<<e, "status_other">>] \in Nat
          /\ instruments.deliveries[<<e, "unreachable">>] \in Nat
      BY <1>4, <2>1
    <3> QED
      BY <3>1 DEF Counted
  <2> QED
    BY <2>2
<1>6. Decisions \in Nat
  BY <1>3 DEF Decisions, States
<1>7. Requests \in Nat
  BY <1>1 DEF Requests
<1>8. (Attempts - 1) * begun.executions \in Nat
  BY <1>2, AttemptsAre, TimesOneMore
<1> QED
  BY <1>1, <1>2, <1>3, <1>4, <1>5, <1>6, <1>7, <1>8


(* The balance of the one task is the balance of the sums.                  *)
LEMMA BalanceKeeps ==
  ASSUME Typed, Typed', AllPlaced, AllPlaced', Finite, Exact, Bounded,
         NEW s \in Streams, Alone(s), Balanced(s)
  PROVE  Finite' /\ Exact' /\ Bounded'
<1> DEFINE Sending(e) == {x \in Awaiting("sent") : delivery[x].endpoint = e}
           Open == {x \in Streams : stream[x] = "open"}
           End == {x \in Streams : stream[x] = "ended"}
           Call == {x \in Streams : llm[x] # "none"}
           Decide == {x \in Streams : IsDeciding(x)}
           Find == {x \in Streams : IsFound(x)}
           Answer == {x \in Streams : IsAnswered(x)}
<1>1. Typed /\ Typed' /\ layer' = layer /\ extractor' = extractor
  BY DEF Alone
<1>2. /\ instruments.sessions_active \in Int /\ instruments.session_duration \in Nat /\ instruments.llm_duration \in Nat
      /\ instruments.execute_retries \in Nat /\ Decisions \in Nat /\ Requests \in Nat
      /\ (Attempts - 1) * begun.executions \in Nat
      /\ begun.calls \in Nat /\ begun.executions \in Nat /\ lost.waits \in Nat /\ lost.executions \in Nat
      /\ \A state \in States : Told(state) \in Nat
      /\ \A e \in Endpoints : /\ Counted(e) \in Nat /\ instruments.delivery_duration[e] \in Nat
                              /\ lost.deliveries[e] \in Nat /\ begun.sent[e] \in Nat
      /\ \A e \in Endpoints : \A out \in Outcomes : instruments.deliveries[<<e, out>>] \in Nat
  BY <1>1, NumbersAre
<1>3. (/\ instruments.sessions_active \in Int /\ instruments.session_duration \in Nat /\ instruments.llm_duration \in Nat
       /\ instruments.execute_retries \in Nat /\ Decisions \in Nat /\ Requests \in Nat
       /\ (Attempts - 1) * begun.executions \in Nat
       /\ begun.calls \in Nat /\ begun.executions \in Nat /\ lost.waits \in Nat /\ lost.executions \in Nat
       /\ \A state \in States : Told(state) \in Nat
       /\ \A e \in Endpoints : /\ Counted(e) \in Nat /\ instruments.delivery_duration[e] \in Nat
                               /\ lost.deliveries[e] \in Nat /\ begun.sent[e] \in Nat
       /\ \A e \in Endpoints : \A out \in Outcomes : instruments.deliveries[<<e, out>>] \in Nat)'
  BY <1>1, NumbersAre, PTL
<1>4. Finite'
  <2>1. \A e \in Endpoints : IsFiniteSet(Sending(e))'
    BY SharesAre
  <2>2. /\ IsFiniteSet(Open)' /\ IsFiniteSet(End)' /\ IsFiniteSet(Call)' /\ IsFiniteSet(Awaiting("backoff"))'
        /\ IsFiniteSet(Executing)' /\ IsFiniteSet(Decide)' /\ IsFiniteSet(Find)' /\ IsFiniteSet(Answer)'
    BY SharesAre
  <2>3. IsFiniteSet(Units(Spares))' /\ IsFiniteSet(Units(cards))'
    BY UnitsAre
  <2> QED
    BY <2>1, <2>2, <2>3 DEF Finite
<1>5. GaugeTellsSessions'
  <2>1. /\ Cardinality(Open) \in Nat /\ Cardinality(Open)' \in Nat /\ Cardinality(Open)' - Opened(s)' = Cardinality(Open) - Opened(s)
        /\ Cardinality(End) \in Nat /\ Cardinality(End)' \in Nat /\ Cardinality(End)' - Ended(s)' = Cardinality(End) - Ended(s)
    BY SharesAre
  <2>2. Opened(s) \in Int /\ Opened(s)' \in Int /\ Ended(s) \in Int /\ Ended(s)' \in Int
    BY DEF Opened, Ended
  <2>3. layer => /\ instruments.sessions_active = Cardinality(Open) /\ instruments.session_duration = Cardinality(End)
                 /\ instruments'.sessions_active - Opened(s)' = instruments.sessions_active - Opened(s)
                 /\ instruments'.session_duration - Ended(s)' = instruments.session_duration - Ended(s)
    BY DEF Exact, GaugeTellsSessions, Balanced
  <2> HIDE DEF Open, End
  <2>4. layer' => instruments'.sessions_active = Cardinality(Open)' /\ instruments'.session_duration = Cardinality(End)'
    BY <1>1, <1>2, <1>3, <2>1, <2>2, <2>3
  <2> QED
    BY <2>4 DEF GaugeTellsSessions, Open, End
<1>6. CallsCounted'
  <2>1. Cardinality(Call) \in Nat /\ Cardinality(Call)' \in Nat /\ Cardinality(Call)' - Calling(s)' = Cardinality(Call) - Calling(s)
    BY SharesAre
  <2>2. Calling(s) \in Int /\ Calling(s)' \in Int
    BY DEF Calling
  <2>3. layer => /\ Requests + Cardinality(Call) = begun.calls /\ instruments.llm_duration = Requests
                 /\ Requests' + Calling(s)' - begun'.calls = Requests + Calling(s) - begun.calls
                 /\ instruments'.llm_duration - Requests' = instruments.llm_duration - Requests
    BY DEF Exact, CallsCounted, Balanced, Requests
  <2> HIDE DEF Call
  <2>4. layer' => Requests' + Cardinality(Call)' = begun'.calls /\ instruments'.llm_duration = Requests'
    BY <1>1, <1>2, <1>3, <2>1, <2>2, <2>3
  <2> QED
    BY <2>4 DEF CallsCounted, Call, Requests
<1>7. DeliveriesCounted'
  <2>1. ASSUME layer, NEW e \in Endpoints
        PROVE  /\ Counted(e)' + Cardinality(Sending(e))' + lost'.deliveries[e] = begun'.sent[e]
               /\ instruments'.delivery_duration[e] = Counted(e)'
    <3>1. /\ Cardinality(Sending(e)) \in Nat /\ Cardinality(Sending(e))' \in Nat
          /\ Cardinality(Sending(e))' - Sent(s, e)' = Cardinality(Sending(e)) - Sent(s, e)
      BY SharesAre
    <3>2. Sent(s, e) \in Int /\ Sent(s, e)' \in Int
      BY DEF Sent
    <3>3. /\ Counted(e) + Cardinality(Sending(e)) + lost.deliveries[e] = begun.sent[e]
          /\ instruments.delivery_duration[e] = Counted(e)
      BY <2>1 DEF Exact, DeliveriesCounted
    <3>4. /\ Counted(e)' + Sent(s, e)' + lost'.deliveries[e] - begun'.sent[e]
               = Counted(e) + Sent(s, e) + lost.deliveries[e] - begun.sent[e]
          /\ instruments'.delivery_duration[e] - Counted(e)' = instruments.delivery_duration[e] - Counted(e)
      BY <2>1 DEF Balanced
    <3> HIDE DEF Sending
    <3> QED
      BY <1>2, <1>3, <3>1, <3>2, <3>3, <3>4
  <2> QED
    BY <1>1, <2>1 DEF DeliveriesCounted
<1>8. layer' => (begun.executions + instruments.execute_retries =
                   begun.sent["execute"] + Cardinality(Awaiting("backoff")) + lost.waits)'
  <2>1. /\ Cardinality(Awaiting("backoff")) \in Nat /\ Cardinality(Awaiting("backoff"))' \in Nat
        /\ Cardinality(Awaiting("backoff"))' - Waiting(s)' = Cardinality(Awaiting("backoff")) - Waiting(s)
    BY SharesAre
  <2>2. Waiting(s) \in Int /\ Waiting(s)' \in Int
    BY DEF Waiting
  <2>3. layer => /\ begun.executions + instruments.execute_retries =
                       begun.sent["execute"] + Cardinality(Awaiting("backoff")) + lost.waits
                 /\ begun'.executions + instruments'.execute_retries - begun'.sent["execute"] - Waiting(s)' - lost'.waits
                      = begun.executions + instruments.execute_retries - begun.sent["execute"] - Waiting(s) - lost.waits
    BY DEF Exact, Balanced
  <2>4. "execute" \in Endpoints
    BY DEF Endpoints
  <2>5. begun.sent["execute"] \in Nat /\ begun'.sent["execute"] \in Nat
    BY <1>2, <1>3, <2>4
  <2> QED
    BY <1>1, <1>2, <1>3, <2>1, <2>2, <2>3, <2>5
<1>9. layer' => (Told("executed") + Told("failed") + Cardinality(Executing) + lost.executions = begun.executions)'
  <2>1. /\ Cardinality(Executing) \in Nat /\ Cardinality(Executing)' \in Nat
        /\ Cardinality(Executing)' - Running(s)' = Cardinality(Executing) - Running(s)
    BY SharesAre
  <2>2. Running(s) \in Int /\ Running(s)' \in Int
    BY DEF Running
  <2>3. layer => /\ Told("executed") + Told("failed") + Cardinality(Executing) + lost.executions = begun.executions
                 /\ Told("executed")' + Told("failed")' + Running(s)' + lost'.executions - begun'.executions
                      = Told("executed") + Told("failed") + Running(s) + lost.executions - begun.executions
    BY DEF Exact, Balanced
  <2>4. Told("executed") \in Nat /\ Told("failed") \in Nat /\ Told("executed")' \in Nat /\ Told("failed")' \in Nat
    BY <1>2, <1>3 DEF States
  <2>5. begun.executions \in Nat /\ begun'.executions \in Nat /\ lost.executions \in Nat /\ lost'.executions \in Nat
    BY <1>2, <1>3
  <2> QED
    BY <1>1, <2>1, <2>2, <2>3, <2>4, <2>5
<1>10. Bounded'
  <2>1. /\ Spare(s) \in Nat /\ Spare(s)' \in Nat
        /\ Cardinality(Units(Spares)) \in Nat /\ Cardinality(Units(Spares))' \in Nat
        /\ Cardinality(Units(Spares))' - Spare(s)' = Cardinality(Units(Spares)) - Spare(s)
        /\ Cardinality(Units(cards)) \in Nat /\ Cardinality(Units(cards))' \in Nat
        /\ Cardinality(Units(cards))' - cards'[s] = Cardinality(Units(cards)) - cards[s]
    BY UnitsAre
  <2>2. /\ Cardinality(Decide) \in Nat /\ Cardinality(Decide)' \in Nat
        /\ Cardinality(Decide)' - Deciding(s)' = Cardinality(Decide) - Deciding(s)
        /\ Cardinality(Find) \in Nat /\ Cardinality(Find)' \in Nat /\ Cardinality(Find)' - Found(s)' = Cardinality(Find) - Found(s)
        /\ Cardinality(Answer) \in Nat /\ Cardinality(Answer)' \in Nat
        /\ Cardinality(Answer)' - Answered(s)' = Cardinality(Answer) - Answered(s)
    BY SharesAre
  <2>3. /\ Deciding(s) \in Int /\ Deciding(s)' \in Int /\ Found(s) \in Int /\ Found(s)' \in Int
        /\ Answered(s) \in Int /\ Answered(s)' \in Int
    BY DEF Deciding, Found, Answered
  <2>4. cards[s] \in Nat /\ cards'[s] \in Nat
    BY <1>1 DEF Typed
  <2>5. Told("validated") \in Nat /\ Told("validated")' \in Nat
    BY <1>2, <1>3 DEF States
  <2>6. instruments.deliveries[<<"verify_session", "ok">>] \in Nat /\ instruments'.deliveries[<<"verify_session", "ok">>] \in Nat
    <3>1. "verify_session" \in Endpoints /\ "ok" \in Outcomes
      BY DEF Endpoints, Outcomes
    <3> QED
      BY <1>2, <1>3, <3>1
  <2>7. layer => instruments'.execute_retries + Cardinality(Units(Spares))' <= (Attempts - 1) * begun'.executions
    <3>1. layer => /\ instruments.execute_retries + Cardinality(Units(Spares)) <= (Attempts - 1) * begun.executions
                   /\ instruments'.execute_retries + Spare(s)' - (Attempts - 1) * begun'.executions
                        <= instruments.execute_retries + Spare(s) - (Attempts - 1) * begun.executions
      BY DEF Bounded, Balanced
    <3> QED
      BY <1>2, <1>3, <2>1, <3>1
  <2>8. layer => Decisions' + Cardinality(Units(cards))' + Cardinality(Decide)' <= Told("validated")'
    <3>1. layer => /\ Decisions + Cardinality(Units(cards)) + Cardinality(Decide) <= Told("validated")
                   /\ Decisions' + cards'[s] + Deciding(s)' - Told("validated")'
                        <= Decisions + cards[s] + Deciding(s) - Told("validated")
      BY DEF Bounded, Balanced
    <3> HIDE DEF Decide
    <3> QED
      BY <1>2, <1>3, <2>1, <2>2, <2>3, <2>4, <2>5, <3>1
  <2>9. layer /\ extractor = "verify_session" =>
          Cardinality(Find)' + Cardinality(Answer)' <= instruments'.deliveries[<<"verify_session", "ok">>]
    <3>1. layer /\ extractor = "verify_session" =>
            /\ Cardinality(Find) + Cardinality(Answer) <= instruments.deliveries[<<"verify_session", "ok">>]
            /\ Found(s)' + Answered(s)' - instruments'.deliveries[<<"verify_session", "ok">>]
                 <= Found(s) + Answered(s) - instruments.deliveries[<<"verify_session", "ok">>]
      BY DEF Bounded, Balanced
    <3> HIDE DEF Find, Answer
    <3> QED
      BY <2>2, <2>3, <2>6, <3>1
  <2> QED
    BY <1>1, <2>7, <2>8, <2>9 DEF Bounded
<1> QED
  BY <1>4, <1>5, <1>6, <1>7, <1>8, <1>9, <1>10 DEF Exact

-----------------------------------------------------------------------------
(* What an event adds to each sum of the instruments.                       *)

Events ==
  {NoEvent, DeliveryRetry, SessionEvent("opened"), SessionEvent("closed"), LlmEvent("ok"), LlmEvent("error")}
    \union {Proposal(state) : state \in States}
    \union {Delivered(of[1], of[2]) : of \in Endpoints \X Outcomes}

ActiveBy(event) ==
  IF event = SessionEvent("opened") THEN 1 ELSE IF event = SessionEvent("closed") THEN -1 ELSE 0
EndedBy(event) == IF event = SessionEvent("closed") THEN 1 ELSE 0
RequestsBy(event) == IF event.kind = "llm" THEN 1 ELSE 0
RetriesBy(event) == IF event.kind = "delivery_retry" THEN 1 ELSE 0
CountedBy(event, e) == IF event.kind = "delivery" /\ event.endpoint = e THEN 1 ELSE 0
OkBy(event) == IF event = Delivered("verify_session", "ok") THEN 1 ELSE 0
ToldBy(event, state) == IF event = Proposal(state) THEN 1 ELSE 0

CountedIn(m, e) ==
  m.deliveries[<<e, "ok">>] + m.deliveries[<<e, "status_4xx">>] + m.deliveries[<<e, "status_5xx">>]
    + m.deliveries[<<e, "status_other">>] + m.deliveries[<<e, "unreachable">>]

(* new is what old becomes by the event.                                    *)
Adds(old, event, new) ==
  /\ new.sessions_active = old.sessions_active + ActiveBy(event)
  /\ new.session_duration = old.session_duration + EndedBy(event)
  /\ new.llm_requests["ok"] + new.llm_requests["error"]
       = old.llm_requests["ok"] + old.llm_requests["error"] + RequestsBy(event)
  /\ new.llm_duration = old.llm_duration + RequestsBy(event)
  /\ new.execute_retries = old.execute_retries + RetriesBy(event)
  /\ \A e \in Endpoints : /\ CountedIn(new, e) = CountedIn(old, e) + CountedBy(event, e)
                          /\ new.delivery_duration[e] = old.delivery_duration[e] + CountedBy(event, e)
  /\ new.deliveries[<<"verify_session", "ok">>] = old.deliveries[<<"verify_session", "ok">>] + OkBy(event)
  /\ \A state \in States : new.proposals[state] = old.proposals[state] + ToldBy(event, state)

(* The fields of the instruments.                                           *)
LEMMA CountersAre ==
  ASSUME NEW m \in Counters
  PROVE  /\ m.proposals \in [States -> Nat] /\ m.deliveries \in [Endpoints \X Outcomes -> Nat]
         /\ m.delivery_duration \in [Endpoints -> Nat] /\ m.execute_retries \in Nat
         /\ m.sessions_active \in Int /\ m.session_duration \in Nat
         /\ m.llm_requests \in [{"ok", "error"} -> Nat] /\ m.llm_duration \in Nat
         /\ m.llm_requests["ok"] \in Nat /\ m.llm_requests["error"] \in Nat
         /\ \A e \in Endpoints : \A out \in Outcomes : m.deliveries[<<e, out>>] \in Nat
         /\ \A e \in Endpoints : CountedIn(m, e) \in Nat
<1>1. m.deliveries \in [Endpoints \X Outcomes -> Nat] /\ m.llm_requests \in [{"ok", "error"} -> Nat]
  BY DEF Counters
<1>2. \A e \in Endpoints : \A out \in Outcomes : m.deliveries[<<e, out>>] \in Nat
  BY <1>1
<1>3. ASSUME NEW e \in Endpoints PROVE CountedIn(m, e) \in Nat
  <2>1. /\ m.deliveries[<<e, "ok">>] \in Nat /\ m.deliveries[<<e, "status_4xx">>] \in Nat
        /\ m.deliveries[<<e, "status_5xx">>] \in Nat /\ m.deliveries[<<e, "status_other">>] \in Nat
        /\ m.deliveries[<<e, "unreachable">>] \in Nat
    BY <1>2 DEF Outcomes
  <2> QED
    BY <2>1 DEF CountedIn
<1> QED
  BY <1>1, <1>2, <1>3 DEF Counters

(* What each event is counted as.                                           *)
LEMMA NoEventIs ==
  /\ ActiveBy(NoEvent) = 0 /\ EndedBy(NoEvent) = 0
  /\ RequestsBy(NoEvent) = 0 /\ RetriesBy(NoEvent) = 0
  /\ \A e : CountedBy(NoEvent, e) = 0
  /\ OkBy(NoEvent) = 0 /\ \A of : ToldBy(NoEvent, of) = 0
BY DEF NoEvent, DeliveryRetry, SessionEvent, LlmEvent, Delivered, Proposal, Event, ActiveBy, EndedBy, RequestsBy, RetriesBy, CountedBy, OkBy, ToldBy

(* A session's event moves the gauge, a closed one leaves its duration.     *)
LEMMA SessionIs ==
  ASSUME NEW phase \in {"opened", "closed"}
  PROVE  /\ ActiveBy(SessionEvent(phase)) = (IF phase = "opened" THEN 1 ELSE -1) /\ EndedBy(SessionEvent(phase)) = (IF phase = "closed" THEN 1 ELSE 0)
         /\ RequestsBy(SessionEvent(phase)) = 0 /\ RetriesBy(SessionEvent(phase)) = 0
         /\ \A e : CountedBy(SessionEvent(phase), e) = 0
         /\ OkBy(SessionEvent(phase)) = 0 /\ \A of : ToldBy(SessionEvent(phase), of) = 0
BY DEF NoEvent, DeliveryRetry, SessionEvent, LlmEvent, Delivered, Proposal, Event, ActiveBy, EndedBy, RequestsBy, RetriesBy, CountedBy, OkBy, ToldBy

(* A model call is one request, however it ended.                           *)
LEMMA LlmIs ==
  ASSUME NEW outcome
  PROVE  /\ ActiveBy(LlmEvent(outcome)) = 0 /\ EndedBy(LlmEvent(outcome)) = 0
         /\ RequestsBy(LlmEvent(outcome)) = 1 /\ RetriesBy(LlmEvent(outcome)) = 0
         /\ \A e : CountedBy(LlmEvent(outcome), e) = 0
         /\ OkBy(LlmEvent(outcome)) = 0 /\ \A of : ToldBy(LlmEvent(outcome), of) = 0
BY DEF NoEvent, DeliveryRetry, SessionEvent, LlmEvent, Delivered, Proposal, Event, ActiveBy, EndedBy, RequestsBy, RetriesBy, CountedBy, OkBy, ToldBy

(* A retry is a retry and nothing else.                                     *)
LEMMA RetryIs ==
  /\ ActiveBy(DeliveryRetry) = 0 /\ EndedBy(DeliveryRetry) = 0
  /\ RequestsBy(DeliveryRetry) = 0 /\ RetriesBy(DeliveryRetry) = 1
  /\ \A e : CountedBy(DeliveryRetry, e) = 0
  /\ OkBy(DeliveryRetry) = 0 /\ \A of : ToldBy(DeliveryRetry, of) = 0
BY DEF NoEvent, DeliveryRetry, SessionEvent, LlmEvent, Delivered, Proposal, Event, ActiveBy, EndedBy, RequestsBy, RetriesBy, CountedBy, OkBy, ToldBy

(* A proposal counts under its state.                                       *)
LEMMA ProposalIs ==
  ASSUME NEW state
  PROVE  /\ ActiveBy(Proposal(state)) = 0 /\ EndedBy(Proposal(state)) = 0
         /\ RequestsBy(Proposal(state)) = 0 /\ RetriesBy(Proposal(state)) = 0
         /\ \A e : CountedBy(Proposal(state), e) = 0
         /\ OkBy(Proposal(state)) = 0 /\ \A of : ToldBy(Proposal(state), of) = IF of = state THEN 1 ELSE 0
BY DEF NoEvent, DeliveryRetry, SessionEvent, LlmEvent, Delivered, Proposal, Event, ActiveBy, EndedBy, RequestsBy, RetriesBy, CountedBy, OkBy, ToldBy

(* A delivery counts under its endpoint and outcome.                        *)
LEMMA DeliveredIs ==
  ASSUME NEW endpoint, NEW out
  PROVE  /\ ActiveBy(Delivered(endpoint, out)) = 0 /\ EndedBy(Delivered(endpoint, out)) = 0
         /\ RequestsBy(Delivered(endpoint, out)) = 0 /\ RetriesBy(Delivered(endpoint, out)) = 0
         /\ \A e : CountedBy(Delivered(endpoint, out), e) = IF e = endpoint THEN 1 ELSE 0
         /\ OkBy(Delivered(endpoint, out)) = (IF endpoint = "verify_session" /\ out = "ok" THEN 1 ELSE 0) /\ \A of : ToldBy(Delivered(endpoint, out), of) = 0
BY DEF NoEvent, DeliveryRetry, SessionEvent, LlmEvent, Delivered, Proposal, Event, ActiveBy, EndedBy, RequestsBy, RetriesBy, CountedBy, OkBy, ToldBy

(* No event adds nothing.                                                   *)
LEMMA NoEventAdds ==
  ASSUME NEW m \in Counters
  PROVE  on_event(m, NoEvent) = m /\ Adds(m, NoEvent, m)
<1>1. on_event(m, NoEvent) = m
  BY DEF on_event, NoEvent, Event
<1>2. /\ ActiveBy(NoEvent) = 0 /\ EndedBy(NoEvent) = 0 /\ RequestsBy(NoEvent) = 0 /\ RetriesBy(NoEvent) = 0
      /\ \A e : CountedBy(NoEvent, e) = 0
      /\ OkBy(NoEvent) = 0 /\ \A state : ToldBy(NoEvent, state) = 0
  BY NoEventIs
<1>3. "verify_session" \in Endpoints /\ "ok" \in Outcomes
  BY DEF Endpoints, Outcomes
<1>4. \A state \in States : m.proposals[state] \in Nat
  BY CountersAre
<1>5. \A e \in Endpoints : m.delivery_duration[e] \in Nat
  BY CountersAre
<1> QED
  BY <1>1, <1>2, <1>3, <1>4, <1>5, CountersAre DEF Adds

(* A session's event moves the gauge, a closed one leaves its duration.     *)
LEMMA SessionAdds ==
  ASSUME NEW m \in Counters, NEW phase \in {"opened", "closed"}
  PROVE  /\ on_event(m, SessionEvent(phase)) \in Counters
         /\ Adds(m, SessionEvent(phase), on_event(m, SessionEvent(phase)))
<1> DEFINE event == SessionEvent(phase)
           new == IF phase = "opened" THEN [m EXCEPT !.sessions_active = @ + 1]
                  ELSE [m EXCEPT !.sessions_active = @ - 1, !.session_duration = @ + 1]
<1>1. on_event(m, event) = new
  <2>1. event.kind = "session" /\ event.label = phase
    BY DEF SessionEvent, Event
  <2>2. CASE phase = "opened"
    BY <2>1, <2>2 DEF on_event
  <2>3. CASE phase = "closed"
    BY <2>1, <2>3 DEF on_event
  <2> QED
    BY <2>2, <2>3
<1>2. new \in Counters
  <2>1. m.sessions_active + 1 \in Int /\ m.sessions_active - 1 \in Int /\ m.session_duration + 1 \in Nat
    BY CountersAre
  <2>2. [m EXCEPT !.sessions_active = @ + 1] \in Counters
    BY <2>1 DEF Counters
  <2>3. [m EXCEPT !.sessions_active = @ - 1, !.session_duration = @ + 1] \in Counters
    BY <2>1 DEF Counters
  <2> QED
    BY <2>2, <2>3
<1>3. /\ new.sessions_active = m.sessions_active + (IF phase = "opened" THEN 1 ELSE -1)
      /\ new.session_duration = m.session_duration + (IF phase = "closed" THEN 1 ELSE 0)
      /\ new.llm_requests = m.llm_requests /\ new.llm_duration = m.llm_duration
      /\ new.execute_retries = m.execute_retries /\ new.deliveries = m.deliveries
      /\ new.delivery_duration = m.delivery_duration /\ new.proposals = m.proposals
  BY CountersAre DEF Counters
<1>4. /\ ActiveBy(event) = (IF phase = "opened" THEN 1 ELSE -1) /\ EndedBy(event) = (IF phase = "closed" THEN 1 ELSE 0)
      /\ RequestsBy(event) = 0 /\ RetriesBy(event) = 0 /\ \A e : CountedBy(event, e) = 0
      /\ OkBy(event) = 0 /\ \A state : ToldBy(event, state) = 0
  BY SessionIs
<1>5. "verify_session" \in Endpoints /\ "ok" \in Outcomes
  BY DEF Endpoints, Outcomes
<1>6. (\A state \in States : m.proposals[state] \in Nat) /\ (\A e \in Endpoints : m.delivery_duration[e] \in Nat)
  BY CountersAre
<1>7. \A e \in Endpoints : CountedIn(new, e) = CountedIn(m, e) /\ CountedIn(m, e) \in Nat
  BY <1>3, CountersAre DEF CountedIn
<1>8. m.deliveries[<<"verify_session", "ok">>] \in Nat
  BY <1>5, CountersAre
<1> HIDE DEF new, event
<1>9. Adds(m, event, new)
  BY <1>3, <1>4, <1>6, <1>7, <1>8, CountersAre DEF Adds
<1> QED
  BY <1>1, <1>2, <1>9 DEF event

(* A model call is one request with its duration.                           *)
LEMMA LlmAdds ==
  ASSUME NEW m \in Counters, NEW outcome \in {"ok", "error"}
  PROVE  /\ on_event(m, LlmEvent(outcome)) \in Counters
         /\ Adds(m, LlmEvent(outcome), on_event(m, LlmEvent(outcome)))
<1> DEFINE event == LlmEvent(outcome)
           new == [m EXCEPT !.llm_requests[outcome] = @ + 1, !.llm_duration = @ + 1]
<1>1. on_event(m, event) = new
  BY DEF on_event, LlmEvent, Event
<1>2. new \in Counters
  <2>1. [m.llm_requests EXCEPT ![outcome] = @ + 1] \in [{"ok", "error"} -> Nat] /\ m.llm_duration + 1 \in Nat
    BY CountersAre
  <2> QED
    BY <2>1 DEF Counters
<1>3. /\ new.sessions_active = m.sessions_active
      /\ new.session_duration = m.session_duration
      /\ new.llm_requests = [m.llm_requests EXCEPT ![outcome] = @ + 1] /\ new.llm_duration = m.llm_duration + 1
      /\ new.execute_retries = m.execute_retries /\ new.deliveries = m.deliveries
      /\ new.delivery_duration = m.delivery_duration /\ new.proposals = m.proposals
  BY DEF Counters
<1>4. /\ ActiveBy(event) = 0 /\ EndedBy(event) = 0
      /\ RequestsBy(event) = 1 /\ RetriesBy(event) = 0 /\ \A e : CountedBy(event, e) = 0
      /\ OkBy(event) = 0 /\ \A state : ToldBy(event, state) = 0
  BY LlmIs
<1>5. "verify_session" \in Endpoints /\ "ok" \in Outcomes
  BY DEF Endpoints, Outcomes
<1>6. (\A state \in States : m.proposals[state] \in Nat) /\ (\A e \in Endpoints : m.delivery_duration[e] \in Nat)
  BY CountersAre
<1>7. \A e \in Endpoints : CountedIn(new, e) = CountedIn(m, e) /\ CountedIn(m, e) \in Nat
  BY <1>3, CountersAre DEF CountedIn
<1>8. m.deliveries[<<"verify_session", "ok">>] \in Nat
  BY <1>5, CountersAre
<1>9. new.llm_requests["ok"] + new.llm_requests["error"] = m.llm_requests["ok"] + m.llm_requests["error"] + 1
  <2>1. /\ new.llm_requests["ok"] = m.llm_requests["ok"] + (IF outcome = "ok" THEN 1 ELSE 0)
        /\ new.llm_requests["error"] = m.llm_requests["error"] + (IF outcome = "error" THEN 1 ELSE 0)
    BY <1>3, CountersAre
  <2> QED
    BY <2>1, CountersAre
<1> HIDE DEF new, event
<1>10. Adds(m, event, new)
  BY <1>3, <1>4, <1>6, <1>7, <1>8, <1>9, CountersAre DEF Adds
<1> QED
  BY <1>1, <1>2, <1>10 DEF event

(* A retry is a retry and nothing else.                                     *)
LEMMA RetryAdds ==
  ASSUME NEW m \in Counters
  PROVE  /\ on_event(m, DeliveryRetry) \in Counters
         /\ Adds(m, DeliveryRetry, on_event(m, DeliveryRetry))
<1> DEFINE event == DeliveryRetry
           new == [m EXCEPT !.execute_retries = @ + 1]
<1>1. on_event(m, event) = new
  BY DEF on_event, DeliveryRetry, Event
<1>2. new \in Counters
  <2>1. m.execute_retries + 1 \in Nat
    BY CountersAre
  <2> QED
    BY <2>1 DEF Counters
<1>3. /\ new.sessions_active = m.sessions_active
      /\ new.session_duration = m.session_duration
      /\ new.llm_requests = m.llm_requests /\ new.llm_duration = m.llm_duration
      /\ new.execute_retries = m.execute_retries + 1 /\ new.deliveries = m.deliveries
      /\ new.delivery_duration = m.delivery_duration /\ new.proposals = m.proposals
  BY DEF Counters
<1>4. /\ ActiveBy(event) = 0 /\ EndedBy(event) = 0
      /\ RequestsBy(event) = 0 /\ RetriesBy(event) = 1 /\ \A e : CountedBy(event, e) = 0
      /\ OkBy(event) = 0 /\ \A state : ToldBy(event, state) = 0
  BY RetryIs
<1>5. "verify_session" \in Endpoints /\ "ok" \in Outcomes
  BY DEF Endpoints, Outcomes
<1>6. (\A state \in States : m.proposals[state] \in Nat) /\ (\A e \in Endpoints : m.delivery_duration[e] \in Nat)
  BY CountersAre
<1>7. \A e \in Endpoints : CountedIn(new, e) = CountedIn(m, e) /\ CountedIn(m, e) \in Nat
  BY <1>3, CountersAre DEF CountedIn
<1>8. m.deliveries[<<"verify_session", "ok">>] \in Nat
  BY <1>5, CountersAre
<1> HIDE DEF new, event
<1>9. Adds(m, event, new)
  BY <1>3, <1>4, <1>6, <1>7, <1>8, CountersAre DEF Adds
<1> QED
  BY <1>1, <1>2, <1>9 DEF event

(* A proposal counts under its state.                                       *)
LEMMA ProposalAdds ==
  ASSUME NEW m \in Counters, NEW state \in States
  PROVE  /\ on_event(m, Proposal(state)) \in Counters
         /\ Adds(m, Proposal(state), on_event(m, Proposal(state)))
<1> DEFINE event == Proposal(state)
           new == [m EXCEPT !.proposals[state] = @ + 1]
<1>1. on_event(m, event) = new
  BY DEF on_event, Proposal, Event
<1>2. new \in Counters
  <2>1. [m.proposals EXCEPT ![state] = @ + 1] \in [States -> Nat]
    BY CountersAre
  <2> QED
    BY <2>1 DEF Counters
<1>3. /\ new.sessions_active = m.sessions_active
      /\ new.session_duration = m.session_duration
      /\ new.llm_requests = m.llm_requests /\ new.llm_duration = m.llm_duration
      /\ new.execute_retries = m.execute_retries /\ new.deliveries = m.deliveries
      /\ new.delivery_duration = m.delivery_duration /\ new.proposals = [m.proposals EXCEPT ![state] = @ + 1]
  BY DEF Counters
<1>4. /\ ActiveBy(event) = 0 /\ EndedBy(event) = 0
      /\ RequestsBy(event) = 0 /\ RetriesBy(event) = 0 /\ \A e : CountedBy(event, e) = 0
      /\ OkBy(event) = 0 /\ \A of : ToldBy(event, of) = IF of = state THEN 1 ELSE 0
  BY ProposalIs
<1>5. "verify_session" \in Endpoints /\ "ok" \in Outcomes
  BY DEF Endpoints, Outcomes
<1>6. \A e \in Endpoints : m.delivery_duration[e] \in Nat
  BY CountersAre
<1>7. \A e \in Endpoints : CountedIn(new, e) = CountedIn(m, e) /\ CountedIn(m, e) \in Nat
  BY <1>3, CountersAre DEF CountedIn
<1>8. m.deliveries[<<"verify_session", "ok">>] \in Nat
  BY <1>5, CountersAre
<1>9. \A of \in States : new.proposals[of] = m.proposals[of] + (IF of = state THEN 1 ELSE 0)
  BY <1>3, CountersAre
<1> HIDE DEF new, event
<1>10. Adds(m, event, new)
  BY <1>3, <1>4, <1>6, <1>7, <1>8, <1>9, CountersAre DEF Adds
<1> QED
  BY <1>1, <1>2, <1>10 DEF event

(* A delivery counts under its endpoint and outcome.                        *)
LEMMA DeliveredAdds ==
  ASSUME NEW m \in Counters, NEW endpoint \in Endpoints, NEW out \in Outcomes
  PROVE  /\ on_event(m, Delivered(endpoint, out)) \in Counters
         /\ Adds(m, Delivered(endpoint, out), on_event(m, Delivered(endpoint, out)))
<1> DEFINE event == Delivered(endpoint, out)
           new == [m EXCEPT !.deliveries[<<endpoint, out>>] = @ + 1, !.delivery_duration[endpoint] = @ + 1]
<1>1. on_event(m, event) = new
  BY DEF on_event, Delivered, Event
<1>2. new \in Counters
  <2>1. /\ [m.deliveries EXCEPT ![<<endpoint, out>>] = @ + 1] \in [Endpoints \X Outcomes -> Nat]
        /\ [m.delivery_duration EXCEPT ![endpoint] = @ + 1] \in [Endpoints -> Nat]
    BY CountersAre
  <2> QED
    BY <2>1, CountersAre DEF Counters
<1>3. /\ new.sessions_active = m.sessions_active
      /\ new.session_duration = m.session_duration
      /\ new.llm_requests = m.llm_requests /\ new.llm_duration = m.llm_duration
      /\ new.execute_retries = m.execute_retries /\ new.deliveries = [m.deliveries EXCEPT ![<<endpoint, out>>] = @ + 1]
      /\ new.delivery_duration = [m.delivery_duration EXCEPT ![endpoint] = @ + 1] /\ new.proposals = m.proposals
  BY DEF Counters
<1>4. /\ ActiveBy(event) = 0 /\ EndedBy(event) = 0
      /\ RequestsBy(event) = 0 /\ RetriesBy(event) = 0
      /\ \A e : CountedBy(event, e) = IF e = endpoint THEN 1 ELSE 0
      /\ OkBy(event) = (IF endpoint = "verify_session" /\ out = "ok" THEN 1 ELSE 0)
      /\ \A state : ToldBy(event, state) = 0
  BY DeliveredIs
<1>5. "verify_session" \in Endpoints /\ "ok" \in Outcomes
  BY DEF Endpoints, Outcomes
<1>6. \A state \in States : m.proposals[state] \in Nat
  BY CountersAre
<1>7. \A e \in Endpoints : \A of \in Outcomes :
        new.deliveries[<<e, of>>] = m.deliveries[<<e, of>>] + (IF e = endpoint /\ of = out THEN 1 ELSE 0)
  <2> TAKE e \in Endpoints
  <2> TAKE of \in Outcomes
  <2>1. m.deliveries[<<e, of>>] \in Nat /\ <<e, of>> \in Endpoints \X Outcomes
    BY CountersAre
  <2>2. <<e, of>> = <<endpoint, out>> <=> e = endpoint /\ of = out
    OBVIOUS
  <2> QED
    BY <1>3, <2>1, <2>2, CountersAre
<1>8. \A e \in Endpoints : new.delivery_duration[e] = m.delivery_duration[e] + (IF e = endpoint THEN 1 ELSE 0)
  BY <1>3, CountersAre
<1> HIDE DEF new, event
<1>9. \A e \in Endpoints : CountedIn(new, e) = CountedIn(m, e) + (IF e = endpoint THEN 1 ELSE 0)
  <2> TAKE e \in Endpoints
  <2>1. /\ m.deliveries[<<e, "ok">>] \in Nat /\ m.deliveries[<<e, "status_4xx">>] \in Nat
        /\ m.deliveries[<<e, "status_5xx">>] \in Nat /\ m.deliveries[<<e, "status_other">>] \in Nat
        /\ m.deliveries[<<e, "unreachable">>] \in Nat
    BY CountersAre DEF Outcomes
  <2>2. /\ new.deliveries[<<e, "ok">>] = m.deliveries[<<e, "ok">>] + (IF e = endpoint /\ out = "ok" THEN 1 ELSE 0)
        /\ new.deliveries[<<e, "status_4xx">>] = m.deliveries[<<e, "status_4xx">>] + (IF e = endpoint /\ out = "status_4xx" THEN 1 ELSE 0)
        /\ new.deliveries[<<e, "status_5xx">>] = m.deliveries[<<e, "status_5xx">>] + (IF e = endpoint /\ out = "status_5xx" THEN 1 ELSE 0)
        /\ new.deliveries[<<e, "status_other">>] = m.deliveries[<<e, "status_other">>] + (IF e = endpoint /\ out = "status_other" THEN 1 ELSE 0)
        /\ new.deliveries[<<e, "unreachable">>] = m.deliveries[<<e, "unreachable">>] + (IF e = endpoint /\ out = "unreachable" THEN 1 ELSE 0)
    BY <1>7 DEF Outcomes
  <2>3. out \in {"ok", "status_4xx", "status_5xx", "status_other", "unreachable"}
    BY DEF Outcomes
  <2> QED
    BY <2>1, <2>2, <2>3 DEF CountedIn
<1>10. new.deliveries[<<"verify_session", "ok">>]
         = m.deliveries[<<"verify_session", "ok">>] + (IF endpoint = "verify_session" /\ out = "ok" THEN 1 ELSE 0)
  BY <1>5, <1>7
<1>11. Adds(m, event, new)
  BY <1>3, <1>4, <1>6, <1>8, <1>9, <1>10, CountersAre DEF Adds
<1> QED
  BY <1>1, <1>2, <1>11 DEF event

(* Every event adds what it is for, and nothing else.                       *)
LEMMA EventAdds ==
  ASSUME NEW m \in Counters, NEW event \in Events
  PROVE  on_event(m, event) \in Counters /\ Adds(m, event, on_event(m, event))
<1>1. CASE event = NoEvent
  BY <1>1, NoEventAdds
<1>2. CASE event = DeliveryRetry
  BY <1>2, RetryAdds
<1>3. CASE \E phase \in {"opened", "closed"} : event = SessionEvent(phase)
  BY <1>3, SessionAdds
<1>4. CASE \E outcome \in {"ok", "error"} : event = LlmEvent(outcome)
  BY <1>4, LlmAdds
<1>5. CASE \E state \in States : event = Proposal(state)
  BY <1>5, ProposalAdds
<1>6. CASE \E of \in Endpoints \X Outcomes : event = Delivered(of[1], of[2])
  BY <1>6, DeliveredAdds
<1> QED
  BY <1>1, <1>2, <1>3, <1>4, <1>5, <1>6 DEF Events

(* Two events add one after the other, where the layer sees them.           *)
LEMMA BothAdd ==
  ASSUME Typed, NEW first \in Events, NEW second \in Events, EmitBoth(first, second)
  PROVE  /\ instruments' \in Counters
         /\ layer => \E m \in Counters : Adds(instruments, first, m) /\ Adds(m, second, instruments')
<1>1. instruments \in Counters
  BY DEF Typed
<1> DEFINE m == on_event(instruments, first)
<1>2. m \in Counters /\ Adds(instruments, first, m)
  BY <1>1, EventAdds
<1>3. on_event(m, second) \in Counters /\ Adds(m, second, on_event(m, second))
  BY <1>2, EventAdds
<1>4. instruments' = IF layer THEN on_event(m, second) ELSE instruments
  BY DEF EmitBoth
<1> HIDE DEF m
<1> QED
  BY <1>1, <1>2, <1>3, <1>4

(* A step that leaves the instruments alone emits nothing.                  *)
LEMMA NothingEmitted ==
  ASSUME Typed, UNCHANGED instruments
  PROVE  EmitBoth(NoEvent, NoEvent)
<1>1. on_event(instruments, NoEvent) = instruments
  BY NoEventAdds DEF Typed
<1> QED
  BY <1>1 DEF EmitBoth

-----------------------------------------------------------------------------
(* A step, by its events: what the task had and has under way, and what the *)
(* history gained, are what the two events add.                             *)
BalancedBy(s, first, second) ==
  /\ ActiveBy(first) + ActiveBy(second) = Opened(s)' - Opened(s)
  /\ EndedBy(first) + EndedBy(second) = Ended(s)' - Ended(s)
  /\ RequestsBy(first) + RequestsBy(second) + Calling(s)' - Calling(s) = begun'.calls - begun.calls
  /\ \A e \in Endpoints :
       CountedBy(first, e) + CountedBy(second, e) + Sent(s, e)' - Sent(s, e) + lost'.deliveries[e] - lost.deliveries[e]
         = begun'.sent[e] - begun.sent[e]
  /\ begun'.executions - begun.executions + RetriesBy(first) + RetriesBy(second)
       = begun'.sent["execute"] - begun.sent["execute"] + Waiting(s)' - Waiting(s) + lost'.waits - lost.waits
  /\ ToldBy(first, "executed") + ToldBy(first, "failed") + ToldBy(second, "executed") + ToldBy(second, "failed")
       + Running(s)' - Running(s) + lost'.executions - lost.executions = begun'.executions - begun.executions
  /\ begun'.executions \in {begun.executions, begun.executions + 1}
  /\ RetriesBy(first) + RetriesBy(second) + Spare(s)' - Spare(s)
       <= IF begun'.executions = begun.executions THEN 0 ELSE Attempts - 1
  /\ ToldBy(first, "executed") + ToldBy(first, "failed") + ToldBy(first, "expired") + ToldBy(first, "rejected")
       + ToldBy(second, "executed") + ToldBy(second, "failed") + ToldBy(second, "expired") + ToldBy(second, "rejected")
       + cards'[s] - cards[s] + Deciding(s)' - Deciding(s) <= ToldBy(first, "validated") + ToldBy(second, "validated")
  /\ extractor = "verify_session" =>
       Found(s)' + Answered(s)' - Found(s) - Answered(s) <= OkBy(first) + OkBy(second)

(* What the shares and the contributions of events are: small numbers.      *)
LEMMA SmallNumbers ==
  /\ \A x : /\ Opened(x) \in {0, 1} /\ Ended(x) \in {0, 1} /\ Calling(x) \in {0, 1} /\ Waiting(x) \in {0, 1}
            /\ Running(x) \in {0, 1} /\ Deciding(x) \in {0, 1} /\ Found(x) \in {0, 1} /\ Answered(x) \in {0, 1}
            /\ \A e : Sent(x, e) \in {0, 1}
  /\ \A x : /\ Opened(x)' \in {0, 1} /\ Ended(x)' \in {0, 1} /\ Calling(x)' \in {0, 1} /\ Waiting(x)' \in {0, 1}
            /\ Running(x)' \in {0, 1} /\ Deciding(x)' \in {0, 1} /\ Found(x)' \in {0, 1} /\ Answered(x)' \in {0, 1}
            /\ \A e : Sent(x, e)' \in {0, 1}
  /\ \A x : /\ ActiveBy(x) \in {-1, 0, 1} /\ EndedBy(x) \in {0, 1} /\ RequestsBy(x) \in {0, 1} /\ RetriesBy(x) \in {0, 1}
            /\ OkBy(x) \in {0, 1} /\ \A e : CountedBy(x, e) \in {0, 1} /\ \A state : ToldBy(x, state) \in {0, 1}
<1>1. \A x : /\ Opened(x) \in {0, 1} /\ Ended(x) \in {0, 1} /\ Calling(x) \in {0, 1} /\ Waiting(x) \in {0, 1}
             /\ Running(x) \in {0, 1} /\ Deciding(x) \in {0, 1} /\ Found(x) \in {0, 1} /\ Answered(x) \in {0, 1}
             /\ \A e : Sent(x, e) \in {0, 1}
  BY DEF Opened, Ended, Calling, Waiting, Running, Deciding, Found, Answered, Sent
<1>2. \A x : /\ Opened(x)' \in {0, 1} /\ Ended(x)' \in {0, 1} /\ Calling(x)' \in {0, 1} /\ Waiting(x)' \in {0, 1}
             /\ Running(x)' \in {0, 1} /\ Deciding(x)' \in {0, 1} /\ Found(x)' \in {0, 1} /\ Answered(x)' \in {0, 1}
             /\ \A e : Sent(x, e)' \in {0, 1}
  BY DEF Opened, Ended, Calling, Waiting, Running, Deciding, Found, Answered, Sent
<1>3. \A x : /\ ActiveBy(x) \in {-1, 0, 1} /\ EndedBy(x) \in {0, 1} /\ RequestsBy(x) \in {0, 1} /\ RetriesBy(x) \in {0, 1}
             /\ OkBy(x) \in {0, 1} /\ \A e : CountedBy(x, e) \in {0, 1} /\ \A state : ToldBy(x, state) \in {0, 1}
  BY DEF ActiveBy, EndedBy, RequestsBy, RetriesBy, OkBy, CountedBy, ToldBy
<1> QED
  BY <1>1, <1>2, <1>3

(* The events balance the step, so the instruments do.                      *)
LEMMA EventsBalance ==
  ASSUME Typed, Typed', AllPlaced, AllPlaced', NEW s \in Streams, NEW first \in Events, NEW second \in Events,
         EmitBoth(first, second), layer' = layer, extractor' = extractor, BalancedBy(s, first, second)
  PROVE  Balanced(s)
<1> SUFFICES ASSUME layer PROVE Balanced(s)
  BY DEF Balanced
<1> PICK m \in Counters : Adds(instruments, first, m) /\ Adds(m, second, instruments')
  BY BothAdd
<1>1. instruments \in Counters /\ instruments' \in Counters
  BY DEF Typed
<1>2. /\ begun.calls \in Nat /\ begun.executions \in Nat /\ begun.sent \in [Endpoints -> Nat]
      /\ lost.deliveries \in [Endpoints -> Nat] /\ lost.waits \in Nat /\ lost.executions \in Nat
      /\ begun'.calls \in Nat /\ begun'.executions \in Nat /\ begun'.sent \in [Endpoints -> Nat]
      /\ lost'.deliveries \in [Endpoints -> Nat] /\ lost'.waits \in Nat /\ lost'.executions \in Nat
  BY DEF Typed, Begun, Lost
<1>3. "execute" \in Endpoints /\ "verify_session" \in Endpoints /\ "ok" \in Outcomes
  BY DEF Endpoints, Outcomes
<1>4. begun.sent["execute"] \in Nat /\ begun'.sent["execute"] \in Nat
  BY <1>2, <1>3
<1>5. /\ m.sessions_active = instruments.sessions_active + ActiveBy(first)
      /\ m.session_duration = instruments.session_duration + EndedBy(first)
      /\ m.llm_requests["ok"] + m.llm_requests["error"]
           = instruments.llm_requests["ok"] + instruments.llm_requests["error"] + RequestsBy(first)
      /\ m.llm_duration = instruments.llm_duration + RequestsBy(first)
      /\ m.execute_retries = instruments.execute_retries + RetriesBy(first)
      /\ m.deliveries[<<"verify_session", "ok">>] = instruments.deliveries[<<"verify_session", "ok">>] + OkBy(first)
      /\ \A e \in Endpoints : /\ CountedIn(m, e) = CountedIn(instruments, e) + CountedBy(first, e)
                              /\ m.delivery_duration[e] = instruments.delivery_duration[e] + CountedBy(first, e)
      /\ \A state \in States : m.proposals[state] = instruments.proposals[state] + ToldBy(first, state)
  BY DEF Adds
<1>6. /\ instruments'.sessions_active = m.sessions_active + ActiveBy(second)
      /\ instruments'.session_duration = m.session_duration + EndedBy(second)
      /\ instruments'.llm_requests["ok"] + instruments'.llm_requests["error"]
           = m.llm_requests["ok"] + m.llm_requests["error"] + RequestsBy(second)
      /\ instruments'.llm_duration = m.llm_duration + RequestsBy(second)
      /\ instruments'.execute_retries = m.execute_retries + RetriesBy(second)
      /\ instruments'.deliveries[<<"verify_session", "ok">>] = m.deliveries[<<"verify_session", "ok">>] + OkBy(second)
      /\ \A e \in Endpoints : /\ CountedIn(instruments', e) = CountedIn(m, e) + CountedBy(second, e)
                              /\ instruments'.delivery_duration[e] = m.delivery_duration[e] + CountedBy(second, e)
      /\ \A state \in States : instruments'.proposals[state] = m.proposals[state] + ToldBy(second, state)
  BY DEF Adds
<1>7. /\ instruments'.sessions_active - Opened(s)' = instruments.sessions_active - Opened(s)
      /\ instruments'.session_duration - Ended(s)' = instruments.session_duration - Ended(s)
  <2>1. /\ ActiveBy(first) + ActiveBy(second) = Opened(s)' - Opened(s)
        /\ EndedBy(first) + EndedBy(second) = Ended(s)' - Ended(s)
    BY DEF BalancedBy
  <2>2. /\ instruments.sessions_active \in Int /\ instruments.session_duration \in Int
        /\ m.sessions_active = instruments.sessions_active + ActiveBy(first)
        /\ m.session_duration = instruments.session_duration + EndedBy(first)
        /\ instruments'.sessions_active = m.sessions_active + ActiveBy(second)
        /\ instruments'.session_duration = m.session_duration + EndedBy(second)
    BY <1>1, <1>5, <1>6, CountersAre
  <2>3. /\ Opened(s) \in Int /\ Opened(s)' \in Int /\ Ended(s) \in Int /\ Ended(s)' \in Int
        /\ ActiveBy(first) \in Int /\ ActiveBy(second) \in Int /\ EndedBy(first) \in Int /\ EndedBy(second) \in Int
    BY DEF Opened, Ended, ActiveBy, EndedBy
  <2>4. instruments'.sessions_active = instruments.sessions_active + ActiveBy(first) + ActiveBy(second)
    BY <2>2, <2>3
  <2>5. instruments'.session_duration = instruments.session_duration + EndedBy(first) + EndedBy(second)
    BY <2>2, <2>3
  <2>6. instruments'.sessions_active - Opened(s)' = instruments.sessions_active - Opened(s)
    BY <2>1, <2>2, <2>3, <2>4
  <2>7. instruments'.session_duration - Ended(s)' = instruments.session_duration - Ended(s)
    BY <2>1, <2>2, <2>3, <2>5
  <2> QED
    BY <2>6, <2>7
<1>8. /\ Requests' + Calling(s)' - begun'.calls = Requests + Calling(s) - begun.calls
      /\ instruments'.llm_duration - Requests' = instruments.llm_duration - Requests
  <2>1. RequestsBy(first) + RequestsBy(second) + Calling(s)' - Calling(s) = begun'.calls - begun.calls
    BY DEF BalancedBy
  <2>2. Requests \in Int /\ Requests' = Requests + RequestsBy(first) + RequestsBy(second)
    <3>1. instruments.llm_requests["ok"] \in Nat /\ instruments.llm_requests["error"] \in Nat
      BY <1>1, CountersAre
    <3> QED
      BY <1>5, <1>6, <3>1, SmallNumbers DEF Requests
  <2>3. /\ instruments.llm_duration \in Int
        /\ instruments'.llm_duration = instruments.llm_duration + RequestsBy(first) + RequestsBy(second)
    BY <1>1, <1>5, <1>6, CountersAre, SmallNumbers
  <2>4. Calling(s) \in Int /\ Calling(s)' \in Int /\ RequestsBy(first) \in Int /\ RequestsBy(second) \in Int
    BY DEF Calling, RequestsBy
  <2> QED
    BY <1>2, <2>1, <2>2, <2>3, <2>4
<1>9. ASSUME NEW e \in Endpoints
      PROVE  /\ Counted(e)' + Sent(s, e)' + lost'.deliveries[e] - begun'.sent[e]
                  = Counted(e) + Sent(s, e) + lost.deliveries[e] - begun.sent[e]
             /\ instruments'.delivery_duration[e] - Counted(e)' = instruments.delivery_duration[e] - Counted(e)
  <2>1. CountedBy(first, e) + CountedBy(second, e) + Sent(s, e)' - Sent(s, e) + lost'.deliveries[e] - lost.deliveries[e]
          = begun'.sent[e] - begun.sent[e]
    BY DEF BalancedBy
  <2>2. Counted(e) = CountedIn(instruments, e) /\ Counted(e)' = CountedIn(instruments', e)
    BY DEF Counted, CountedIn
  <2>3. /\ CountedIn(instruments, e) \in Nat
        /\ CountedIn(m, e) = CountedIn(instruments, e) + CountedBy(first, e)
        /\ CountedIn(instruments', e) = CountedIn(m, e) + CountedBy(second, e)
    BY <1>1, <1>5, <1>6, CountersAre
  <2>4. /\ instruments.delivery_duration[e] \in Nat
        /\ m.delivery_duration[e] = instruments.delivery_duration[e] + CountedBy(first, e)
        /\ instruments'.delivery_duration[e] = m.delivery_duration[e] + CountedBy(second, e)
    BY <1>1, <1>5, <1>6, CountersAre
  <2>5. /\ Sent(s, e) \in Int /\ Sent(s, e)' \in Int /\ CountedBy(first, e) \in Int /\ CountedBy(second, e) \in Int
        /\ lost.deliveries[e] \in Nat /\ lost'.deliveries[e] \in Nat /\ begun.sent[e] \in Nat /\ begun'.sent[e] \in Nat
    BY <1>2 DEF Sent, CountedBy
  <2>6. /\ Counted(e) \in Int /\ Counted(e)' = Counted(e) + CountedBy(first, e) + CountedBy(second, e)
        /\ instruments'.delivery_duration[e] = instruments.delivery_duration[e] + CountedBy(first, e) + CountedBy(second, e)
    BY <2>2, <2>3, <2>4, <2>5
  <2> QED
    BY <2>1, <2>4, <2>5, <2>6
<1>10. instruments.execute_retries \in Nat /\ instruments'.execute_retries = instruments.execute_retries + RetriesBy(first) + RetriesBy(second)
  BY <1>1, <1>5, <1>6, CountersAre, SmallNumbers
<1>11. /\ RetriesBy(first) \in Int /\ RetriesBy(second) \in Int /\ Waiting(s) \in Int /\ Waiting(s)' \in Int
       /\ Running(s) \in Int /\ Running(s)' \in Int /\ Deciding(s) \in Int /\ Deciding(s)' \in Int
       /\ Found(s) \in Int /\ Found(s)' \in Int /\ Answered(s) \in Int /\ Answered(s)' \in Int
       /\ OkBy(first) \in Int /\ OkBy(second) \in Int
  BY DEF RetriesBy, Waiting, Running, Deciding, Found, Answered, OkBy
<1>12. begun'.executions + instruments'.execute_retries - begun'.sent["execute"] - Waiting(s)' - lost'.waits
         = begun.executions + instruments.execute_retries - begun.sent["execute"] - Waiting(s) - lost.waits
  <2>1. begun'.executions - begun.executions + RetriesBy(first) + RetriesBy(second)
          = begun'.sent["execute"] - begun.sent["execute"] + Waiting(s)' - Waiting(s) + lost'.waits - lost.waits
    BY DEF BalancedBy
  <2> QED
    BY <1>2, <1>4, <1>10, <1>11, <2>1
<1>13. \A state \in States : /\ Told(state) \in Int /\ ToldBy(first, state) \in Int /\ ToldBy(second, state) \in Int
                             /\ Told(state)' = Told(state) + ToldBy(first, state) + ToldBy(second, state)
  <2> TAKE state \in States
  <2>1. /\ instruments.proposals[state] \in Nat
        /\ m.proposals[state] = instruments.proposals[state] + ToldBy(first, state)
        /\ instruments'.proposals[state] = m.proposals[state] + ToldBy(second, state)
    BY <1>1, <1>5, <1>6, CountersAre
  <2>2. ToldBy(first, state) \in Int /\ ToldBy(second, state) \in Int
    BY DEF ToldBy
  <2> QED
    BY <2>1, <2>2 DEF Told
<1>14. /\ Told("executed") \in Int /\ ToldBy(first, "executed") \in Int /\ ToldBy(second, "executed") \in Int
       /\ Told("executed")' = Told("executed") + ToldBy(first, "executed") + ToldBy(second, "executed")
       /\ Told("failed") \in Int /\ ToldBy(first, "failed") \in Int /\ ToldBy(second, "failed") \in Int
       /\ Told("failed")' = Told("failed") + ToldBy(first, "failed") + ToldBy(second, "failed")
       /\ Told("expired") \in Int /\ ToldBy(first, "expired") \in Int /\ ToldBy(second, "expired") \in Int
       /\ Told("expired")' = Told("expired") + ToldBy(first, "expired") + ToldBy(second, "expired")
       /\ Told("rejected") \in Int /\ ToldBy(first, "rejected") \in Int /\ ToldBy(second, "rejected") \in Int
       /\ Told("rejected")' = Told("rejected") + ToldBy(first, "rejected") + ToldBy(second, "rejected")
       /\ Told("validated") \in Int /\ ToldBy(first, "validated") \in Int /\ ToldBy(second, "validated") \in Int
       /\ Told("validated")' = Told("validated") + ToldBy(first, "validated") + ToldBy(second, "validated")
  BY <1>13 DEF States
<1>15. Told("executed")' + Told("failed")' + Running(s)' + lost'.executions - begun'.executions
         = Told("executed") + Told("failed") + Running(s) + lost.executions - begun.executions
  <2>1. ToldBy(first, "executed") + ToldBy(first, "failed") + ToldBy(second, "executed") + ToldBy(second, "failed")
          + Running(s)' - Running(s) + lost'.executions - lost.executions = begun'.executions - begun.executions
    BY DEF BalancedBy
  <2> QED
    BY <1>2, <1>11, <1>14, <2>1
<1>16. instruments'.execute_retries + Spare(s)' - (Attempts - 1) * begun'.executions
         <= instruments.execute_retries + Spare(s) - (Attempts - 1) * begun.executions
  <2>1. /\ begun'.executions \in {begun.executions, begun.executions + 1}
        /\ RetriesBy(first) + RetriesBy(second) + Spare(s)' - Spare(s)
             <= IF begun'.executions = begun.executions THEN 0 ELSE Attempts - 1
    BY DEF BalancedBy
  <2>2. (\A x \in Streams : Spare(x) \in Nat) /\ (\A x \in Streams : Spare(x) \in Nat)'
    <3>1. (Typed /\ AllPlaced => AllSpared)'
      BY SparesAre, PTL
    <3> QED
      BY <3>1, SparesAre DEF AllSpared
  <2>3. Spare(s) \in Nat /\ Spare(s)' \in Nat
    BY <2>2
  <2> DEFINE most == Attempts - 1
             once == most * begun.executions
             again == most * begun'.executions
  <2>4. /\ once \in Nat /\ most \in Nat
        /\ begun'.executions = begun.executions + 1 => again = once + most
        /\ begun'.executions = begun.executions => again = once
    BY <1>2, AttemptsAre, TimesOneMore
  <2> HIDE DEF once, again
  <2>5. instruments'.execute_retries + Spare(s)' - again <= instruments.execute_retries + Spare(s) - once
    BY <1>2, <1>10, <1>11, <2>1, <2>3, <2>4
  <2> QED
    BY <2>5 DEF once, again
<1>17. Decisions' + cards'[s] + Deciding(s)' - Told("validated")' <= Decisions + cards[s] + Deciding(s) - Told("validated")
  <2>1. ToldBy(first, "executed") + ToldBy(first, "failed") + ToldBy(first, "expired") + ToldBy(first, "rejected")
          + ToldBy(second, "executed") + ToldBy(second, "failed") + ToldBy(second, "expired") + ToldBy(second, "rejected")
          + cards'[s] - cards[s] + Deciding(s)' - Deciding(s) <= ToldBy(first, "validated") + ToldBy(second, "validated")
    BY DEF BalancedBy
  <2>2. cards[s] \in Nat /\ cards'[s] \in Nat
    BY DEF Typed
  <2> QED
    BY <1>11, <1>14, <2>1, <2>2 DEF Decisions
<1>18. extractor = "verify_session" =>
         Found(s)' + Answered(s)' - instruments'.deliveries[<<"verify_session", "ok">>]
           <= Found(s) + Answered(s) - instruments.deliveries[<<"verify_session", "ok">>]
  <2>1. extractor = "verify_session" => Found(s)' + Answered(s)' - Found(s) - Answered(s) <= OkBy(first) + OkBy(second)
    BY DEF BalancedBy
  <2>2. instruments.deliveries[<<"verify_session", "ok">>] \in Nat
    BY <1>1, <1>3, CountersAre
  <2> QED
    BY <1>5, <1>6, <1>11, <2>1, <2>2
<1> QED
  BY <1>7, <1>8, <1>9, <1>12, <1>15, <1>16, <1>17, <1>18 DEF Balanced

-----------------------------------------------------------------------------
(* The steps of a task.                                                     *)

Keeps(s) == Typed' /\ AllPlaced' /\ Alone(s) /\ Balanced(s)

Moves(s, at, sent, call, left) ==
  /\ at \in Stages /\ sent \in Deliveries /\ call \in Calls /\ left \in Nat
  /\ layer' = layer /\ extractor' = extractor
  /\ stream' = [stream EXCEPT ![s] = at] /\ delivery' = [delivery EXCEPT ![s] = sent]
  /\ llm' = [llm EXCEPT ![s] = call] /\ cards' = [cards EXCEPT ![s] = left]
  /\ PlacedAs(at, sent, call)
  /\ instruments' \in Counters /\ begun' \in Begun /\ lost' \in Lost

(* A step moves one task, to a place that it can have.                      *)
LEMMA TaskMoves ==
  ASSUME Typed, AllPlaced, NEW s \in Streams, NEW at, NEW sent, NEW call, NEW left, Moves(s, at, sent, call, left)
  PROVE  /\ Typed' /\ AllPlaced' /\ Alone(s)
         /\ stream'[s] = at /\ delivery'[s] = sent /\ llm'[s] = call /\ cards'[s] = left
<1>1. Typed'
  BY DEF Typed, Moves
<1>2. stream'[s] = at /\ delivery'[s] = sent /\ llm'[s] = call /\ cards'[s] = left
  BY DEF Typed, Moves
<1>3. \A x \in Streams : x # s =>
        stream'[x] = stream[x] /\ delivery'[x] = delivery[x] /\ llm'[x] = llm[x] /\ cards'[x] = cards[x]
  BY DEF Typed, Moves
<1>4. AllPlaced'
  <2> SUFFICES ASSUME NEW x \in Streams PROVE PlacedAs(stream'[x], delivery'[x], llm'[x])
    BY DEF AllPlaced, Placed, PlacedAs
  <2>1. PlacedAs(stream[x], delivery[x], llm[x])
    BY DEF AllPlaced, Placed
  <2>2. CASE x = s
    BY <1>2, <2>2 DEF Moves
  <2>3. CASE x # s
    BY <1>3, <2>1, <2>3
  <2> QED
    BY <2>2, <2>3
<1> QED
  BY <1>1, <1>2, <1>3, <1>4 DEF Alone, Moves

(* What a task has under way before its step.                               *)
LEMMA TaskIs ==
  ASSUME Typed, AllPlaced, NEW s \in Streams
  PROVE  /\ stream[s] \in Stages /\ delivery[s] \in Deliveries /\ llm[s] \in Calls /\ cards[s] \in Nat
         /\ stream = [stream EXCEPT ![s] = stream[s]] /\ delivery = [delivery EXCEPT ![s] = delivery[s]]
         /\ llm = [llm EXCEPT ![s] = llm[s]] /\ cards = [cards EXCEPT ![s] = cards[s]]
         /\ PlacedAs(stream[s], delivery[s], llm[s])
         /\ instruments \in Counters /\ begun \in Begun /\ lost \in Lost
         /\ begun.calls \in Nat /\ begun.executions \in Nat /\ lost.waits \in Nat /\ lost.executions \in Nat
         /\ \A e \in Endpoints : begun.sent[e] \in Nat /\ lost.deliveries[e] \in Nat
BY DEF Typed, AllPlaced, Placed, Begun, Lost

(* No delivery is one, with nothing in it.                                  *)
LEMMA NoDeliveryIs ==
  /\ NoDelivery \in Deliveries
  /\ NoDelivery.at = "none" /\ NoDelivery.endpoint = "none" /\ NoDelivery.attempt = 0 /\ NoDelivery.status = "none"
  /\ "none" \notin Endpoints /\ "none" \notin SeamNames /\ "execute" \notin SeamNames /\ "verify_session" \notin SeamNames
  /\ SeamNames \subseteq Endpoints /\ "execute" \in Endpoints /\ "verify_session" \in Endpoints
  /\ Endpoints = SeamNames \union {"execute", "verify_session"}
<1>1. \A i \in DOMAIN Seams : Seams[i] \in {"authorize", "dry_run", "build_slots"}
  BY ServiceAssumption
<1>2. SeamNames \subseteq {"authorize", "dry_run", "build_slots"}
  BY <1>1 DEF SeamNames
<1>3. Endpoints = SeamNames \union {"execute", "verify_session"}
  BY DEF Endpoints, SeamNames
<1>4. /\ NoDelivery \in Deliveries
      /\ NoDelivery.at = "none" /\ NoDelivery.endpoint = "none" /\ NoDelivery.attempt = 0 /\ NoDelivery.status = "none"
  BY DEF NoDelivery, Deliveries
<1> QED
  BY <1>2, <1>3, <1>4

(* The events that there are.                                               *)
LEMMA EventsAre ==
  /\ NoEvent \in Events /\ DeliveryRetry \in Events
  /\ \A phase \in {"opened", "closed"} : SessionEvent(phase) \in Events
  /\ \A outcome \in {"ok", "error"} : LlmEvent(outcome) \in Events
  /\ \A state \in States : Proposal(state) \in Events
  /\ \A e \in Endpoints : \A out \in Outcomes : Delivered(e, out) \in Events
<1>1. \A e \in Endpoints : \A out \in Outcomes : Delivered(e, out) \in Events
  <2> TAKE e \in Endpoints
  <2> TAKE out \in Outcomes
  <2>1. <<e, out>> \in Endpoints \X Outcomes /\ <<e, out>>[1] = e /\ <<e, out>>[2] = out
    OBVIOUS
  <2> QED
    BY <2>1 DEF Events
<1> QED
  BY <1>1 DEF Events

(* A delivery is one more of its endpoint, the first of execute one more    *)
(* execution.                                                               *)
LEMMA DeliverIs ==
  ASSUME Typed, NEW s \in Streams, NEW endpoint \in Endpoints, NEW attempt \in Nat, Deliver(s, endpoint, attempt)
  PROVE  /\ begun' \in Begun /\ begun'.calls = begun.calls
         /\ \A e \in Endpoints : begun'.sent[e] = begun.sent[e] + (IF e = endpoint THEN 1 ELSE 0)
         /\ begun'.executions = begun.executions + (IF endpoint = "execute" /\ attempt = 1 THEN 1 ELSE 0)
         /\ [at |-> "sent", endpoint |-> endpoint, attempt |-> attempt, status |-> "none"] \in Deliveries
<1>1. begun \in Begun
  BY DEF Typed
<1>2. begun.executions \in Nat /\ begun.calls \in Nat /\ begun.sent \in [Endpoints -> Nat]
  BY <1>1 DEF Begun
<1> DEFINE more == IF endpoint = "execute" /\ attempt = 1 THEN 1 ELSE 0
           sent == [begun.sent EXCEPT ![endpoint] = @ + 1]
<1>3. begun' = [begun EXCEPT !.sent = sent, !.executions = begun.executions + more]
  BY DEF Deliver
<1>4. sent \in [Endpoints -> Nat] /\ begun.executions + more \in Nat
  BY <1>2
<1>5. \A e \in Endpoints : sent[e] = begun.sent[e] + (IF e = endpoint THEN 1 ELSE 0)
  BY <1>2
<1> HIDE DEF sent, more
<1>6. begun' \in Begun /\ begun'.calls = begun.calls /\ begun'.sent = sent /\ begun'.executions = begun.executions + more
  BY <1>1, <1>3, <1>4 DEF Begun
<1>7. [at |-> "sent", endpoint |-> endpoint, attempt |-> attempt, status |-> "none"] \in Deliveries
  BY DEF Deliveries
<1> QED
  BY <1>5, <1>6, <1>7 DEF more

(* A session opens.                                                         *)
LEMMA SessionOpensKeeps ==
  ASSUME Typed, AllPlaced, NEW s \in Streams, SessionOpens(s)
  PROVE  Keeps(s)
<1>1. /\ stream[s] = "upgrading" /\ stream' = [stream EXCEPT ![s] = "open"]
      /\ EmitBoth(SessionEvent("opened"), NoEvent)
      /\ layer' = layer /\ extractor' = extractor /\ delivery' = delivery /\ llm' = llm /\ cards' = cards
      /\ begun' = begun /\ lost' = lost
  BY DEF SessionOpens, Emit
<1>2. SessionEvent("opened") \in Events /\ NoEvent \in Events
  BY EventsAre
<1>3. PlacedAs("open", delivery[s], llm[s])
  BY <1>1, TaskIs, NoDeliveryIs DEF PlacedAs
<1>4. instruments' \in Counters
  BY <1>1, <1>2, BothAdd
<1>5. /\ Typed' /\ AllPlaced' /\ Alone(s)
      /\ stream'[s] = "open" /\ delivery'[s] = delivery[s] /\ llm'[s] = llm[s] /\ cards'[s] = cards[s]
  <2>1. Moves(s, "open", delivery[s], llm[s], cards[s])
    BY <1>1, <1>3, <1>4, TaskIs DEF Moves, Stages
  <2> QED
    BY <2>1, TaskMoves
<1>6. BalancedBy(s, SessionEvent("opened"), NoEvent)
  <2>1. /\ Opened(s) = 0 /\ Opened(s)' = 1 /\ Ended(s) = 0 /\ Ended(s)' = 0 /\ Found(s)' = Found(s)
    BY <1>1, <1>5 DEF Opened, Ended, Found, IsFound
  <2>2. /\ Calling(s)' = Calling(s) /\ Waiting(s)' = Waiting(s) /\ Running(s)' = Running(s) /\ Deciding(s)' = Deciding(s)
        /\ Answered(s)' = Answered(s) /\ Spare(s)' = Spare(s) /\ \A e : Sent(s, e)' = Sent(s, e)
    BY <1>5 DEF Calling, Sent, Waiting, Running, Spare, Deciding, IsDeciding, Answered, IsAnswered
  <2> QED
    BY <1>1, <1>5, <2>1, <2>2, TaskIs, SessionIs, NoEventIs, NoDeliveryIs, SmallNumbers, AttemptsAre, SparesAre
       DEF BalancedBy, AllSpared
<1>7. Balanced(s)
  BY <1>1, <1>2, <1>5, <1>6, EventsBalance
<1> QED
  BY <1>5, <1>7 DEF Keeps

(* One more call.                                                           *)
LEMMA BegunCall ==
  ASSUME begun \in Begun, begun' = [begun EXCEPT !.calls = @ + 1]
  PROVE  /\ begun' \in Begun /\ begun'.calls = begun.calls + 1 /\ begun'.executions = begun.executions
         /\ begun'.sent = begun.sent
<1>1. begun.calls + 1 \in Nat
  BY DEF Begun
<1> QED
  BY <1>1 DEF Begun

(* A session ends when nothing is under way.                                *)
LEMMA SessionClosesKeeps ==
  ASSUME Typed, AllPlaced, NEW s \in Streams, SessionCloses(s)
  PROVE  Keeps(s)
<1>1. /\ stream[s] = "open" /\ delivery[s] = NoDelivery /\ llm[s] = "none" /\ stream' = [stream EXCEPT ![s] = "ended"]
      /\ EmitBoth(SessionEvent("closed"), NoEvent)
      /\ layer' = layer /\ extractor' = extractor /\ delivery' = delivery /\ llm' = llm /\ cards' = cards /\ begun' = begun /\ lost' = lost
  BY DEF SessionCloses, Reading, Emit
<1>2. SessionEvent("closed") \in Events /\ NoEvent \in Events
  BY EventsAre
<1>3. PlacedAs("ended", delivery[s], llm[s])
  BY <1>1, TaskIs, NoDeliveryIs DEF PlacedAs
<1>4. EmitBoth(SessionEvent("closed"), NoEvent) /\ instruments' \in Counters
  BY <1>1, <1>2, BothAdd
<1>5. /\ Typed' /\ AllPlaced' /\ Alone(s)
      /\ stream'[s] = "ended" /\ delivery'[s] = delivery[s] /\ llm'[s] = llm[s] /\ cards'[s] = cards[s]
  <2>1. Moves(s, "ended", delivery[s], llm[s], cards[s])
    BY <1>1, <1>3, <1>4, TaskIs, NoDeliveryIs DEF Moves, Stages, Calls
  <2> QED
    BY <2>1, TaskMoves
<1>6. BalancedBy(s, SessionEvent("closed"), NoEvent)
  <2>1. /\ Opened(s) = 1 /\ Opened(s)' = 0
        /\ Ended(s) = 0 /\ Ended(s)' = 1
        /\ Found(s)' = Found(s)
    BY <1>1, <1>5, TaskIs, NoDeliveryIs DEF PlacedAs, Opened, Ended, Found, IsFound
  <2>2. /\ Calling(s)' = Calling(s) /\ Waiting(s)' = Waiting(s) /\ Running(s)' = Running(s) /\ Deciding(s)' = Deciding(s)
        /\ Answered(s)' = Answered(s) /\ Spare(s)' = Spare(s) /\ \A e : Sent(s, e)' = Sent(s, e)
    BY <1>1, <1>5, TaskIs, NoDeliveryIs DEF PlacedAs, Calling, Waiting, Running, Deciding, IsDeciding, Answered, IsAnswered, Spare, Sent
  <2> QED
    BY <1>1, <1>5, <2>1, <2>2, TaskIs, SessionIs, NoEventIs, NoDeliveryIs, SmallNumbers, AttemptsAre, SparesAre
       DEF BalancedBy, AllSpared
<1> QED
  BY <1>1, <1>2, <1>4, <1>5, <1>6, EventsBalance DEF Keeps

(* A model call begins.                                                     *)
LEMMA ModelCallKeeps ==
  ASSUME Typed, AllPlaced, NEW s \in Streams, ModelCall(s)
  PROVE  Keeps(s)
<1>1. /\ stream[s] = "open" /\ delivery[s] = NoDelivery /\ llm[s] = "none" /\ llm' = [llm EXCEPT ![s] = "calling"]
      /\ begun' = [begun EXCEPT !.calls = @ + 1]
      /\ layer' = layer /\ extractor' = extractor /\ stream' = stream /\ delivery' = delivery /\ cards' = cards /\ instruments' = instruments /\ lost' = lost
  BY DEF ModelCall, Reading
<1>2. NoEvent \in Events /\ NoEvent \in Events
  BY EventsAre
<1>3. PlacedAs(stream[s], delivery[s], "calling")
  BY <1>1, TaskIs, NoDeliveryIs DEF PlacedAs
<1>4. EmitBoth(NoEvent, NoEvent) /\ instruments' \in Counters
  BY <1>1, TaskIs, NothingEmitted
<1>5. /\ Typed' /\ AllPlaced' /\ Alone(s)
      /\ stream'[s] = stream[s] /\ delivery'[s] = delivery[s] /\ llm'[s] = "calling" /\ cards'[s] = cards[s]
  <2>1. Moves(s, stream[s], delivery[s], "calling", cards[s])
    BY <1>1, <1>3, <1>4, TaskIs, NoDeliveryIs, BegunCall DEF Moves, Stages, Calls
  <2> QED
    BY <2>1, TaskMoves
<1>6. BalancedBy(s, NoEvent, NoEvent)
  <2>1. /\ Calling(s) = 0 /\ Calling(s)' = 1
        /\ Deciding(s) = 0 /\ Deciding(s)' = 0
    BY <1>1, <1>5, TaskIs, NoDeliveryIs DEF PlacedAs, Calling, Deciding, IsDeciding
  <2>2. /\ Opened(s)' = Opened(s) /\ Ended(s)' = Ended(s) /\ Found(s)' = Found(s) /\ Waiting(s)' = Waiting(s)
        /\ Running(s)' = Running(s) /\ Answered(s)' = Answered(s) /\ Spare(s)' = Spare(s) /\ \A e : Sent(s, e)' = Sent(s, e)
    BY <1>1, <1>5, TaskIs, NoDeliveryIs DEF PlacedAs, Opened, Ended, Found, IsFound, Waiting, Running, Answered, IsAnswered, Spare, Sent
  <2> QED
    BY <1>1, <1>5, <2>1, <2>2, TaskIs, NoEventIs, NoDeliveryIs, SmallNumbers, AttemptsAre, SparesAre, BegunCall
       DEF BalancedBy, AllSpared
<1> QED
  BY <1>1, <1>2, <1>4, <1>5, <1>6, EventsBalance DEF Keeps

(* A model call is refused: it ends with an error.                          *)
LEMMA CallRefusedKeeps ==
  ASSUME Typed, AllPlaced, NEW s \in Streams, CallRefused(s)
  PROVE  Keeps(s)
<1>1. /\ llm[s] = "calling" /\ llm' = [llm EXCEPT ![s] = "none"]
      /\ EmitBoth(LlmEvent("error"), NoEvent)
      /\ layer' = layer /\ extractor' = extractor /\ stream' = stream /\ delivery' = delivery /\ cards' = cards /\ begun' = begun /\ lost' = lost
  BY DEF CallRefused, Emit
<1>2. LlmEvent("error") \in Events /\ NoEvent \in Events
  BY EventsAre
<1>3. PlacedAs(stream[s], delivery[s], "none")
  BY <1>1, TaskIs, NoDeliveryIs DEF PlacedAs
<1>4. EmitBoth(LlmEvent("error"), NoEvent) /\ instruments' \in Counters
  BY <1>1, <1>2, BothAdd
<1>5. /\ Typed' /\ AllPlaced' /\ Alone(s)
      /\ stream'[s] = stream[s] /\ delivery'[s] = delivery[s] /\ llm'[s] = "none" /\ cards'[s] = cards[s]
  <2>1. Moves(s, stream[s], delivery[s], "none", cards[s])
    BY <1>1, <1>3, <1>4, TaskIs, NoDeliveryIs DEF Moves, Stages, Calls
  <2> QED
    BY <2>1, TaskMoves
<1>6. BalancedBy(s, LlmEvent("error"), NoEvent)
  <2>1. /\ Calling(s) = 1 /\ Calling(s)' = 0
        /\ Deciding(s) = 0 /\ Deciding(s)' = 0
    BY <1>1, <1>5, TaskIs, NoDeliveryIs DEF PlacedAs, Calling, Deciding, IsDeciding
  <2>2. /\ Opened(s)' = Opened(s) /\ Ended(s)' = Ended(s) /\ Found(s)' = Found(s) /\ Waiting(s)' = Waiting(s)
        /\ Running(s)' = Running(s) /\ Answered(s)' = Answered(s) /\ Spare(s)' = Spare(s) /\ \A e : Sent(s, e)' = Sent(s, e)
    BY <1>1, <1>5, TaskIs, NoDeliveryIs DEF PlacedAs, Opened, Ended, Found, IsFound, Waiting, Running, Answered, IsAnswered, Spare, Sent
  <2> QED
    BY <1>1, <1>5, <2>1, <2>2, TaskIs, LlmIs, NoEventIs, NoDeliveryIs, SmallNumbers, AttemptsAre, SparesAre
       DEF BalancedBy, AllSpared
<1> QED
  BY <1>1, <1>2, <1>4, <1>5, <1>6, EventsBalance DEF Keeps

(* The answer to a call begins to stream.                                   *)
LEMMA StreamOpensKeeps ==
  ASSUME Typed, AllPlaced, NEW s \in Streams, StreamOpens(s)
  PROVE  Keeps(s)
<1>1. /\ llm[s] = "calling" /\ llm' = [llm EXCEPT ![s] = "streaming"]
      /\ layer' = layer /\ extractor' = extractor /\ stream' = stream /\ delivery' = delivery /\ cards' = cards /\ instruments' = instruments /\ begun' = begun /\ lost' = lost
  BY DEF StreamOpens
<1>2. NoEvent \in Events /\ NoEvent \in Events
  BY EventsAre
<1>3. PlacedAs(stream[s], delivery[s], "streaming")
  BY <1>1, TaskIs, NoDeliveryIs DEF PlacedAs
<1>4. EmitBoth(NoEvent, NoEvent) /\ instruments' \in Counters
  BY <1>1, TaskIs, NothingEmitted
<1>5. /\ Typed' /\ AllPlaced' /\ Alone(s)
      /\ stream'[s] = stream[s] /\ delivery'[s] = delivery[s] /\ llm'[s] = "streaming" /\ cards'[s] = cards[s]
  <2>1. Moves(s, stream[s], delivery[s], "streaming", cards[s])
    BY <1>1, <1>3, <1>4, TaskIs, NoDeliveryIs DEF Moves, Stages, Calls
  <2> QED
    BY <2>1, TaskMoves
<1>6. BalancedBy(s, NoEvent, NoEvent)
  <2>1. /\ Calling(s)' = Calling(s)
        /\ Deciding(s)' = Deciding(s)
    BY <1>1, <1>5, TaskIs, NoDeliveryIs DEF PlacedAs, Calling, Deciding, IsDeciding
  <2>2. /\ Opened(s)' = Opened(s) /\ Ended(s)' = Ended(s) /\ Found(s)' = Found(s) /\ Waiting(s)' = Waiting(s)
        /\ Running(s)' = Running(s) /\ Answered(s)' = Answered(s) /\ Spare(s)' = Spare(s) /\ \A e : Sent(s, e)' = Sent(s, e)
    BY <1>1, <1>5, TaskIs, NoDeliveryIs DEF PlacedAs, Opened, Ended, Found, IsFound, Waiting, Running, Answered, IsAnswered, Spare, Sent
  <2> QED
    BY <1>1, <1>5, <2>1, <2>2, TaskIs, NoEventIs, NoDeliveryIs, SmallNumbers, AttemptsAre, SparesAre
       DEF BalancedBy, AllSpared
<1> QED
  BY <1>1, <1>2, <1>4, <1>5, <1>6, EventsBalance DEF Keeps

(* A chunk fails: the call will end with an error.                          *)
LEMMA ChunkFailsKeeps ==
  ASSUME Typed, AllPlaced, NEW s \in Streams, ChunkFails(s)
  PROVE  Keeps(s)
<1>1. /\ llm[s] = "streaming" /\ delivery[s] = NoDelivery /\ llm' = [llm EXCEPT ![s] = "errored"]
      /\ layer' = layer /\ extractor' = extractor /\ stream' = stream /\ delivery' = delivery /\ cards' = cards /\ instruments' = instruments /\ begun' = begun /\ lost' = lost
  BY DEF ChunkFails
<1>2. NoEvent \in Events /\ NoEvent \in Events
  BY EventsAre
<1>3. PlacedAs(stream[s], delivery[s], "errored")
  BY <1>1, TaskIs, NoDeliveryIs DEF PlacedAs
<1>4. EmitBoth(NoEvent, NoEvent) /\ instruments' \in Counters
  BY <1>1, TaskIs, NothingEmitted
<1>5. /\ Typed' /\ AllPlaced' /\ Alone(s)
      /\ stream'[s] = stream[s] /\ delivery'[s] = delivery[s] /\ llm'[s] = "errored" /\ cards'[s] = cards[s]
  <2>1. Moves(s, stream[s], delivery[s], "errored", cards[s])
    BY <1>1, <1>3, <1>4, TaskIs, NoDeliveryIs DEF Moves, Stages, Calls
  <2> QED
    BY <2>1, TaskMoves
<1>6. BalancedBy(s, NoEvent, NoEvent)
  <2>1. /\ Calling(s)' = Calling(s)
        /\ Deciding(s)' = Deciding(s)
    BY <1>1, <1>5, TaskIs, NoDeliveryIs DEF PlacedAs, Calling, Deciding, IsDeciding
  <2>2. /\ Opened(s)' = Opened(s) /\ Ended(s)' = Ended(s) /\ Found(s)' = Found(s) /\ Waiting(s)' = Waiting(s)
        /\ Running(s)' = Running(s) /\ Answered(s)' = Answered(s) /\ Spare(s)' = Spare(s) /\ \A e : Sent(s, e)' = Sent(s, e)
    BY <1>1, <1>5, TaskIs, NoDeliveryIs DEF PlacedAs, Opened, Ended, Found, IsFound, Waiting, Running, Answered, IsAnswered, Spare, Sent
  <2> QED
    BY <1>1, <1>5, <2>1, <2>2, TaskIs, NoEventIs, NoDeliveryIs, SmallNumbers, AttemptsAre, SparesAre
       DEF BalancedBy, AllSpared
<1> QED
  BY <1>1, <1>2, <1>4, <1>5, <1>6, EventsBalance DEF Keeps

(* A call's stream is dropped: the call is counted.                         *)
LEMMA StreamDroppedKeeps ==
  ASSUME Typed, AllPlaced, NEW s \in Streams, StreamDropped(s)
  PROVE  Keeps(s)
<1>1. /\ llm[s] # "none" /\ delivery[s] = NoDelivery /\ llm' = [llm EXCEPT ![s] = "none"]
      /\ EmitBoth(LlmEvent(LlmOutcome(s)), NoEvent)
      /\ layer' = layer /\ extractor' = extractor /\ stream' = stream /\ delivery' = delivery /\ cards' = cards /\ begun' = begun /\ lost' = lost
  BY DEF StreamDropped, Emit
<1>2. LlmEvent(LlmOutcome(s)) \in Events /\ NoEvent \in Events
  BY EventsAre DEF LlmOutcome
<1>3. PlacedAs(stream[s], delivery[s], "none")
  BY <1>1, TaskIs, NoDeliveryIs DEF PlacedAs
<1>4. EmitBoth(LlmEvent(LlmOutcome(s)), NoEvent) /\ instruments' \in Counters
  BY <1>1, <1>2, BothAdd
<1>5. /\ Typed' /\ AllPlaced' /\ Alone(s)
      /\ stream'[s] = stream[s] /\ delivery'[s] = delivery[s] /\ llm'[s] = "none" /\ cards'[s] = cards[s]
  <2>1. Moves(s, stream[s], delivery[s], "none", cards[s])
    BY <1>1, <1>3, <1>4, TaskIs, NoDeliveryIs DEF Moves, Stages, Calls
  <2> QED
    BY <2>1, TaskMoves
<1>6. BalancedBy(s, LlmEvent(LlmOutcome(s)), NoEvent)
  <2>1. /\ Calling(s) = 1 /\ Calling(s)' = 0
        /\ Deciding(s) = 0 /\ Deciding(s)' = 0
    BY <1>1, <1>5, TaskIs, NoDeliveryIs DEF PlacedAs, Calling, Deciding, IsDeciding
  <2>2. /\ Opened(s)' = Opened(s) /\ Ended(s)' = Ended(s) /\ Found(s)' = Found(s) /\ Waiting(s)' = Waiting(s)
        /\ Running(s)' = Running(s) /\ Answered(s)' = Answered(s) /\ Spare(s)' = Spare(s) /\ \A e : Sent(s, e)' = Sent(s, e)
    BY <1>1, <1>5, TaskIs, NoDeliveryIs DEF PlacedAs, Opened, Ended, Found, IsFound, Waiting, Running, Answered, IsAnswered, Spare, Sent
  <2> QED
    BY <1>1, <1>5, <2>1, <2>2, TaskIs, LlmIs, NoEventIs, NoDeliveryIs, SmallNumbers, AttemptsAre, SparesAre
       DEF BalancedBy, AllSpared
<1> QED
  BY <1>1, <1>2, <1>4, <1>5, <1>6, EventsBalance DEF Keeps

(* A card is rejected.                                                      *)
LEMMA RejectKeeps ==
  ASSUME Typed, AllPlaced, NEW s \in Streams, Reject(s)
  PROVE  Keeps(s)
<1>1. /\ cards[s] > 0 /\ cards' = [cards EXCEPT ![s] = cards[s] - 1]
      /\ EmitBoth(Proposal("rejected"), NoEvent)
      /\ layer' = layer /\ extractor' = extractor /\ stream' = stream /\ delivery' = delivery /\ llm' = llm /\ begun' = begun /\ lost' = lost
  BY DEF Reject, Emit
<1>2. Proposal("rejected") \in Events /\ NoEvent \in Events
  BY EventsAre DEF States
<1>3. PlacedAs(stream[s], delivery[s], llm[s])
  BY <1>1, TaskIs, NoDeliveryIs DEF PlacedAs
<1>4. EmitBoth(Proposal("rejected"), NoEvent) /\ instruments' \in Counters
  BY <1>1, <1>2, BothAdd
<1>5. /\ Typed' /\ AllPlaced' /\ Alone(s)
      /\ stream'[s] = stream[s] /\ delivery'[s] = delivery[s] /\ llm'[s] = llm[s] /\ cards'[s] = cards[s] - 1
  <2>1. Moves(s, stream[s], delivery[s], llm[s], cards[s] - 1)
    BY <1>1, <1>3, <1>4, TaskIs, NoDeliveryIs DEF Moves, Stages, Calls
  <2> QED
    BY <2>1, TaskMoves
<1>6. BalancedBy(s, Proposal("rejected"), NoEvent)
  <2>1. /\ Deciding(s)' = Deciding(s)
    BY <1>1, <1>5, TaskIs, NoDeliveryIs DEF PlacedAs, Deciding, IsDeciding
  <2>2. /\ Opened(s)' = Opened(s) /\ Ended(s)' = Ended(s) /\ Found(s)' = Found(s) /\ Calling(s)' = Calling(s)
        /\ Waiting(s)' = Waiting(s) /\ Running(s)' = Running(s) /\ Answered(s)' = Answered(s) /\ Spare(s)' = Spare(s)
        /\ \A e : Sent(s, e)' = Sent(s, e)
    BY <1>1, <1>5, TaskIs, NoDeliveryIs DEF PlacedAs, Opened, Ended, Found, IsFound, Calling, Waiting, Running, Answered, IsAnswered, Spare, Sent
  <2> QED
    BY <1>1, <1>5, <2>1, <2>2, TaskIs, ProposalIs, NoEventIs, NoDeliveryIs, SmallNumbers, AttemptsAre, SparesAre
       DEF BalancedBy, AllSpared
<1> QED
  BY <1>1, <1>2, <1>4, <1>5, <1>6, EventsBalance DEF Keeps

(* A change of route takes the cards, and tells nothing.                    *)
LEMMA RouteChangesKeeps ==
  ASSUME Typed, AllPlaced, NEW s \in Streams, RouteChanges(s)
  PROVE  Keeps(s)
<1>1. /\ cards' = [cards EXCEPT ![s] = 0]
      /\ layer' = layer /\ extractor' = extractor /\ stream' = stream /\ delivery' = delivery /\ llm' = llm /\ instruments' = instruments /\ begun' = begun /\ lost' = lost
  BY DEF RouteChanges
<1>2. NoEvent \in Events /\ NoEvent \in Events
  BY EventsAre
<1>3. PlacedAs(stream[s], delivery[s], llm[s])
  BY <1>1, TaskIs, NoDeliveryIs DEF PlacedAs
<1>4. EmitBoth(NoEvent, NoEvent) /\ instruments' \in Counters
  BY <1>1, TaskIs, NothingEmitted
<1>5. /\ Typed' /\ AllPlaced' /\ Alone(s)
      /\ stream'[s] = stream[s] /\ delivery'[s] = delivery[s] /\ llm'[s] = llm[s] /\ cards'[s] = 0
  <2>1. Moves(s, stream[s], delivery[s], llm[s], 0)
    BY <1>1, <1>3, <1>4, TaskIs, NoDeliveryIs DEF Moves, Stages, Calls
  <2> QED
    BY <2>1, TaskMoves
<1>6. BalancedBy(s, NoEvent, NoEvent)
  <2>1. /\ Deciding(s)' = Deciding(s) /\ cards'[s] - cards[s] <= 0
    BY <1>1, <1>5, TaskIs, NoDeliveryIs DEF PlacedAs, Deciding, IsDeciding
  <2>2. /\ Opened(s)' = Opened(s) /\ Ended(s)' = Ended(s) /\ Found(s)' = Found(s) /\ Calling(s)' = Calling(s)
        /\ Waiting(s)' = Waiting(s) /\ Running(s)' = Running(s) /\ Answered(s)' = Answered(s) /\ Spare(s)' = Spare(s)
        /\ \A e : Sent(s, e)' = Sent(s, e)
    BY <1>1, <1>5, TaskIs, NoDeliveryIs DEF PlacedAs, Opened, Ended, Found, IsFound, Calling, Waiting, Running, Answered, IsAnswered, Spare, Sent
  <2>3. ToldBy(NoEvent, "executed") + ToldBy(NoEvent, "failed") + ToldBy(NoEvent, "expired") + ToldBy(NoEvent, "rejected")
          + ToldBy(NoEvent, "executed") + ToldBy(NoEvent, "failed") + ToldBy(NoEvent, "expired") + ToldBy(NoEvent, "rejected")
          + cards'[s] - cards[s] + Deciding(s)' - Deciding(s) <= ToldBy(NoEvent, "validated") + ToldBy(NoEvent, "validated")
    <3>1. cards[s] \in Nat /\ cards'[s] = 0 /\ Deciding(s) \in Int /\ \A state : ToldBy(NoEvent, state) = 0
      BY <1>5, TaskIs, NoEventIs, SmallNumbers
    <3> QED
      BY <2>1, <3>1
  <2> QED
    BY <1>1, <1>5, <2>1, <2>2, <2>3, TaskIs, NoEventIs, NoDeliveryIs, SmallNumbers, AttemptsAre, SparesAre
       DEF BalancedBy, AllSpared
<1> QED
  BY <1>1, <1>2, <1>4, <1>5, <1>6, EventsBalance DEF Keeps

(* The seams of an action are endpoints of their own.                       *)
LEMMA SeamsAre ==
  /\ 1 \in DOMAIN Seams /\ Len(Seams) \in Nat /\ DOMAIN Seams = 1 .. Len(Seams)
  /\ \A i \in DOMAIN Seams : /\ Seams[i] \in SeamNames /\ Seams[i] \in Endpoints
                             /\ Seams[i] \notin {"execute", "verify_session", "none"}
<1>1. 1 \in DOMAIN Seams /\ Len(Seams) \in Nat /\ DOMAIN Seams = 1 .. Len(Seams)
  BY ServiceAssumption
<1>2. \A i \in DOMAIN Seams : Seams[i] \in SeamNames
  BY DEF SeamNames
<1> QED
  BY <1>1, <1>2, NoDeliveryIs

SentTo(endpoint, attempt) == [at |-> "sent", endpoint |-> endpoint, attempt |-> attempt, status |-> "none"]

Sends(s, endpoint, attempt) ==
  /\ delivery' = [delivery EXCEPT ![s] = SentTo(endpoint, attempt)] /\ SentTo(endpoint, attempt) \in Deliveries
  /\ SentTo(endpoint, attempt).at = "sent" /\ SentTo(endpoint, attempt).endpoint = endpoint
  /\ SentTo(endpoint, attempt).attempt = attempt /\ SentTo(endpoint, attempt) # NoDelivery
  /\ begun' \in Begun /\ begun'.calls = begun.calls
  /\ \A e \in Endpoints : begun'.sent[e] = begun.sent[e] + (IF e = endpoint THEN 1 ELSE 0)
  /\ begun'.executions = begun.executions + (IF endpoint = "execute" /\ attempt = 1 THEN 1 ELSE 0)

(* A delivery that is sent is under way, and one more of its endpoint.      *)
LEMMA SentIs ==
  ASSUME Typed, NEW s \in Streams, NEW endpoint \in Endpoints, NEW attempt \in Nat, Deliver(s, endpoint, attempt)
  PROVE  Sends(s, endpoint, attempt)
<1>1. delivery' = [delivery EXCEPT ![s] = SentTo(endpoint, attempt)]
  BY DEF Deliver, SentTo
<1>2. /\ SentTo(endpoint, attempt).at = "sent" /\ SentTo(endpoint, attempt).endpoint = endpoint
      /\ SentTo(endpoint, attempt).attempt = attempt
  BY DEF SentTo
<1>3. SentTo(endpoint, attempt) \in Deliveries
  BY DEF SentTo, Deliveries
<1>4. SentTo(endpoint, attempt) # NoDelivery
  BY <1>2, NoDeliveryIs
<1>5. /\ begun' \in Begun /\ begun'.calls = begun.calls
      /\ \A e \in Endpoints : begun'.sent[e] = begun.sent[e] + (IF e = endpoint THEN 1 ELSE 0)
      /\ begun'.executions = begun.executions + (IF endpoint = "execute" /\ attempt = 1 THEN 1 ELSE 0)
  BY DeliverIs
<1> QED
  BY <1>1, <1>2, <1>3, <1>4, <1>5 DEF Sends

(* A task that neither verifies nor runs a session has nothing under way.   *)
LEMMA IdleIs ==
  ASSUME Typed, AllPlaced, NEW s \in Streams, stream[s] \notin {"verifying", "open"}
  PROVE  delivery[s] = NoDelivery /\ llm[s] = "none"
<1>1. delivery[s].endpoint \in Endpoints \union {"none"} /\ PlacedAs(stream[s], delivery[s], llm[s])
  BY TaskIs DEF Deliveries
<1> QED
  BY <1>1, NoDeliveryIs DEF PlacedAs

(* A stream is asked for: its session is verified, or known at once.        *)
LEMMA UpgradeRequestKeeps ==
  ASSUME Typed, AllPlaced, NEW s \in Streams, UpgradeRequest(s)
  PROVE  Keeps(s)
<1>1. CASE stream' = [stream EXCEPT ![s] = "verifying"] /\ Deliver(s, "verify_session", 1)
  <2>0. Sends(s, "verify_session", 1)
    BY <1>1, SentIs, NoDeliveryIs
  <2>1. /\ stream[s] = "none" /\ delivery[s] = NoDelivery /\ llm[s] = "none" /\ stream' = [stream EXCEPT ![s] = "verifying"]
        /\ delivery' = [delivery EXCEPT ![s] = SentTo("verify_session", 1)] /\ SentTo("verify_session", 1) \in Deliveries
        /\ SentTo("verify_session", 1).at = "sent" /\ SentTo("verify_session", 1).endpoint = "verify_session"
        /\ SentTo("verify_session", 1).attempt = 1 /\ SentTo("verify_session", 1) # NoDelivery
        /\ begun' \in Begun /\ begun'.calls = begun.calls
        /\ \A e \in Endpoints : begun'.sent[e] = begun.sent[e] + (IF e = "verify_session" THEN 1 ELSE 0)
        /\ begun'.executions = begun.executions /\ begun'.sent["execute"] = begun.sent["execute"]
        /\ layer' = layer /\ extractor' = extractor /\ llm' = llm /\ cards' = cards /\ instruments' = instruments /\ lost' = lost
    BY <1>1, <2>0, TaskIs, NoDeliveryIs, IdleIs DEF UpgradeRequest, Sends
  <2>2. NoEvent \in Events /\ NoEvent \in Events
    BY EventsAre
  <2>3. PlacedAs("verifying", SentTo("verify_session", 1), llm[s])
    BY <2>1, TaskIs, NoDeliveryIs DEF PlacedAs
  <2>4. EmitBoth(NoEvent, NoEvent) /\ instruments' \in Counters
    BY <2>1, TaskIs, NothingEmitted
  <2>5. /\ Typed' /\ AllPlaced' /\ Alone(s)
        /\ stream'[s] = "verifying" /\ delivery'[s] = SentTo("verify_session", 1) /\ llm'[s] = llm[s] /\ cards'[s] = cards[s]
    <3>1. Moves(s, "verifying", SentTo("verify_session", 1), llm[s], cards[s])
      BY <2>1, <2>3, <2>4, TaskIs, NoDeliveryIs DEF Moves, Stages, Calls
    <3> QED
      BY <3>1, TaskMoves
  <2>6. BalancedBy(s, NoEvent, NoEvent)
    <3>1. /\ Opened(s)' = Opened(s)
          /\ Ended(s)' = Ended(s)
          /\ Found(s)' = Found(s)
          /\ Waiting(s) = 0 /\ Waiting(s)' = 0
          /\ Running(s) = 0 /\ Running(s)' = 0
          /\ Deciding(s) = 0 /\ Deciding(s)' = 0
          /\ Answered(s) = 0 /\ Answered(s)' = 0
          /\ Spare(s) = 0 /\ Spare(s)' = 0
          /\ \A e : Sent(s, e) = 0 /\ Sent(s, e)' = IF e = "verify_session" THEN 1 ELSE 0
      BY <2>1, <2>5, TaskIs, NoDeliveryIs DEF PlacedAs, Opened, Ended, Found, IsFound, Waiting, Running, Deciding, IsDeciding, Answered, IsAnswered, Spare, Sent
    <3>2. /\ Calling(s)' = Calling(s)
      BY <2>1, <2>5, TaskIs, NoDeliveryIs DEF PlacedAs, Calling
    <3> QED
      BY <2>1, <2>5, <3>1, <3>2, TaskIs, NoEventIs, NoDeliveryIs, SmallNumbers, AttemptsAre, SparesAre
         DEF BalancedBy, AllSpared
  <2> QED
    BY <2>1, <2>2, <2>4, <2>5, <2>6, EventsBalance DEF Keeps
<1>2. ASSUME extractor # "verify_session", NEW at \in {"upgrading", "refused"},
             stream' = [stream EXCEPT ![s] = at], UNCHANGED <<delivery, begun>>
      PROVE  Keeps(s)
  <2>1. /\ stream[s] = "none" /\ delivery[s] = NoDelivery /\ llm[s] = "none" /\ extractor # "verify_session" /\ stream' = [stream EXCEPT ![s] = at]
        /\ layer' = layer /\ extractor' = extractor /\ delivery' = delivery /\ llm' = llm /\ cards' = cards /\ instruments' = instruments /\ begun' = begun /\ lost' = lost
    BY <1>2, IdleIs DEF UpgradeRequest
  <2>2. NoEvent \in Events /\ NoEvent \in Events
    BY EventsAre
  <2>3. PlacedAs(at, delivery[s], llm[s])
    BY <2>1, TaskIs, NoDeliveryIs DEF PlacedAs
  <2>4. EmitBoth(NoEvent, NoEvent) /\ instruments' \in Counters
    BY <2>1, TaskIs, NothingEmitted
  <2>5. /\ Typed' /\ AllPlaced' /\ Alone(s)
        /\ stream'[s] = at /\ delivery'[s] = delivery[s] /\ llm'[s] = llm[s] /\ cards'[s] = cards[s]
    <3>1. Moves(s, at, delivery[s], llm[s], cards[s])
      BY <2>1, <2>3, <2>4, TaskIs, NoDeliveryIs DEF Moves, Stages, Calls
    <3> QED
      BY <3>1, TaskMoves
  <2>6. BalancedBy(s, NoEvent, NoEvent)
    <3>1. /\ Opened(s)' = Opened(s)
          /\ Ended(s)' = Ended(s)
          /\ Found(s) = 0
      BY <2>1, <2>5, TaskIs, NoDeliveryIs DEF PlacedAs, Opened, Ended, Found, IsFound
    <3>2. /\ Calling(s)' = Calling(s) /\ Waiting(s)' = Waiting(s) /\ Running(s)' = Running(s) /\ Deciding(s)' = Deciding(s)
          /\ Answered(s)' = Answered(s) /\ Spare(s)' = Spare(s) /\ \A e : Sent(s, e)' = Sent(s, e)
      BY <2>1, <2>5, TaskIs, NoDeliveryIs DEF PlacedAs, Calling, Waiting, Running, Deciding, IsDeciding, Answered, IsAnswered, Spare, Sent
    <3> QED
      BY <2>1, <2>5, <3>1, <3>2, TaskIs, NoEventIs, NoDeliveryIs, SmallNumbers, AttemptsAre, SparesAre
         DEF BalancedBy, AllSpared
  <2> QED
    BY <2>1, <2>2, <2>4, <2>5, <2>6, EventsBalance DEF Keeps
<1> QED
  BY <1>1, <1>2 DEF UpgradeRequest

(* A tool call goes to its first seam, or is invalid at once.               *)
LEMMA ToolCallKeeps ==
  ASSUME Typed, AllPlaced, NEW s \in Streams, ToolCall(s)
  PROVE  Keeps(s)
<1>1. CASE Deliver(s, Seams[1], 1) /\ UNCHANGED instruments
  <2>0. Sends(s, Seams[1], 1)
    BY <1>1, SentIs, SeamsAre
  <2>1. /\ llm[s] = "streaming" /\ delivery[s] = NoDelivery
        /\ delivery' = [delivery EXCEPT ![s] = SentTo(Seams[1], 1)] /\ SentTo(Seams[1], 1) \in Deliveries
        /\ SentTo(Seams[1], 1).at = "sent" /\ SentTo(Seams[1], 1).endpoint = Seams[1]
        /\ SentTo(Seams[1], 1).attempt = 1 /\ SentTo(Seams[1], 1) # NoDelivery
        /\ begun' \in Begun /\ begun'.calls = begun.calls
        /\ \A e \in Endpoints : begun'.sent[e] = begun.sent[e] + (IF e = Seams[1] THEN 1 ELSE 0)
        /\ begun'.executions = begun.executions /\ begun'.sent["execute"] = begun.sent["execute"]
        /\ layer' = layer /\ extractor' = extractor /\ stream' = stream /\ llm' = llm /\ cards' = cards /\ instruments' = instruments /\ lost' = lost
    BY <1>1, <2>0, SeamsAre, TaskIs, NoDeliveryIs DEF ToolCall, Sends
  <2>2. NoEvent \in Events /\ NoEvent \in Events
    BY EventsAre
  <2>3. PlacedAs(stream[s], SentTo(Seams[1], 1), llm[s])
    BY <2>1, TaskIs, NoDeliveryIs, SeamsAre DEF PlacedAs
  <2>4. EmitBoth(NoEvent, NoEvent) /\ instruments' \in Counters
    BY <2>1, TaskIs, NothingEmitted
  <2>5. /\ Typed' /\ AllPlaced' /\ Alone(s)
        /\ stream'[s] = stream[s] /\ delivery'[s] = SentTo(Seams[1], 1) /\ llm'[s] = llm[s] /\ cards'[s] = cards[s]
    <3>1. Moves(s, stream[s], SentTo(Seams[1], 1), llm[s], cards[s])
      BY <2>1, <2>3, <2>4, TaskIs, NoDeliveryIs DEF Moves, Stages, Calls
    <3> QED
      BY <3>1, TaskMoves
  <2>6. BalancedBy(s, NoEvent, NoEvent)
    <3>1. /\ Waiting(s) = 0 /\ Waiting(s)' = 0
          /\ Running(s) = 0 /\ Running(s)' = 0
          /\ Deciding(s) = 0 /\ Deciding(s)' = 0
          /\ Answered(s) = 0 /\ Answered(s)' = 0
          /\ Spare(s) = 0 /\ Spare(s)' = 0
          /\ \A e \in Endpoints : Sent(s, e) = 0 /\ Sent(s, e)' = IF e = Seams[1] THEN 1 ELSE 0
      BY <2>1, <2>5, TaskIs, NoDeliveryIs, SeamsAre DEF PlacedAs, Waiting, Running, Deciding, IsDeciding, Answered, IsAnswered, Spare, Sent
    <3>2. /\ Opened(s)' = Opened(s) /\ Ended(s)' = Ended(s) /\ Found(s)' = Found(s) /\ Calling(s)' = Calling(s)
      BY <2>1, <2>5, TaskIs, NoDeliveryIs, SeamsAre DEF PlacedAs, Opened, Ended, Found, IsFound, Calling
    <3> QED
      BY <2>1, <2>5, <3>1, <3>2, TaskIs, NoEventIs, NoDeliveryIs, SmallNumbers, AttemptsAre, SparesAre
         DEF BalancedBy, AllSpared
  <2> QED
    BY <2>1, <2>2, <2>4, <2>5, <2>6, EventsBalance DEF Keeps
<1>2. CASE Emit(Proposal("invalid")) /\ UNCHANGED <<delivery, begun>>
  <2>1. /\ EmitBoth(Proposal("invalid"), NoEvent)
        /\ layer' = layer /\ extractor' = extractor /\ stream' = stream /\ delivery' = delivery /\ llm' = llm /\ cards' = cards /\ begun' = begun /\ lost' = lost
    BY <1>2 DEF ToolCall, Emit
  <2>2. Proposal("invalid") \in Events /\ NoEvent \in Events
    BY EventsAre DEF States
  <2>3. PlacedAs(stream[s], delivery[s], llm[s])
    BY <2>1, TaskIs, NoDeliveryIs DEF PlacedAs
  <2>4. EmitBoth(Proposal("invalid"), NoEvent) /\ instruments' \in Counters
    BY <2>1, <2>2, BothAdd
  <2>5. /\ Typed' /\ AllPlaced' /\ Alone(s)
        /\ stream'[s] = stream[s] /\ delivery'[s] = delivery[s] /\ llm'[s] = llm[s] /\ cards'[s] = cards[s]
    <3>1. Moves(s, stream[s], delivery[s], llm[s], cards[s])
      BY <2>1, <2>3, <2>4, TaskIs, NoDeliveryIs DEF Moves, Stages, Calls
    <3> QED
      BY <3>1, TaskMoves
  <2>6. BalancedBy(s, Proposal("invalid"), NoEvent)
    <3>1. /\ Deciding(s)' = Deciding(s)
      BY <2>1, <2>5, TaskIs, NoDeliveryIs DEF PlacedAs, Deciding, IsDeciding
    <3>2. /\ Opened(s)' = Opened(s) /\ Ended(s)' = Ended(s) /\ Found(s)' = Found(s) /\ Calling(s)' = Calling(s)
          /\ Waiting(s)' = Waiting(s) /\ Running(s)' = Running(s) /\ Answered(s)' = Answered(s) /\ Spare(s)' = Spare(s)
          /\ \A e : Sent(s, e)' = Sent(s, e)
      BY <2>1, <2>5, TaskIs, NoDeliveryIs DEF PlacedAs, Opened, Ended, Found, IsFound, Calling, Waiting, Running, Answered, IsAnswered, Spare, Sent
    <3> QED
      BY <2>1, <2>5, <3>1, <3>2, TaskIs, ProposalIs, NoEventIs, NoDeliveryIs, SmallNumbers, AttemptsAre, SparesAre
         DEF BalancedBy, AllSpared
  <2> QED
    BY <2>1, <2>2, <2>4, <2>5, <2>6, EventsBalance DEF Keeps
<1> QED
  BY <1>1, <1>2 DEF ToolCall

(* A confirmed card is validated at the host, or expires at once.           *)
LEMMA ConfirmKeeps ==
  ASSUME Typed, AllPlaced, NEW s \in Streams, Confirm(s)
  PROVE  Keeps(s)
<1>1. CASE Deliver(s, Seams[1], 1) /\ UNCHANGED instruments
  <2>0. Sends(s, Seams[1], 1)
    BY <1>1, SentIs, SeamsAre
  <2>1. /\ delivery[s] = NoDelivery /\ llm[s] = "none" /\ stream[s] = "open" /\ cards[s] > 0
        /\ cards' = [cards EXCEPT ![s] = cards[s] - 1]
        /\ delivery' = [delivery EXCEPT ![s] = SentTo(Seams[1], 1)] /\ SentTo(Seams[1], 1) \in Deliveries
        /\ SentTo(Seams[1], 1).at = "sent" /\ SentTo(Seams[1], 1).endpoint = Seams[1]
        /\ SentTo(Seams[1], 1).attempt = 1 /\ SentTo(Seams[1], 1) # NoDelivery
        /\ begun' \in Begun /\ begun'.calls = begun.calls
        /\ \A e \in Endpoints : begun'.sent[e] = begun.sent[e] + (IF e = Seams[1] THEN 1 ELSE 0)
        /\ begun'.executions = begun.executions /\ begun'.sent["execute"] = begun.sent["execute"]
        /\ layer' = layer /\ extractor' = extractor /\ stream' = stream /\ llm' = llm /\ instruments' = instruments /\ lost' = lost
    BY <1>1, <2>0, SeamsAre, TaskIs, NoDeliveryIs DEF Confirm, Reading, Sends
  <2>2. NoEvent \in Events /\ NoEvent \in Events
    BY EventsAre
  <2>3. PlacedAs(stream[s], SentTo(Seams[1], 1), llm[s])
    BY <2>1, TaskIs, NoDeliveryIs, SeamsAre DEF PlacedAs
  <2>4. EmitBoth(NoEvent, NoEvent) /\ instruments' \in Counters
    BY <2>1, TaskIs, NothingEmitted
  <2>5. /\ Typed' /\ AllPlaced' /\ Alone(s)
        /\ stream'[s] = stream[s] /\ delivery'[s] = SentTo(Seams[1], 1) /\ llm'[s] = llm[s] /\ cards'[s] = cards[s] - 1
    <3>1. Moves(s, stream[s], SentTo(Seams[1], 1), llm[s], cards[s] - 1)
      BY <2>1, <2>3, <2>4, TaskIs, NoDeliveryIs DEF Moves, Stages, Calls
    <3> QED
      BY <3>1, TaskMoves
  <2>6. BalancedBy(s, NoEvent, NoEvent)
    <3>1. /\ Waiting(s) = 0 /\ Waiting(s)' = 0
          /\ Running(s) = 0 /\ Running(s)' = 0
          /\ Deciding(s) = 0 /\ Deciding(s)' = 1
          /\ Answered(s) = 0 /\ Answered(s)' = 0
          /\ Spare(s) = 0 /\ Spare(s)' = 0
          /\ \A e \in Endpoints : Sent(s, e) = 0 /\ Sent(s, e)' = IF e = Seams[1] THEN 1 ELSE 0
      BY <2>1, <2>5, TaskIs, NoDeliveryIs, SeamsAre DEF PlacedAs, Waiting, Running, Deciding, IsDeciding, Answered, IsAnswered, Spare, Sent
    <3>2. /\ Opened(s)' = Opened(s) /\ Ended(s)' = Ended(s) /\ Found(s)' = Found(s) /\ Calling(s)' = Calling(s)
      BY <2>1, <2>5, TaskIs, NoDeliveryIs, SeamsAre DEF PlacedAs, Opened, Ended, Found, IsFound, Calling
    <3> QED
      BY <2>1, <2>5, <3>1, <3>2, TaskIs, NoEventIs, NoDeliveryIs, SmallNumbers, AttemptsAre, SparesAre
         DEF BalancedBy, AllSpared
  <2> QED
    BY <2>1, <2>2, <2>4, <2>5, <2>6, EventsBalance DEF Keeps
<1>2. CASE Emit(Proposal("expired")) /\ UNCHANGED <<delivery, begun>>
  <2>1. /\ cards[s] > 0 /\ cards' = [cards EXCEPT ![s] = cards[s] - 1]
        /\ EmitBoth(Proposal("expired"), NoEvent)
        /\ layer' = layer /\ extractor' = extractor /\ stream' = stream /\ delivery' = delivery /\ llm' = llm /\ begun' = begun /\ lost' = lost
    BY <1>2 DEF Confirm, Emit
  <2>2. Proposal("expired") \in Events /\ NoEvent \in Events
    BY EventsAre DEF States
  <2>3. PlacedAs(stream[s], delivery[s], llm[s])
    BY <2>1, TaskIs, NoDeliveryIs DEF PlacedAs
  <2>4. EmitBoth(Proposal("expired"), NoEvent) /\ instruments' \in Counters
    BY <2>1, <2>2, BothAdd
  <2>5. /\ Typed' /\ AllPlaced' /\ Alone(s)
        /\ stream'[s] = stream[s] /\ delivery'[s] = delivery[s] /\ llm'[s] = llm[s] /\ cards'[s] = cards[s] - 1
    <3>1. Moves(s, stream[s], delivery[s], llm[s], cards[s] - 1)
      BY <2>1, <2>3, <2>4, TaskIs, NoDeliveryIs DEF Moves, Stages, Calls
    <3> QED
      BY <3>1, TaskMoves
  <2>6. BalancedBy(s, Proposal("expired"), NoEvent)
    <3>1. /\ Deciding(s)' = Deciding(s)
      BY <2>1, <2>5, TaskIs, NoDeliveryIs DEF PlacedAs, Deciding, IsDeciding
    <3>2. /\ Opened(s)' = Opened(s) /\ Ended(s)' = Ended(s) /\ Found(s)' = Found(s) /\ Calling(s)' = Calling(s)
          /\ Waiting(s)' = Waiting(s) /\ Running(s)' = Running(s) /\ Answered(s)' = Answered(s) /\ Spare(s)' = Spare(s)
          /\ \A e : Sent(s, e)' = Sent(s, e)
      BY <2>1, <2>5, TaskIs, NoDeliveryIs DEF PlacedAs, Opened, Ended, Found, IsFound, Calling, Waiting, Running, Answered, IsAnswered, Spare, Sent
    <3> QED
      BY <2>1, <2>5, <3>1, <3>2, TaskIs, ProposalIs, NoEventIs, NoDeliveryIs, SmallNumbers, AttemptsAre, SparesAre
         DEF BalancedBy, AllSpared
  <2> QED
    BY <2>1, <2>2, <2>4, <2>5, <2>6, EventsBalance DEF Keeps
<1> QED
  BY <1>1, <1>2 DEF Confirm

(* An attempt more: no execution more.                                      *)
LEMMA RetryKeeps ==
  ASSUME Typed, AllPlaced, NEW s \in Streams, Retry(s)
  PROVE  Keeps(s)
<1> DEFINE again == delivery[s].attempt + 1
<1>0. /\ delivery[s].at = "backoff" /\ delivery[s].endpoint = "execute" /\ llm[s] = "none" /\ stream[s] = "open"
      /\ delivery[s].attempt \in Nat /\ delivery[s].attempt >= 1 /\ delivery[s].attempt < Attempts
      /\ Deliver(s, "execute", again) /\ again \in Nat /\ again # 1 /\ again = delivery[s].attempt + 1
  BY TaskIs DEF Retry, PlacedAs, Deliveries
<1> HIDE DEF again
<1>00. Sends(s, "execute", again)
  BY <1>0, SentIs, NoDeliveryIs
<1>1. /\ delivery[s].at = "backoff" /\ delivery[s].endpoint = "execute" /\ llm[s] = "none" /\ stream[s] = "open"
      /\ delivery[s].attempt \in Nat /\ delivery[s].attempt >= 1 /\ delivery[s].attempt < Attempts
      /\ delivery' = [delivery EXCEPT ![s] = SentTo("execute", again)] /\ SentTo("execute", again) \in Deliveries
      /\ SentTo("execute", again).at = "sent" /\ SentTo("execute", again).endpoint = "execute"
      /\ SentTo("execute", again).attempt = again /\ SentTo("execute", again) # NoDelivery
      /\ begun' \in Begun /\ begun'.calls = begun.calls
      /\ \A e \in Endpoints : begun'.sent[e] = begun.sent[e] + (IF e = "execute" THEN 1 ELSE 0)
      /\ begun'.executions = begun.executions /\ begun'.sent["execute"] = begun.sent["execute"] + 1
      /\ layer' = layer /\ extractor' = extractor /\ stream' = stream /\ llm' = llm /\ cards' = cards /\ instruments' = instruments /\ lost' = lost
  BY <1>0, <1>00, TaskIs, NoDeliveryIs DEF Retry, Sends
<1>2. NoEvent \in Events /\ NoEvent \in Events
  BY EventsAre
<1>3. PlacedAs(stream[s], SentTo("execute", again), llm[s])
  BY <1>1, TaskIs, NoDeliveryIs, <1>0, AttemptsAre DEF PlacedAs
<1>4. EmitBoth(NoEvent, NoEvent) /\ instruments' \in Counters
  BY <1>1, TaskIs, NothingEmitted
<1>5. /\ Typed' /\ AllPlaced' /\ Alone(s)
      /\ stream'[s] = stream[s] /\ delivery'[s] = SentTo("execute", again) /\ llm'[s] = llm[s] /\ cards'[s] = cards[s]
  <2>1. Moves(s, stream[s], SentTo("execute", again), llm[s], cards[s])
    BY <1>1, <1>3, <1>4, TaskIs, NoDeliveryIs DEF Moves, Stages, Calls
  <2> QED
    BY <2>1, TaskMoves
<1>6. BalancedBy(s, NoEvent, NoEvent)
  <2>1. /\ Waiting(s) = 1 /\ Waiting(s)' = 0
        /\ Running(s) = 1 /\ Running(s)' = 1
        /\ Deciding(s) = 1 /\ Deciding(s)' = 1
        /\ Answered(s) = 0 /\ Answered(s)' = 0
        /\ Spare(s)' = Spare(s)
        /\ \A e : Sent(s, e) = 0 /\ Sent(s, e)' = IF e = "execute" THEN 1 ELSE 0
    BY <1>1, <1>5, TaskIs, NoDeliveryIs, <1>0, AttemptsAre DEF PlacedAs, Waiting, Running, Deciding, IsDeciding, Answered, IsAnswered, Spare, Sent
  <2>2. /\ Opened(s)' = Opened(s) /\ Ended(s)' = Ended(s) /\ Found(s)' = Found(s) /\ Calling(s)' = Calling(s)
    BY <1>1, <1>5, TaskIs, NoDeliveryIs, <1>0, AttemptsAre DEF PlacedAs, Opened, Ended, Found, IsFound, Calling
  <2> QED
    BY <1>1, <1>5, <2>1, <2>2, TaskIs, NoEventIs, NoDeliveryIs, SmallNumbers, AttemptsAre, SparesAre
       DEF BalancedBy, AllSpared
<1> QED
  BY <1>1, <1>2, <1>4, <1>5, <1>6, EventsBalance DEF Keeps

(* The head of an answer counts the delivery; a yes to verify_session is    *)
(* counted before the session goes on.                                      *)
LEMMA HeadArrivesKeeps ==
  ASSUME Typed, AllPlaced, NEW s \in Streams, NEW status \in Statuses, HeadArrives(s, status)
  PROVE  Keeps(s)
<1> DEFINE read == [delivery[s] EXCEPT !.at = "body", !.status = status]
<1>0. /\ delivery[s].at = "sent" /\ delivery' = [delivery EXCEPT ![s] = read] /\ delivery[s] # NoDelivery
      /\ read \in Deliveries /\ read.at = "body" /\ read.endpoint = delivery[s].endpoint /\ read.attempt = delivery[s].attempt
      /\ read.status = status /\ read # NoDelivery /\ delivery[s].endpoint \in Endpoints /\ OutcomeLabel(status) \in Outcomes
      /\ status = "2xx" <=> OutcomeLabel(status) = "ok"
      /\ EmitBoth(Delivered(delivery[s].endpoint, OutcomeLabel(status)), NoEvent)
      /\ layer' = layer /\ extractor' = extractor /\ stream' = stream /\ llm' = llm /\ cards' = cards
      /\ begun' = begun /\ lost' = lost
  <2>1. /\ delivery[s].at = "sent" /\ delivery' = [delivery EXCEPT ![s] = read]
        /\ EmitBoth(Delivered(delivery[s].endpoint, OutcomeLabel(status)), NoEvent)
        /\ layer' = layer /\ extractor' = extractor /\ stream' = stream /\ llm' = llm /\ cards' = cards
        /\ begun' = begun /\ lost' = lost
    BY TaskIs DEF HeadArrives, Emit
  <2>2. delivery[s] # NoDelivery /\ delivery[s].endpoint \in Endpoints
    BY <2>1, TaskIs, NoDeliveryIs DEF PlacedAs, Deliveries
  <2>3. /\ read \in Deliveries /\ read.at = "body" /\ read.endpoint = delivery[s].endpoint
        /\ read.attempt = delivery[s].attempt /\ read.status = status
    BY TaskIs DEF Deliveries
  <2>4. OutcomeLabel(status) \in Outcomes /\ (status = "2xx" <=> OutcomeLabel(status) = "ok")
    BY ServiceAssumption DEF OutcomeLabel, Outcomes
  <2> QED
    BY <2>1, <2>2, <2>3, <2>4, NoDeliveryIs
<1> HIDE DEF read
<1>1. /\ delivery[s].at = "sent" /\ delivery' = [delivery EXCEPT ![s] = read] /\ delivery[s] # NoDelivery
      /\ read \in Deliveries /\ read.at = "body" /\ read.endpoint = delivery[s].endpoint /\ read.attempt = delivery[s].attempt
      /\ read.status = status /\ read # NoDelivery /\ delivery[s].endpoint \in Endpoints /\ OutcomeLabel(status) \in Outcomes
      /\ status = "2xx" <=> OutcomeLabel(status) = "ok"
      /\ EmitBoth(Delivered(delivery[s].endpoint, OutcomeLabel(status)), NoEvent)
      /\ layer' = layer /\ extractor' = extractor /\ stream' = stream /\ llm' = llm /\ cards' = cards /\ begun' = begun /\ lost' = lost
  BY <1>0
<1>2. Delivered(delivery[s].endpoint, OutcomeLabel(status)) \in Events /\ NoEvent \in Events
  BY <1>1, EventsAre
<1>3. PlacedAs(stream[s], read, llm[s])
  BY <1>1, TaskIs, NoDeliveryIs DEF PlacedAs
<1>4. EmitBoth(Delivered(delivery[s].endpoint, OutcomeLabel(status)), NoEvent) /\ instruments' \in Counters
  BY <1>1, <1>2, BothAdd
<1>5. /\ Typed' /\ AllPlaced' /\ Alone(s)
      /\ stream'[s] = stream[s] /\ delivery'[s] = read /\ llm'[s] = llm[s] /\ cards'[s] = cards[s]
  <2>1. Moves(s, stream[s], read, llm[s], cards[s])
    BY <1>1, <1>3, <1>4, TaskIs, NoDeliveryIs DEF Moves, Stages, Calls
  <2> QED
    BY <2>1, TaskMoves
<1>6. BalancedBy(s, Delivered(delivery[s].endpoint, OutcomeLabel(status)), NoEvent)
  <2>1. /\ Waiting(s) = 0 /\ Waiting(s)' = 0
        /\ Running(s)' = Running(s)
        /\ Deciding(s)' = Deciding(s)
        /\ Answered(s) = 0 /\ Answered(s)' = IF delivery[s].endpoint = "verify_session" /\ OutcomeLabel(status) = "ok" THEN 1 ELSE 0
        /\ Spare(s)' = Spare(s)
        /\ \A e : Sent(s, e)' = 0 /\ Sent(s, e) = IF e = delivery[s].endpoint THEN 1 ELSE 0
    BY <1>1, <1>5, TaskIs, NoDeliveryIs DEF PlacedAs, Waiting, Running, Deciding, IsDeciding, Answered, IsAnswered, Spare, Sent
  <2>2. /\ Opened(s)' = Opened(s) /\ Ended(s)' = Ended(s) /\ Found(s)' = Found(s) /\ Calling(s)' = Calling(s)
    BY <1>1, <1>5, TaskIs, NoDeliveryIs DEF PlacedAs, Opened, Ended, Found, IsFound, Calling
  <2> QED
    BY <1>1, <1>5, <2>1, <2>2, TaskIs, DeliveredIs, NoEventIs, NoDeliveryIs, SmallNumbers, AttemptsAre, SparesAre
       DEF BalancedBy, AllSpared
<1> QED
  BY <1>1, <1>2, <1>4, <1>5, <1>6, EventsBalance DEF Keeps

(* A task is dropped: what it owned tells that it is over, what it had on   *)
(* its way is lost.                                                         *)
LEMMA TaskDroppedKeeps ==
  ASSUME Typed, AllPlaced, NEW s \in Streams, TaskDropped(s)
  PROVE  Keeps(s)
<1> DEFINE gone == IF stream[s] = "open" THEN "ended" ELSE "left"
<1>0. /\ CallDropped(s) \in Events /\ SessionDropped(s) \in Events
      /\ RequestsBy(CallDropped(s)) = Calling(s) /\ ActiveBy(CallDropped(s)) = 0 /\ EndedBy(CallDropped(s)) = 0
      /\ RetriesBy(CallDropped(s)) = 0 /\ OkBy(CallDropped(s)) = 0
      /\ (\A e : CountedBy(CallDropped(s), e) = 0) /\ (\A of : ToldBy(CallDropped(s), of) = 0)
      /\ RequestsBy(SessionDropped(s)) = 0 /\ ActiveBy(SessionDropped(s)) + Opened(s) = 0 /\ EndedBy(SessionDropped(s)) = Opened(s)
      /\ RetriesBy(SessionDropped(s)) = 0 /\ OkBy(SessionDropped(s)) = 0
      /\ (\A e : CountedBy(SessionDropped(s), e) = 0) /\ (\A of : ToldBy(SessionDropped(s), of) = 0)
  <2>1. /\ CallDropped(s) \in Events
        /\ RequestsBy(CallDropped(s)) = Calling(s) /\ ActiveBy(CallDropped(s)) = 0 /\ EndedBy(CallDropped(s)) = 0
        /\ RetriesBy(CallDropped(s)) = 0 /\ OkBy(CallDropped(s)) = 0
        /\ (\A e : CountedBy(CallDropped(s), e) = 0) /\ (\A of : ToldBy(CallDropped(s), of) = 0)
    <3>1. CASE llm[s] = "none"
      BY <3>1, EventsAre, NoEventIs DEF CallDropped, Calling
    <3>2. CASE llm[s] # "none"
      <4>1. LlmOutcome(s) \in {"ok", "error"}
        BY DEF LlmOutcome
      <4> QED
        BY <3>2, <4>1, EventsAre, LlmIs DEF CallDropped, Calling
    <3> QED
      BY <3>1, <3>2
  <2>2. /\ SessionDropped(s) \in Events
        /\ RequestsBy(SessionDropped(s)) = 0 /\ ActiveBy(SessionDropped(s)) + Opened(s) = 0 /\ EndedBy(SessionDropped(s)) = Opened(s)
        /\ RetriesBy(SessionDropped(s)) = 0 /\ OkBy(SessionDropped(s)) = 0
        /\ (\A e : CountedBy(SessionDropped(s), e) = 0) /\ (\A of : ToldBy(SessionDropped(s), of) = 0)
    <3>1. CASE stream[s] = "open"
      BY <3>1, EventsAre, SessionIs DEF SessionDropped, Opened
    <3>2. CASE stream[s] # "open"
      <4>1. SessionDropped(s) = NoEvent
        BY <3>2 DEF SessionDropped
      <4>2. Opened(s) = 0
        BY <3>2 DEF Opened
      <4> QED
        BY <4>1, <4>2, EventsAre, NoEventIs
    <3> QED
      BY <3>1, <3>2
  <2> QED
    BY <2>1, <2>2
<1>00. /\ lost' \in Lost /\ lost'.waits = lost.waits + Waiting(s) /\ lost'.executions = lost.executions + Running(s)
       /\ \A e \in Endpoints : lost'.deliveries[e] = lost.deliveries[e] + Sent(s, e)
  <2> DEFINE taken == [e \in Endpoints |-> lost.deliveries[e] + Sent(s, e)]
  <2>1. lost' = [lost EXCEPT !.deliveries = taken, !.waits = lost.waits + Waiting(s), !.executions = lost.executions + Running(s)]
    BY DEF TaskDropped, Sent, Waiting, Running
  <2>2. lost.deliveries \in [Endpoints -> Nat]
    BY TaskIs DEF Lost
  <2>3. taken \in [Endpoints -> Nat] /\ \A e \in Endpoints : taken[e] = lost.deliveries[e] + Sent(s, e)
    BY <2>2 DEF Sent
  <2>4. lost.waits + Waiting(s) \in Nat /\ lost.executions + Running(s) \in Nat
    BY TaskIs DEF Waiting, Running
  <2> HIDE DEF taken
  <2> QED
    BY <2>1, <2>3, <2>4, TaskIs DEF Lost
<1>1. /\ stream' = [stream EXCEPT ![s] = gone] /\ (stream[s] = "open" => gone = "ended") /\ (stream[s] # "open" => gone = "left")
      /\ stream[s] \in {"verifying", "upgrading", "open"} /\ gone \in {"ended", "left"}
      /\ delivery' = [delivery EXCEPT ![s] = NoDelivery] /\ llm' = [llm EXCEPT ![s] = "none"]
      /\ EmitBoth(CallDropped(s), SessionDropped(s))
      /\ layer' = layer /\ extractor' = extractor /\ cards' = cards /\ begun' = begun
  BY DEF TaskDropped
<1>2. CallDropped(s) \in Events /\ SessionDropped(s) \in Events
  BY <1>0
<1>3. PlacedAs(gone, NoDelivery, "none")
  BY <1>1, TaskIs, NoDeliveryIs DEF PlacedAs
<1>4. EmitBoth(CallDropped(s), SessionDropped(s)) /\ instruments' \in Counters
  BY <1>1, <1>2, BothAdd
<1>5. /\ Typed' /\ AllPlaced' /\ Alone(s)
      /\ stream'[s] = gone /\ delivery'[s] = NoDelivery /\ llm'[s] = "none" /\ cards'[s] = cards[s]
  <2>1. Moves(s, gone, NoDelivery, "none", cards[s])
    BY <1>1, <1>3, <1>4, TaskIs, NoDeliveryIs, <1>00 DEF Moves, Stages, Calls
  <2> QED
    BY <2>1, TaskMoves
<1>6. BalancedBy(s, CallDropped(s), SessionDropped(s))
  <2>1. /\ Opened(s)' = 0
        /\ Ended(s) = 0 /\ Ended(s)' = Opened(s)
        /\ Found(s)' <= Found(s)
        /\ Calling(s)' = 0
        /\ Waiting(s)' = 0
        /\ Running(s)' = 0
        /\ Deciding(s)' = 0
        /\ Answered(s)' = 0
        /\ Spare(s)' = 0
        /\ \A e \in Endpoints : Sent(s, e)' = 0
    BY <1>1, <1>5, TaskIs, NoDeliveryIs DEF PlacedAs, Opened, Ended, Found, IsFound, Calling, Waiting, Running, Deciding, IsDeciding, Answered, IsAnswered, Spare, Sent
  <2> QED
    BY <1>1, <1>5, <2>1, TaskIs, <1>0, <1>00, NoDeliveryIs, SmallNumbers, AttemptsAre, SparesAre
       DEF BalancedBy, AllSpared
<1> QED
  BY <1>1, <1>2, <1>4, <1>5, <1>6, EventsBalance DEF Keeps

(* What is counted when a delivery ends: one that was still on its way.     *)
Counts(s, counted) ==
  /\ delivery[s].at \in {"sent", "body"} /\ counted \in Events
  /\ \A e \in Endpoints : CountedBy(counted, e) = Sent(s, e)
  /\ ActiveBy(counted) = 0 /\ EndedBy(counted) = 0 /\ RequestsBy(counted) = 0 /\ RetriesBy(counted) = 0 /\ OkBy(counted) = 0
  /\ \A of : ToldBy(counted, of) = 0

(* An answer to verify_session lets the stream in, or not.                  *)
LEMMA VerifyReturnsKeeps ==
  ASSUME Typed, AllPlaced, NEW s \in Streams, UNCHANGED <<extractor, layer>>, NEW answer, NEW counted, Counts(s, counted),
         answer = "good" => delivery[s].at = "body", VerifyReturns(s, answer, counted)
  PROVE  Keeps(s)
<1>00. /\ \A e \in Endpoints : CountedBy(counted, e) = Sent(s, e)
       /\ ActiveBy(counted) = 0 /\ EndedBy(counted) = 0 /\ RequestsBy(counted) = 0 /\ RetriesBy(counted) = 0 /\ OkBy(counted) = 0
       /\ \A of : ToldBy(counted, of) = 0
  BY DEF Counts
<1> DEFINE up == IF Verified(s, answer) THEN "upgrading" ELSE "refused"
<1>1. /\ counted \in Events /\ delivery[s].at \in {"sent", "body"}
      /\ stream' = [stream EXCEPT ![s] = up] /\ up \in {"upgrading", "refused"}
      /\ delivery[s].endpoint = "verify_session" /\ stream[s] = "verifying" /\ llm[s] = "none"
      /\ up = "upgrading" => delivery[s].at = "body" /\ delivery[s].status = "2xx"
      /\ delivery' = [delivery EXCEPT ![s] = NoDelivery]
      /\ EmitBoth(counted, NoEvent)
      /\ layer' = layer /\ extractor' = extractor /\ llm' = llm /\ cards' = cards /\ begun' = begun /\ lost' = lost
  BY TaskIs DEF VerifyReturns, Returned, Verified, Counts, PlacedAs, Emit
<1>2. counted \in Events /\ NoEvent \in Events
  BY <1>1, EventsAre
<1>3. PlacedAs(up, NoDelivery, llm[s])
  BY <1>1, TaskIs, NoDeliveryIs DEF PlacedAs
<1>4. EmitBoth(counted, NoEvent) /\ instruments' \in Counters
  BY <1>1, <1>2, BothAdd
<1>5. /\ Typed' /\ AllPlaced' /\ Alone(s)
      /\ stream'[s] = up /\ delivery'[s] = NoDelivery /\ llm'[s] = llm[s] /\ cards'[s] = cards[s]
  <2>1. Moves(s, up, NoDelivery, llm[s], cards[s])
    BY <1>1, <1>3, <1>4, TaskIs, NoDeliveryIs DEF Moves, Stages, Calls
  <2> QED
    BY <2>1, TaskMoves
<1>6. BalancedBy(s, counted, NoEvent)
  <2>1. /\ Opened(s) = 0 /\ Opened(s)' = 0
        /\ Ended(s) = 0 /\ Ended(s)' = 0
        /\ Found(s) = 0 /\ Found(s)' = (IF up = "upgrading" THEN 1 ELSE 0)
        /\ Waiting(s) = 0 /\ Waiting(s)' = 0
        /\ Running(s) = 0 /\ Running(s)' = 0
        /\ Deciding(s) = 0 /\ Deciding(s)' = 0
        /\ (up = "upgrading" => Answered(s) = 1) /\ Answered(s)' = 0
        /\ Spare(s) = 0 /\ Spare(s)' = 0
        /\ \A e \in Endpoints : Sent(s, e)' = 0
    BY <1>1, <1>5, TaskIs, NoDeliveryIs DEF PlacedAs, Opened, Ended, Found, IsFound, Waiting, Running, Deciding, IsDeciding, Answered, IsAnswered, Spare, Sent
  <2>2. /\ Calling(s)' = Calling(s)
    BY <1>1, <1>5, TaskIs, NoDeliveryIs DEF PlacedAs, Calling
  <2> QED
    BY <1>1, <1>5, <2>1, <2>2, TaskIs, <1>00, NoEventIs, NoDeliveryIs, SmallNumbers, AttemptsAre, SparesAre
       DEF BalancedBy, AllSpared
<1> QED
  BY <1>1, <1>2, <1>4, <1>5, <1>6, EventsBalance DEF Keeps

(* A seam's yes leads to the next seam.                                     *)
LEMMA NextSeamKeeps ==
  ASSUME Typed, AllPlaced, NEW s \in Streams, UNCHANGED <<extractor, layer>>, NEW counted, Counts(s, counted),
         NEW next \in DOMAIN Seams, delivery[s].endpoint \in SeamNames, Deliver(s, Seams[next], 1),
         EmitBoth(counted, NoEvent), UNCHANGED <<stream, llm, cards, lost>>
  PROVE  Keeps(s)
<1>00. /\ \A e \in Endpoints : CountedBy(counted, e) = Sent(s, e)
       /\ ActiveBy(counted) = 0 /\ EndedBy(counted) = 0 /\ RequestsBy(counted) = 0 /\ RetriesBy(counted) = 0 /\ OkBy(counted) = 0
       /\ \A of : ToldBy(counted, of) = 0
  BY DEF Counts
<1>0. Sends(s, Seams[next], 1)
  BY SentIs, SeamsAre, NoDeliveryIs
<1>1. /\ counted \in Events /\ delivery[s].at \in {"sent", "body"}
      /\ delivery[s].endpoint \in SeamNames /\ stream[s] = "open" /\ llm[s] \in {"none", "streaming"}
      /\ delivery' = [delivery EXCEPT ![s] = SentTo(Seams[next], 1)] /\ SentTo(Seams[next], 1) \in Deliveries
      /\ SentTo(Seams[next], 1).at = "sent" /\ SentTo(Seams[next], 1).endpoint = Seams[next]
      /\ SentTo(Seams[next], 1).attempt = 1 /\ SentTo(Seams[next], 1) # NoDelivery
      /\ begun' \in Begun /\ begun'.calls = begun.calls
      /\ \A e \in Endpoints : begun'.sent[e] = begun.sent[e] + (IF e = Seams[next] THEN 1 ELSE 0)
      /\ begun'.executions = begun.executions /\ begun'.sent["execute"] = begun.sent["execute"]
      /\ EmitBoth(counted, NoEvent)
      /\ layer' = layer /\ extractor' = extractor /\ stream' = stream /\ llm' = llm /\ cards' = cards /\ lost' = lost
  BY <1>0, TaskIs, NoDeliveryIs, SeamsAre DEF Sends, Counts, PlacedAs
<1>2. counted \in Events /\ NoEvent \in Events
  BY <1>1, EventsAre
<1>3. PlacedAs(stream[s], SentTo(Seams[next], 1), llm[s])
  BY <1>1, TaskIs, NoDeliveryIs, SeamsAre, AttemptsAre DEF PlacedAs
<1>4. EmitBoth(counted, NoEvent) /\ instruments' \in Counters
  BY <1>1, <1>2, BothAdd
<1>5. /\ Typed' /\ AllPlaced' /\ Alone(s)
      /\ stream'[s] = stream[s] /\ delivery'[s] = SentTo(Seams[next], 1) /\ llm'[s] = llm[s] /\ cards'[s] = cards[s]
  <2>1. Moves(s, stream[s], SentTo(Seams[next], 1), llm[s], cards[s])
    BY <1>1, <1>3, <1>4, TaskIs, NoDeliveryIs DEF Moves, Stages, Calls
  <2> QED
    BY <2>1, TaskMoves
<1>6. BalancedBy(s, counted, NoEvent)
  <2>1. /\ Waiting(s) = 0 /\ Waiting(s)' = 0
        /\ Running(s) = 0 /\ Running(s)' = 0
        /\ Deciding(s)' = Deciding(s)
        /\ Answered(s) = 0 /\ Answered(s)' = 0
        /\ Spare(s) = 0 /\ Spare(s)' = 0
        /\ \A e \in Endpoints : Sent(s, e)' = IF e = Seams[next] THEN 1 ELSE 0
    BY <1>1, <1>5, TaskIs, NoDeliveryIs, SeamsAre, AttemptsAre DEF PlacedAs, Waiting, Running, Deciding, IsDeciding, Answered, IsAnswered, Spare, Sent
  <2>2. /\ Opened(s)' = Opened(s) /\ Ended(s)' = Ended(s) /\ Found(s)' = Found(s) /\ Calling(s)' = Calling(s)
    BY <1>1, <1>5, TaskIs, NoDeliveryIs, SeamsAre, AttemptsAre DEF PlacedAs, Opened, Ended, Found, IsFound, Calling
  <2> QED
    BY <1>1, <1>5, <2>1, <2>2, TaskIs, <1>00, NoEventIs, NoDeliveryIs, SmallNumbers, AttemptsAre, SparesAre
       DEF BalancedBy, AllSpared
<1> QED
  BY <1>1, <1>2, <1>4, <1>5, <1>6, EventsBalance DEF Keeps

(* The last seam's yes for a confirmed card leads to the execution.         *)
LEMMA ExecuteKeeps ==
  ASSUME Typed, AllPlaced, NEW s \in Streams, UNCHANGED <<extractor, layer>>, NEW counted, Counts(s, counted),
         llm[s] = "none", delivery[s].endpoint \in SeamNames, Deliver(s, "execute", 1),
         EmitBoth(counted, NoEvent), UNCHANGED <<stream, llm, cards, lost>>
  PROVE  Keeps(s)
<1>00. /\ \A e \in Endpoints : CountedBy(counted, e) = Sent(s, e)
       /\ ActiveBy(counted) = 0 /\ EndedBy(counted) = 0 /\ RequestsBy(counted) = 0 /\ RetriesBy(counted) = 0 /\ OkBy(counted) = 0
       /\ \A of : ToldBy(counted, of) = 0
  BY DEF Counts
<1>0. Sends(s, "execute", 1)
  BY SentIs, SeamsAre, NoDeliveryIs
<1>1. /\ counted \in Events /\ delivery[s].at \in {"sent", "body"}
      /\ delivery[s].endpoint \in SeamNames /\ stream[s] = "open" /\ llm[s] \in {"none", "streaming"} /\ llm[s] = "none"
      /\ delivery' = [delivery EXCEPT ![s] = SentTo("execute", 1)] /\ SentTo("execute", 1) \in Deliveries
      /\ SentTo("execute", 1).at = "sent" /\ SentTo("execute", 1).endpoint = "execute"
      /\ SentTo("execute", 1).attempt = 1 /\ SentTo("execute", 1) # NoDelivery
      /\ begun' \in Begun /\ begun'.calls = begun.calls
      /\ \A e \in Endpoints : begun'.sent[e] = begun.sent[e] + (IF e = "execute" THEN 1 ELSE 0)
      /\ begun'.executions = begun.executions + 1 /\ begun'.sent["execute"] = begun.sent["execute"] + 1
      /\ EmitBoth(counted, NoEvent)
      /\ layer' = layer /\ extractor' = extractor /\ stream' = stream /\ llm' = llm /\ cards' = cards /\ lost' = lost
  BY <1>0, TaskIs, NoDeliveryIs, SeamsAre DEF Sends, Counts, PlacedAs
<1>2. counted \in Events /\ NoEvent \in Events
  BY <1>1, EventsAre
<1>3. PlacedAs(stream[s], SentTo("execute", 1), llm[s])
  BY <1>1, TaskIs, NoDeliveryIs, SeamsAre, AttemptsAre DEF PlacedAs
<1>4. EmitBoth(counted, NoEvent) /\ instruments' \in Counters
  BY <1>1, <1>2, BothAdd
<1>5. /\ Typed' /\ AllPlaced' /\ Alone(s)
      /\ stream'[s] = stream[s] /\ delivery'[s] = SentTo("execute", 1) /\ llm'[s] = llm[s] /\ cards'[s] = cards[s]
  <2>1. Moves(s, stream[s], SentTo("execute", 1), llm[s], cards[s])
    BY <1>1, <1>3, <1>4, TaskIs, NoDeliveryIs DEF Moves, Stages, Calls
  <2> QED
    BY <2>1, TaskMoves
<1>6. BalancedBy(s, counted, NoEvent)
  <2>1. /\ Waiting(s) = 0 /\ Waiting(s)' = 0
        /\ Running(s) = 0 /\ Running(s)' = 1
        /\ Deciding(s) = 1 /\ Deciding(s)' = 1
        /\ Answered(s) = 0 /\ Answered(s)' = 0
        /\ Spare(s) = 0 /\ Spare(s)' = Attempts - 1
        /\ \A e \in Endpoints : Sent(s, e)' = IF e = "execute" THEN 1 ELSE 0
    BY <1>1, <1>5, TaskIs, NoDeliveryIs, SeamsAre, AttemptsAre DEF PlacedAs, Waiting, Running, Deciding, IsDeciding, Answered, IsAnswered, Spare, Sent
  <2>2. /\ Opened(s)' = Opened(s) /\ Ended(s)' = Ended(s) /\ Found(s)' = Found(s) /\ Calling(s)' = Calling(s)
    BY <1>1, <1>5, TaskIs, NoDeliveryIs, SeamsAre, AttemptsAre DEF PlacedAs, Opened, Ended, Found, IsFound, Calling
  <2> QED
    BY <1>1, <1>5, <2>1, <2>2, TaskIs, <1>00, NoEventIs, NoDeliveryIs, SmallNumbers, AttemptsAre, SparesAre
       DEF BalancedBy, AllSpared
<1> QED
  BY <1>1, <1>2, <1>4, <1>5, <1>6, EventsBalance DEF Keeps

(* A seam's answer ends the validation: a card is shown, the proposal is    *)
(* invalid, or a confirmed card expires.                                    *)
LEMMA SeamEndsKeeps ==
  ASSUME Typed, AllPlaced, NEW s \in Streams, UNCHANGED <<extractor, layer>>, NEW counted, Counts(s, counted),
         delivery[s].endpoint \in SeamNames, Returned(s), UNCHANGED <<stream, llm, lost>>,
         NEW state \in {"validated", "invalid", "expired"}, NEW shown \in {0, 1},
         shown = 1 => state = "validated", state = "expired" <=> llm[s] = "none",
         EmitBoth(counted, Proposal(state)), cards' = [cards EXCEPT ![s] = cards[s] + shown]
  PROVE  Keeps(s)
<1>00. /\ \A e \in Endpoints : CountedBy(counted, e) = Sent(s, e)
       /\ ActiveBy(counted) = 0 /\ EndedBy(counted) = 0 /\ RequestsBy(counted) = 0 /\ RetriesBy(counted) = 0 /\ OkBy(counted) = 0
       /\ \A of : ToldBy(counted, of) = 0
  BY DEF Counts
<1>1. /\ counted \in Events /\ delivery[s].at \in {"sent", "body"}
      /\ delivery[s].endpoint \in SeamNames /\ stream[s] = "open" /\ llm[s] \in {"none", "streaming"}
      /\ state \in {"validated", "invalid", "expired"} /\ shown \in {0, 1}
      /\ shown = 1 => state = "validated"
      /\ state = "expired" <=> llm[s] = "none"
      /\ delivery' = [delivery EXCEPT ![s] = NoDelivery]
      /\ cards' = [cards EXCEPT ![s] = cards[s] + shown]
      /\ EmitBoth(counted, Proposal(state))
      /\ layer' = layer /\ extractor' = extractor /\ stream' = stream /\ llm' = llm /\ begun' = begun /\ lost' = lost
  BY TaskIs, NoDeliveryIs DEF Returned, Counts, PlacedAs
<1>2. counted \in Events /\ Proposal(state) \in Events
  BY <1>1, EventsAre DEF States
<1>3. PlacedAs(stream[s], NoDelivery, llm[s])
  BY <1>1, TaskIs, NoDeliveryIs DEF PlacedAs
<1>4. EmitBoth(counted, Proposal(state)) /\ instruments' \in Counters
  BY <1>1, <1>2, BothAdd
<1>5. /\ Typed' /\ AllPlaced' /\ Alone(s)
      /\ stream'[s] = stream[s] /\ delivery'[s] = NoDelivery /\ llm'[s] = llm[s] /\ cards'[s] = cards[s] + shown
  <2>1. Moves(s, stream[s], NoDelivery, llm[s], cards[s] + shown)
    BY <1>1, <1>3, <1>4, TaskIs, NoDeliveryIs DEF Moves, Stages, Calls
  <2> QED
    BY <2>1, TaskMoves
<1>6. BalancedBy(s, counted, Proposal(state))
  <2>1. /\ Waiting(s) = 0 /\ Waiting(s)' = 0
        /\ Running(s) = 0 /\ Running(s)' = 0
        /\ Deciding(s) = (IF state = "expired" THEN 1 ELSE 0) /\ Deciding(s)' = 0
        /\ Answered(s) = 0 /\ Answered(s)' = 0
        /\ Spare(s) = 0 /\ Spare(s)' = 0
        /\ \A e \in Endpoints : Sent(s, e)' = 0
    BY <1>1, <1>5, TaskIs, NoDeliveryIs DEF PlacedAs, Waiting, Running, Deciding, IsDeciding, Answered, IsAnswered, Spare, Sent
  <2>2. /\ Opened(s)' = Opened(s) /\ Ended(s)' = Ended(s) /\ Found(s)' = Found(s) /\ Calling(s)' = Calling(s)
    BY <1>1, <1>5, TaskIs, NoDeliveryIs DEF PlacedAs, Opened, Ended, Found, IsFound, Calling
  <2> QED
    BY <1>1, <1>5, <2>1, <2>2, TaskIs, <1>00, ProposalIs, NoDeliveryIs, SmallNumbers, AttemptsAre, SparesAre
       DEF BalancedBy, AllSpared
<1> QED
  BY <1>1, <1>2, <1>4, <1>5, <1>6, EventsBalance DEF Keeps

(* An execution is reported: its card is executed or failed.                *)
LEMMA ExecuteEndsKeeps ==
  ASSUME Typed, AllPlaced, NEW s \in Streams, UNCHANGED <<extractor, layer>>, NEW counted, Counts(s, counted),
         delivery[s].endpoint = "execute", Returned(s), UNCHANGED <<stream, llm, cards, lost>>,
         NEW state \in {"executed", "failed"}, EmitBoth(counted, Proposal(state))
  PROVE  Keeps(s)
<1>00. /\ \A e \in Endpoints : CountedBy(counted, e) = Sent(s, e)
       /\ ActiveBy(counted) = 0 /\ EndedBy(counted) = 0 /\ RequestsBy(counted) = 0 /\ RetriesBy(counted) = 0 /\ OkBy(counted) = 0
       /\ \A of : ToldBy(counted, of) = 0
  BY DEF Counts
<1>1. /\ counted \in Events /\ delivery[s].at \in {"sent", "body"}
      /\ delivery[s].endpoint = "execute" /\ stream[s] = "open" /\ llm[s] = "none"
      /\ state \in {"executed", "failed"}
      /\ delivery' = [delivery EXCEPT ![s] = NoDelivery]
      /\ EmitBoth(counted, Proposal(state))
      /\ layer' = layer /\ extractor' = extractor /\ stream' = stream /\ llm' = llm /\ cards' = cards /\ begun' = begun /\ lost' = lost
  BY TaskIs, NoDeliveryIs DEF Returned, Counts, PlacedAs
<1>2. counted \in Events /\ Proposal(state) \in Events
  BY <1>1, EventsAre DEF States
<1>3. PlacedAs(stream[s], NoDelivery, llm[s])
  BY <1>1, TaskIs, NoDeliveryIs DEF PlacedAs
<1>4. EmitBoth(counted, Proposal(state)) /\ instruments' \in Counters
  BY <1>1, <1>2, BothAdd
<1>5. /\ Typed' /\ AllPlaced' /\ Alone(s)
      /\ stream'[s] = stream[s] /\ delivery'[s] = NoDelivery /\ llm'[s] = llm[s] /\ cards'[s] = cards[s]
  <2>1. Moves(s, stream[s], NoDelivery, llm[s], cards[s])
    BY <1>1, <1>3, <1>4, TaskIs, NoDeliveryIs DEF Moves, Stages, Calls
  <2> QED
    BY <2>1, TaskMoves
<1>6. BalancedBy(s, counted, Proposal(state))
  <2>1. /\ Waiting(s) = 0 /\ Waiting(s)' = 0
        /\ Running(s) = 1 /\ Running(s)' = 0
        /\ Deciding(s) = 1 /\ Deciding(s)' = 0
        /\ Answered(s) = 0 /\ Answered(s)' = 0
        /\ Spare(s)' = 0
        /\ \A e \in Endpoints : Sent(s, e)' = 0
    BY <1>1, <1>5, TaskIs, NoDeliveryIs DEF PlacedAs, Waiting, Running, Deciding, IsDeciding, Answered, IsAnswered, Spare, Sent
  <2>2. /\ Opened(s)' = Opened(s) /\ Ended(s)' = Ended(s) /\ Found(s)' = Found(s) /\ Calling(s)' = Calling(s)
    BY <1>1, <1>5, TaskIs, NoDeliveryIs DEF PlacedAs, Opened, Ended, Found, IsFound, Calling
  <2> QED
    BY <1>1, <1>5, <2>1, <2>2, TaskIs, <1>00, ProposalIs, NoDeliveryIs, SmallNumbers, AttemptsAre, SparesAre
       DEF BalancedBy, AllSpared
<1> QED
  BY <1>1, <1>2, <1>4, <1>5, <1>6, EventsBalance DEF Keeps

(* An attempt whose outcome is unknown is a retry: the task waits.          *)
LEMMA WaitKeeps ==
  ASSUME Typed, AllPlaced, NEW s \in Streams, UNCHANGED <<extractor, layer>>, NEW counted, Counts(s, counted),
         delivery[s].endpoint = "execute", RetriesLeft(s), delivery' = [delivery EXCEPT ![s].at = "backoff"],
         UNCHANGED <<begun, stream, llm, cards, lost>>, EmitBoth(counted, DeliveryRetry)
  PROVE  Keeps(s)
<1>00. /\ \A e \in Endpoints : CountedBy(counted, e) = Sent(s, e)
       /\ ActiveBy(counted) = 0 /\ EndedBy(counted) = 0 /\ RequestsBy(counted) = 0 /\ RetriesBy(counted) = 0 /\ OkBy(counted) = 0
       /\ \A of : ToldBy(counted, of) = 0
  BY DEF Counts
<1> DEFINE wait == [delivery[s] EXCEPT !.at = "backoff"]
<1>0. /\ wait \in Deliveries /\ wait.at = "backoff" /\ wait.endpoint = delivery[s].endpoint
      /\ wait.attempt = delivery[s].attempt /\ delivery' = [delivery EXCEPT ![s] = wait]
  BY TaskIs DEF Deliveries
<1> HIDE DEF wait
<1>1. /\ counted \in Events /\ delivery[s].at \in {"sent", "body"}
      /\ delivery[s].endpoint = "execute" /\ stream[s] = "open" /\ llm[s] = "none"
      /\ wait \in Deliveries /\ wait.at = "backoff" /\ wait.endpoint = "execute" /\ wait.attempt = delivery[s].attempt
      /\ delivery[s].attempt \in Nat /\ delivery[s].attempt >= 1 /\ delivery[s].attempt < Attempts
      /\ wait # NoDelivery /\ delivery' = [delivery EXCEPT ![s] = wait]
      /\ EmitBoth(counted, DeliveryRetry)
      /\ layer' = layer /\ extractor' = extractor /\ stream' = stream /\ llm' = llm /\ cards' = cards /\ begun' = begun /\ lost' = lost
  BY <1>0, TaskIs, NoDeliveryIs DEF RetriesLeft, Counts, PlacedAs, Deliveries
<1>2. counted \in Events /\ DeliveryRetry \in Events
  BY <1>1, EventsAre
<1>3. PlacedAs(stream[s], wait, llm[s])
  BY <1>1, TaskIs, NoDeliveryIs, AttemptsAre DEF PlacedAs
<1>4. EmitBoth(counted, DeliveryRetry) /\ instruments' \in Counters
  BY <1>1, <1>2, BothAdd
<1>5. /\ Typed' /\ AllPlaced' /\ Alone(s)
      /\ stream'[s] = stream[s] /\ delivery'[s] = wait /\ llm'[s] = llm[s] /\ cards'[s] = cards[s]
  <2>1. Moves(s, stream[s], wait, llm[s], cards[s])
    BY <1>1, <1>3, <1>4, TaskIs, NoDeliveryIs DEF Moves, Stages, Calls
  <2> QED
    BY <2>1, TaskMoves
<1>6. BalancedBy(s, counted, DeliveryRetry)
  <2>1. /\ Waiting(s) = 0 /\ Waiting(s)' = 1
        /\ Running(s) = 1 /\ Running(s)' = 1
        /\ Deciding(s) = 1 /\ Deciding(s)' = 1
        /\ Answered(s) = 0 /\ Answered(s)' = 0
        /\ Spare(s) = Attempts - delivery[s].attempt /\ Spare(s)' = Attempts - delivery[s].attempt - 1
        /\ \A e \in Endpoints : Sent(s, e)' = 0
    BY <1>1, <1>5, TaskIs, NoDeliveryIs, AttemptsAre DEF PlacedAs, Waiting, Running, Deciding, IsDeciding, Answered, IsAnswered, Spare, Sent
  <2>2. /\ Opened(s)' = Opened(s) /\ Ended(s)' = Ended(s) /\ Found(s)' = Found(s) /\ Calling(s)' = Calling(s)
    BY <1>1, <1>5, TaskIs, NoDeliveryIs, AttemptsAre DEF PlacedAs, Opened, Ended, Found, IsFound, Calling
  <2> QED
    BY <1>1, <1>5, <2>1, <2>2, TaskIs, <1>00, RetryIs, NoDeliveryIs, SmallNumbers, AttemptsAre, SparesAre
       DEF BalancedBy, AllSpared
<1> QED
  BY <1>1, <1>2, <1>4, <1>5, <1>6, EventsBalance DEF Keeps

(* What the caller makes of a delivery's end keeps the balance.             *)
LEMMA CallerKeeps ==
  ASSUME Typed, AllPlaced, NEW s \in Streams, UNCHANGED <<extractor, layer>>, NEW answer, NEW counted,
         Counts(s, counted), answer = "good" => delivery[s].at = "body", CallerGoesOn(s, answer, counted)
  PROVE  Keeps(s)
<1>1. CASE VerifyReturns(s, answer, counted)
  BY <1>1, VerifyReturnsKeeps
<1>2. CASE SeamReturns(s, answer, counted)
  <2> DEFINE yes == answer = "good" /\ delivery[s].status = "2xx"
  <2> PICK at \in DOMAIN Seams :
        /\ delivery[s].endpoint = Seams[at]
        /\ IF yes /\ at < Len(Seams) THEN Deliver(s, Seams[at + 1], 1) /\ Emit(counted) /\ UNCHANGED cards
           ELSE IF yes /\ ~Proposing(s) THEN Deliver(s, "execute", 1) /\ Emit(counted) /\ UNCHANGED cards
           ELSE /\ Returned(s)
                /\ EmitBoth(counted, Proposal(IF Proposing(s) THEN IF yes THEN "validated" ELSE "invalid" ELSE "expired"))
                /\ cards' = [cards EXCEPT ![s] = @ + (IF Proposing(s) /\ yes THEN 1 ELSE 0)]
        /\ UNCHANGED <<stream, llm, lost>>
    BY <1>2 DEF SeamReturns
  <2> HIDE DEF yes
  <2>1. delivery[s].endpoint \in SeamNames
    BY SeamsAre
  <2>2. CASE yes /\ at < Len(Seams)
    <3>1. at + 1 \in DOMAIN Seams
      BY <2>2, SeamsAre
    <3>2. Deliver(s, Seams[at + 1], 1) /\ EmitBoth(counted, NoEvent) /\ UNCHANGED <<stream, llm, cards, lost>>
      BY <2>2 DEF Emit
    <3> DEFINE next == at + 1
    <3>3. next \in DOMAIN Seams /\ Deliver(s, Seams[next], 1)
      BY <3>1, <3>2
    <3> HIDE DEF next
    <3> QED
      BY <2>1, <3>2, <3>3, NextSeamKeeps
  <2>3. CASE ~(yes /\ at < Len(Seams)) /\ yes /\ ~Proposing(s)
    <3>1. Deliver(s, "execute", 1) /\ EmitBoth(counted, NoEvent) /\ UNCHANGED <<stream, llm, cards, lost>> /\ llm[s] = "none"
      BY <2>3 DEF Emit, Proposing
    <3> QED
      BY <2>1, <3>1, ExecuteKeeps
  <2>4. CASE ~(yes /\ at < Len(Seams)) /\ ~(yes /\ ~Proposing(s))
    <3> DEFINE state == IF Proposing(s) THEN IF yes THEN "validated" ELSE "invalid" ELSE "expired"
               shown == IF Proposing(s) /\ yes THEN 1 ELSE 0
    <3>1. Returned(s) /\ EmitBoth(counted, Proposal(state)) /\ cards' = [cards EXCEPT ![s] = cards[s] + shown]
      BY <2>4
    <3>2. /\ state \in {"validated", "invalid", "expired"} /\ shown \in {0, 1}
          /\ (shown = 1 => state = "validated") /\ (state = "expired" <=> llm[s] = "none")
      BY DEF Proposing
    <3>3. UNCHANGED <<stream, llm, lost>>
      OBVIOUS
    <3> HIDE DEF state, shown
    <3> QED
      BY <2>1, <3>1, <3>2, <3>3, SeamEndsKeeps
  <2> QED
    BY <2>2, <2>3, <2>4
<1>3. CASE ExecuteReturns(s, answer, counted)
  <2>1. delivery[s].endpoint = "execute" /\ UNCHANGED <<stream, llm, cards, lost>>
    BY <1>3 DEF ExecuteReturns
  <2>2. CASE answer = "unreachable"
    <3>1. /\ EmitBoth(counted, UnknownEvent(s))
          /\ IF RetriesLeft(s) THEN delivery' = [delivery EXCEPT ![s].at = "backoff"] /\ UNCHANGED begun
                               ELSE Returned(s)
      BY <1>3, <2>2 DEF ExecuteReturns
    <3>2. CASE RetriesLeft(s)
      <4>1. EmitBoth(counted, DeliveryRetry) /\ delivery' = [delivery EXCEPT ![s].at = "backoff"]
            /\ UNCHANGED <<begun, stream, llm, cards, lost>>
        BY <2>1, <3>1, <3>2 DEF UnknownEvent
      <4> QED
        BY <2>1, <3>2, <4>1, WaitKeeps
    <3>3. CASE ~RetriesLeft(s)
      <4>1. EmitBoth(counted, Proposal("failed")) /\ Returned(s)
        BY <3>1, <3>3 DEF UnknownEvent
      <4> QED
        BY <2>1, <4>1, ExecuteEndsKeeps
    <3> QED
      BY <3>2, <3>3
  <2>3. CASE answer # "unreachable"
    <3>1. PICK state \in {"executed", "failed"} : EmitBoth(counted, Proposal(state)) /\ Returned(s)
      BY <1>3, <2>3 DEF ExecuteReturns
    <3> QED
      BY <2>1, <3>1, ExecuteEndsKeeps
  <2> QED
    BY <2>2, <2>3
<1> QED
  BY <1>1, <1>2, <1>3 DEF CallerGoesOn

(* No answer: the delivery is counted as it ends.                           *)
LEMMA DeliveryUnreachableKeeps ==
  ASSUME Typed, AllPlaced, NEW s \in Streams, DeliveryUnreachable(s)
  PROVE  Keeps(s)
<1> DEFINE counted == Delivered(delivery[s].endpoint, "unreachable")
<1>1. delivery[s].at = "sent" /\ CallerGoesOn(s, "unreachable", counted) /\ UNCHANGED <<extractor, layer>>
  BY DEF DeliveryUnreachable
<1>2. delivery[s].endpoint \in Endpoints
  BY <1>1, TaskIs, NoDeliveryIs DEF PlacedAs, Deliveries
<1>3. counted \in Events
  BY <1>2, EventsAre DEF Outcomes
<1>4. \A e \in Endpoints : CountedBy(counted, e) = Sent(s, e)
  BY <1>1, DeliveredIs DEF Sent
<1>5. Counts(s, counted)
  BY <1>1, <1>3, <1>4, DeliveredIs DEF Counts
<1> HIDE DEF counted
<1> QED
  BY <1>1, <1>5, CallerKeeps

(* The body of an answer counted at its head.                               *)
LEMMA BodyReadKeeps ==
  ASSUME Typed, AllPlaced, NEW s \in Streams, NEW answer, BodyRead(s, answer)
  PROVE  Keeps(s)
<1>1. delivery[s].at = "body" /\ CallerGoesOn(s, answer, NoEvent) /\ UNCHANGED <<extractor, layer>>
  BY DEF BodyRead
<1>2. \A e \in Endpoints : CountedBy(NoEvent, e) = Sent(s, e)
  BY <1>1, NoEventIs DEF Sent
<1>3. Counts(s, NoEvent)
  BY <1>1, <1>2, NoEventIs, EventsAre DEF Counts
<1> QED
  BY <1>1, <1>3, CallerKeeps

-----------------------------------------------------------------------------
(* Every step is one of a task's and keeps the balance.                     *)
LEMMA StepKeeps ==
  ASSUME Typed, AllPlaced, Next
  PROVE  \E s \in Streams : Keeps(s)
<1> PICK s \in Streams :
      \/ UpgradeRequest(s) \/ SessionOpens(s) \/ SessionCloses(s) \/ TaskDropped(s)
      \/ \E status \in Statuses : HeadArrives(s, status)
      \/ DeliveryUnreachable(s) \/ Retry(s)
      \/ \E answer \in {"good", "bad", "unreachable"} : BodyRead(s, answer)
      \/ ModelCall(s) \/ CallRefused(s) \/ StreamOpens(s) \/ ChunkFails(s) \/ ToolCall(s) \/ StreamDropped(s)
      \/ Confirm(s) \/ Reject(s) \/ RouteChanges(s)
  BY DEF Next
<1>1. CASE UpgradeRequest(s) \/ SessionOpens(s) \/ SessionCloses(s) \/ TaskDropped(s)
  BY <1>1, UpgradeRequestKeeps, SessionOpensKeeps, SessionClosesKeeps, TaskDroppedKeeps
<1>2. CASE \E status \in Statuses : HeadArrives(s, status)
  BY <1>2, HeadArrivesKeeps
<1>3. CASE DeliveryUnreachable(s) \/ Retry(s)
  BY <1>3, DeliveryUnreachableKeeps, RetryKeeps
<1>4. CASE \E answer \in {"good", "bad", "unreachable"} : BodyRead(s, answer)
  BY <1>4, BodyReadKeeps
<1>5. CASE ModelCall(s) \/ CallRefused(s) \/ StreamOpens(s) \/ ChunkFails(s) \/ ToolCall(s) \/ StreamDropped(s)
  BY <1>5, ModelCallKeeps, CallRefusedKeeps, StreamOpensKeeps, ChunkFailsKeeps, ToolCallKeeps, StreamDroppedKeeps
<1>6. CASE Confirm(s) \/ Reject(s) \/ RouteChanges(s)
  BY <1>6, ConfirmKeeps, RejectKeeps, RouteChangesKeeps
<1> QED
  BY <1>1, <1>2, <1>3, <1>4, <1>5, <1>6

(* At the start nothing is under way and nothing is counted.                *)
LEMMA InitialSums == Init => IInv
<1> SUFFICES ASSUME Init PROVE IInv
  OBVIOUS
<1>1. /\ layer \in BOOLEAN /\ stream = [s \in Streams |-> "none"] /\ delivery = [s \in Streams |-> NoDelivery]
      /\ llm = [s \in Streams |-> "none"] /\ cards = [s \in Streams |-> 0] /\ instruments = Instruments
      /\ begun = [calls |-> 0, executions |-> 0, sent |-> [e \in Endpoints |-> 0]]
      /\ lost = [deliveries |-> [e \in Endpoints |-> 0], waits |-> 0, executions |-> 0]
  BY DEF Init
<1>2. Instruments \in Counters
  BY DEF Instruments, Counters
<1>3. Typed
  BY <1>1, <1>2, NoDeliveryIs DEF Typed, Stages, Calls, Begun, Lost
<1>4. AllPlaced
  BY <1>1, NoDeliveryIs DEF AllPlaced, Placed, PlacedAs
<1>5. \A s \in Streams : stream[s] = "none" /\ delivery[s] = NoDelivery /\ llm[s] = "none" /\ cards[s] = 0
  BY <1>1
<1>6. /\ {s \in Streams : stream[s] = "open"} = {} /\ {s \in Streams : stream[s] = "ended"} = {}
      /\ {s \in Streams : llm[s] # "none"} = {}
      /\ (\A e \in Endpoints : {s \in Awaiting("sent") : delivery[s].endpoint = e} = {})
      /\ Awaiting("backoff") = {} /\ Executing = {}
      /\ {s \in Streams : IsDeciding(s)} = {} /\ {s \in Streams : IsFound(s)} = {} /\ {s \in Streams : IsAnswered(s)} = {}
  BY <1>5, NoDeliveryIs DEF Awaiting, Executing, IsDeciding, IsFound, IsAnswered
<1>7. Units(cards) = {} /\ Units(Spares) = {}
  <2>1. \A s \in Streams : Spares[s] = 0
    BY <1>5, NoDeliveryIs DEF Spares, Spare
  <2> QED
    BY <1>5, <2>1 DEF Units
<1>8. IsFiniteSet({}) /\ Cardinality({}) = 0
  BY FS_EmptySet
<1>9. Finite
  BY <1>6, <1>7, <1>8 DEF Finite
<1>10. /\ instruments.sessions_active = 0 /\ instruments.session_duration = 0 /\ instruments.llm_duration = 0
       /\ instruments.execute_retries = 0 /\ instruments.llm_requests["ok"] = 0 /\ instruments.llm_requests["error"] = 0
       /\ \A state \in States : Told(state) = 0
       /\ \A e \in Endpoints : Counted(e) = 0 /\ instruments.delivery_duration[e] = 0
       /\ instruments.deliveries[<<"verify_session", "ok">>] = 0
  <2>1. /\ instruments.sessions_active = 0 /\ instruments.session_duration = 0 /\ instruments.llm_duration = 0
        /\ instruments.execute_retries = 0 /\ instruments.llm_requests["ok"] = 0 /\ instruments.llm_requests["error"] = 0
    BY <1>1 DEF Instruments
  <2>2. \A state \in States : Told(state) = 0
    BY <1>1 DEF Instruments, Told
  <2>3. \A e \in Endpoints : \A out \in Outcomes : instruments.deliveries[<<e, out>>] = 0
    BY <1>1 DEF Instruments
  <2>4. \A e \in Endpoints : Counted(e) = 0 /\ instruments.delivery_duration[e] = 0
    <3>1. \A e \in Endpoints : instruments.delivery_duration[e] = 0
      BY <1>1 DEF Instruments
    <3>2. ASSUME NEW e \in Endpoints PROVE Counted(e) = 0
      <4>1. /\ instruments.deliveries[<<e, "ok">>] = 0 /\ instruments.deliveries[<<e, "status_4xx">>] = 0
            /\ instruments.deliveries[<<e, "status_5xx">>] = 0 /\ instruments.deliveries[<<e, "status_other">>] = 0
            /\ instruments.deliveries[<<e, "unreachable">>] = 0
        BY <2>3 DEF Outcomes
      <4> QED
        BY <4>1 DEF Counted
    <3> QED
      BY <3>1, <3>2
  <2>5. instruments.deliveries[<<"verify_session", "ok">>] = 0
    BY <2>3, NoDeliveryIs DEF Outcomes
  <2> QED
    BY <2>1, <2>2, <2>4, <2>5
<1>11. /\ begun.calls = 0 /\ begun.executions = 0 /\ lost.waits = 0 /\ lost.executions = 0
       /\ \A e \in Endpoints : begun.sent[e] = 0 /\ lost.deliveries[e] = 0
  BY <1>1
<1>12. Told("executed") = 0 /\ Told("failed") = 0 /\ Told("expired") = 0 /\ Told("rejected") = 0 /\ Told("validated") = 0
  BY <1>10 DEF States
<1>13. GaugeTellsSessions /\ CallsCounted
  <2>1. /\ Cardinality({s \in Streams : stream[s] = "open"}) = 0
        /\ Cardinality({s \in Streams : stream[s] = "ended"}) = 0
        /\ Cardinality({s \in Streams : llm[s] # "none"}) = 0
    BY <1>6, <1>8
  <2>2. GaugeTellsSessions
    BY <1>10, <2>1 DEF GaugeTellsSessions
  <2>3. CallsCounted
    BY <1>10, <1>11, <2>1 DEF CallsCounted
  <2> QED
    BY <2>2, <2>3
<1>14. DeliveriesCounted
  <2>1. ASSUME NEW e \in Endpoints
        PROVE  /\ Counted(e) + Cardinality({s \in Awaiting("sent") : delivery[s].endpoint = e}) + lost.deliveries[e] = begun.sent[e]
               /\ instruments.delivery_duration[e] = Counted(e)
    <3>1. Cardinality({s \in Awaiting("sent") : delivery[s].endpoint = e}) = 0
      BY <1>6, <1>8
    <3>2. Counted(e) = 0 /\ instruments.delivery_duration[e] = 0 /\ begun.sent[e] = 0 /\ lost.deliveries[e] = 0
      BY <1>10, <1>11
    <3> QED
      BY <3>1, <3>2
  <2> QED
    BY <2>1 DEF DeliveriesCounted
<1>15. Exact
  <2>1. Cardinality(Awaiting("backoff")) = 0 /\ Cardinality(Executing) = 0
    BY <1>6, <1>8
  <2>2. begun.sent["execute"] = 0
    BY <1>11, NoDeliveryIs
  <2>3. begun.executions + instruments.execute_retries = begun.sent["execute"] + Cardinality(Awaiting("backoff")) + lost.waits
    BY <1>10, <1>11, <2>1, <2>2
  <2>4. Told("executed") + Told("failed") + Cardinality(Executing) + lost.executions = begun.executions
    BY <1>11, <1>12, <2>1
  <2> QED
    BY <1>13, <1>14, <2>3, <2>4 DEF Exact
<1>16. Bounded
  <2>1. (Attempts - 1) * begun.executions = 0
    BY <1>11, AttemptsAre
  <2>2. Decisions = 0
    BY <1>12 DEF Decisions
  <2> QED
    BY <1>6, <1>7, <1>8, <1>10, <1>12, <2>1, <2>2 DEF Bounded
<1> QED
  BY <1>3, <1>4, <1>9, <1>15, <1>16 DEF IInv

(* Every step keeps the sums.                                               *)
LEMMA SumsKept == IInv /\ [Next]_vars => IInv'
<1> SUFFICES ASSUME IInv, [Next]_vars PROVE IInv'
  OBVIOUS
<1>1. Typed /\ AllPlaced /\ Finite /\ Exact /\ Bounded
  BY DEF IInv
<1>2. CASE Next
  <2>1. PICK s \in Streams : Keeps(s)
    BY <1>1, <1>2, StepKeeps
  <2>2. Typed' /\ AllPlaced' /\ Alone(s) /\ Balanced(s)
    BY <2>1 DEF Keeps
  <2>3. Finite' /\ Exact' /\ Bounded'
    BY <1>1, <2>2, BalanceKeeps
  <2> QED
    BY <2>2, <2>3 DEF IInv
<1>3. CASE UNCHANGED vars
  BY <1>3 DEF vars, IInv, Typed, AllPlaced, Placed, Finite, Exact, Bounded, Awaiting, Executing, IsDeciding, IsFound, IsAnswered,
     Spares, Spare, Waiting, Units, GaugeTellsSessions, CallsCounted, DeliveriesCounted, Counted, Told, Decisions
<1> QED
  BY <1>2, <1>3

(* The sums say what the instruments promise.                               *)
LEMMA SumsTell == IInv => InstrumentsAreTrue
<1> SUFFICES ASSUME IInv PROVE InstrumentsAreTrue
  OBVIOUS
<1>1. Typed /\ Finite /\ Exact /\ Bounded
  BY DEF IInv
<1>2. /\ Cardinality(Units(Spares)) \in Nat /\ Cardinality(Units(cards)) \in Nat
      /\ Cardinality({s \in Streams : IsDeciding(s)}) \in Nat
      /\ Cardinality({s \in Streams : IsFound(s)}) \in Nat /\ Cardinality({s \in Streams : IsAnswered(s)}) \in Nat
  BY <1>1, FS_CardinalityType DEF Finite
<1>3. /\ instruments.execute_retries \in Nat /\ (Attempts - 1) * begun.executions \in Nat /\ Decisions \in Nat
      /\ Told("validated") \in Nat /\ instruments.deliveries[<<"verify_session", "ok">>] \in Nat
  BY <1>1, NumbersAre, NoDeliveryIs DEF States, Outcomes
<1>4. RetriesCounted
  <2>1. layer => /\ begun.executions + instruments.execute_retries =
                      begun.sent["execute"] + Cardinality(Awaiting("backoff")) + lost.waits
                 /\ instruments.execute_retries + Cardinality(Units(Spares)) <= (Attempts - 1) * begun.executions
    BY <1>1 DEF Exact, Bounded
  <2> DEFINE most == (Attempts - 1) * begun.executions
  <2>2. layer => instruments.execute_retries <= most
    <3> HIDE DEF most
    <3> QED
      BY <1>2, <1>3, <2>1 DEF most
  <2> QED
    BY <2>1, <2>2 DEF RetriesCounted
<1>5. ExecutionsReported
  <2>1. layer => Decisions <= Told("validated")
    <3>1. layer => Decisions + Cardinality(Units(cards)) + Cardinality({s \in Streams : IsDeciding(s)}) <= Told("validated")
      BY <1>1 DEF Bounded
    <3> QED
      BY <1>2, <1>3, <3>1
  <2>2. layer => Told("executed") + Told("failed") + Cardinality(Executing) + lost.executions = begun.executions
    BY <1>1 DEF Exact
  <2> QED
    BY <2>1, <2>2 DEF ExecutionsReported, Decisions, Told
<1>6. SessionsWereVerified
  <2>1. layer /\ extractor = "verify_session" =>
          Cardinality({s \in Streams : IsFound(s)}) + Cardinality({s \in Streams : IsAnswered(s)})
            <= instruments.deliveries[<<"verify_session", "ok">>]
    BY <1>1 DEF Bounded
  <2>2. layer /\ extractor = "verify_session" =>
          Cardinality({s \in Streams : IsFound(s)}) <= instruments.deliveries[<<"verify_session", "ok">>]
    BY <1>2, <1>3, <2>1
  <2> QED
    BY <2>2 DEF SessionsWereVerified, IsFound
<1> QED
  BY <1>1, <1>4, <1>5, <1>6 DEF Exact, InstrumentsAreTrue

(* The sums of what the tasks have under way are, at every state, what the  *)
(* history and the instruments leave open.                                  *)
THEOREM SumsHold == Spec => []IInv
BY InitialSums, SumsKept, PTL DEF Spec

(* What the instruments say is what the service did, for any number of      *)
(* streams, whatever tasks are dropped (SessionSpan, LlmSpan, deliver and   *)
(* MetricsLayer of telemetry.rs and webhook.rs).                            *)
THEOREM InstrumentsTrue == Spec => []InstrumentsAreTrue
BY SumsHold, SumsTell, PTL

=============================================================================
