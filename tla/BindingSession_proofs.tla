------------------------ MODULE BindingSession_proofs ------------------------
(***************************************************************************)
(* A session behind a binding, for any number of calls and events. Of the  *)
(* calls made, the first ones were begun and the queue holds the rest      *)
(* without a gap; a worker that panicked takes its queue along, so this    *)
(* holds for its successor too. A refused session is never in a turn.      *)
(***************************************************************************)
EXTENDS BindingSession, SequenceTheorems, TLAPS

Events == CallIds \X Nat

Places == {"idle", "driving", "execute", "dry_run", "authorize", "resolve", "slots"}

Types ==
  /\ binding \in {"node", "python"}
  /\ frames \in Seq(Frames) /\ Len(frames) <= MaxCalls
  /\ queue \in Seq(Nat) /\ handled \in Seq(Nat)
  /\ worker \in {"none", "running", "panicked"}
  /\ pump \in [initialized : BOOLEAN, closed : BOOLEAN]
  /\ closedBy \in Nat
  /\ turn \in [call : Nat, at : Places, asked : BOOLEAN]
  /\ emits \in [CallIds -> Nat]
  /\ sink \in [CallIds -> Seq(Events)] /\ got \in [CallIds -> Seq(Events)]

(* How many of the calls were begun.                                        *)
Begun == Len(frames) - Len(queue)

(* The queue holds the calls not begun, in order, and none of them emitted. *)
Waiting ==
  /\ Begun \in Nat
  /\ \A i \in 1 .. Len(queue) : queue[i] = Begun + i
  /\ \A k \in CallIds : k > Begun => emits[k] = 0

(* The pump took begun calls in order; all but the one in its turn ended.   *)
Taken ==
  /\ turn # Idle => turn.call \in 1 .. Begun
  /\ \A i \in 1 .. Len(handled) :
       /\ handled[i] \in 1 .. Begun
       /\ \A j \in 1 .. Len(handled) : i < j => handled[i] < handled[j]
       /\ handled[i] \in ended \/ (turn # Idle /\ i = Len(handled) /\ handled[i] = turn.call)

(* The events of call k that follow its n-th.                               *)
Follows(s, k, n) == \A i \in 1 .. Len(s) : s[i] = <<k, n + i>>

(* What the host saw of a call and what waits in its sink.                  *)
Sinks ==
  \A k \in CallIds :
    /\ Follows(got[k], k, 0) /\ Follows(sink[k], k, Len(got[k]))
    /\ k \notin abandoned => Len(got[k]) + Len(sink[k]) = emits[k]

(* A pump is refused before it is initialized, and a worker that is gone    *)
(* was neither refused nor is it in a turn.                                 *)
Refusals ==
  /\ ClosedIsFinal
  /\ closedBy <= Begun
  /\ pump.closed => ~pump.initialized
  /\ worker # "running" => closedBy = 0 /\ turn = Idle

IInv == Types /\ Waiting /\ Taken /\ Sinks /\ Refusals
-----------------------------------------------------------------------------
(* A sequence's next element, without saying of which set.                  *)
LEMMA AppendIs ==
  ASSUME NEW S, NEW s \in Seq(S), NEW x \in S
  PROVE  /\ Append(s, x) \in Seq(S) /\ Len(Append(s, x)) = Len(s) + 1
         /\ \A i \in 1 .. Len(s) : Append(s, x)[i] = s[i]
         /\ Append(s, x)[Len(s) + 1] = x
BY AppendProperties

(* The first of a queue, and the rest.                                      *)
LEMMA TailIs ==
  ASSUME NEW S, NEW s \in Seq(S), s # <<>>
  PROVE  /\ Head(s) = s[1] /\ Head(s) \in S /\ Len(s) \in Nat /\ Len(s) >= 1
         /\ Tail(s) \in Seq(S) /\ Len(Tail(s)) = Len(s) - 1
         /\ \A i \in 1 .. Len(Tail(s)) : Tail(s)[i] = s[i + 1]
OBVIOUS

(* An event emitted into a call's sink is its next.                         *)
LEMMA EmitsKeeps ==
  ASSUME Types, Sinks, NEW k \in CallIds, Emits(k)
  PROVE  /\ emits' = [emits EXCEPT ![k] = emits[k] + 1] /\ emits' \in [CallIds -> Nat]
         /\ sink' \in [CallIds -> Seq(Events)]
         /\ UNCHANGED <<got, settled, abandoned, socket>> /\ Sinks'
<1>1. /\ emits' = [emits EXCEPT ![k] = emits[k] + 1] /\ emits \in [CallIds -> Nat]
      /\ UNCHANGED <<got, settled, abandoned, socket>>
      /\ sink' = IF k \in abandoned THEN sink
                 ELSE [sink EXCEPT ![k] = Append(sink[k], <<k, emits[k] + 1>>)]
  BY DEF Emits, SinkOf, Types
<1>2. sink \in [CallIds -> Seq(Events)] /\ got \in [CallIds -> Seq(Events)]
  BY DEF Types
<1> DEFINE new == <<k, emits[k] + 1>>
<1>3. new \in Events
  BY <1>1 DEF Events
<1>4. /\ Append(sink[k], new) \in Seq(Events) /\ Len(Append(sink[k], new)) = Len(sink[k]) + 1
      /\ \A i \in 1 .. Len(sink[k]) : Append(sink[k], new)[i] = sink[k][i]
      /\ Append(sink[k], new)[Len(sink[k]) + 1] = new
  BY <1>2, <1>3, AppendIs
<1> HIDE DEF new
<1>5. emits' \in [CallIds -> Nat] /\ sink' \in [CallIds -> Seq(Events)]
  <2>1. emits[k] + 1 \in Nat
    BY <1>1
  <2>2. emits' \in [CallIds -> Nat]
    BY <1>1, <2>1
  <2>3. sink' = IF k \in abandoned THEN sink ELSE [sink EXCEPT ![k] = Append(sink[k], new)]
    BY <1>1 DEF new
  <2>4. sink' \in [CallIds -> Seq(Events)]
    BY <1>2, <1>4, <2>3
  <2> QED
    BY <2>2, <2>4
<1>6. ASSUME NEW f \in CallIds, sink'[f] = sink[f], f \notin abandoned => emits'[f] = emits[f]
      PROVE  /\ Follows(got'[f], f, 0) /\ Follows(sink'[f], f, Len(got'[f]))
             /\ f \notin abandoned => Len(got'[f]) + Len(sink'[f]) = emits'[f]
  <2>1. got'[f] = got[f]
    BY <1>1
  <2> QED
    BY <1>6, <2>1 DEF Sinks
<1>7. ASSUME k \notin abandoned
      PROVE  /\ Follows(got'[k], k, 0) /\ Follows(sink'[k], k, Len(got'[k]))
             /\ Len(got'[k]) + Len(sink'[k]) = emits'[k]
  <2>1. sink'[k] = Append(sink[k], new) /\ emits'[k] = emits[k] + 1 /\ got'[k] = got[k]
    BY <1>1, <1>2, <1>7 DEF new
  <2>2. got[k] \in Seq(Events) /\ sink[k] \in Seq(Events)
    BY <1>2
  <2>3. Len(got[k]) \in Nat /\ Len(sink[k]) \in Nat
    BY <2>2, LenProperties
  <2>4. /\ Follows(got[k], k, 0) /\ Follows(sink[k], k, Len(got[k]))
        /\ emits[k] = Len(got[k]) + Len(sink[k])
    BY <1>7 DEF Sinks
  <2>5. emits[k] + 1 = Len(got[k]) + (Len(sink[k]) + 1)
    <3> DEFINE seen == Len(got[k])
               waits == Len(sink[k])
    <3>1. seen \in Nat /\ waits \in Nat /\ emits[k] = seen + waits
      BY <2>3, <2>4
    <3> HIDE DEF seen, waits
    <3>2. emits[k] + 1 = seen + (waits + 1)
      BY <3>1
    <3> QED
      BY <3>2 DEF seen, waits
  <2>6. Follows(Append(sink[k], new), k, Len(got[k]))
    <3>1. new = <<k, Len(got[k]) + (Len(sink[k]) + 1)>>
      BY <2>5 DEF new
    <3>2. \A i \in 1 .. Len(sink[k]) : Append(sink[k], new)[i] = <<k, Len(got[k]) + i>>
      BY <1>4, <2>4 DEF Follows
    <3>3. Append(sink[k], new)[Len(sink[k]) + 1] = <<k, Len(got[k]) + (Len(sink[k]) + 1)>>
      BY <1>4, <3>1
    <3>4. \A i \in 1 .. Len(sink[k]) + 1 : i \in 1 .. Len(sink[k]) \/ i = Len(sink[k]) + 1
      BY <2>3
    <3> HIDE DEF new
    <3> QED
      BY <1>4, <3>2, <3>3, <3>4 DEF Follows
  <2> QED
    BY <1>4, <2>1, <2>4, <2>5, <2>6
<1>8. Sinks'
  <2>1. ASSUME NEW f \in CallIds, f # k \/ k \in abandoned
        PROVE  sink'[f] = sink[f] /\ (f \notin abandoned => emits'[f] = emits[f])
    BY <1>1, <1>2, <2>1
  <2>2. \A f \in CallIds :
          /\ Follows(got'[f], f, 0) /\ Follows(sink'[f], f, Len(got'[f]))
          /\ f \notin abandoned => Len(got'[f]) + Len(sink'[f]) = emits'[f]
    BY <1>6, <1>7, <2>1
  <2> QED
    BY <1>1, <2>2 DEF Sinks, Follows
<1> QED
  BY <1>1, <1>5, <1>8

-----------------------------------------------------------------------------
(* No call was made at the start.                                           *)
LEMMA IInvInit == Init => IInv
<1> SUFFICES ASSUME Init
             PROVE  IInv
  OBVIOUS
<1> USE DEF Init
<1>1. frames = <<>> /\ queue = <<>> /\ handled = <<>> /\ Len(queue) = 0 /\ Len(frames) = 0
  OBVIOUS
<1>2. Types
  BY BindingAssumption DEF Types, Idle, FramePump, Places, Events
<1>3. Begun = 0
  BY <1>1 DEF Begun
<1>4. Waiting /\ Taken
  BY <1>1, <1>3 DEF Waiting, Taken
<1>5. Sinks
  <2>1. \A k \in CallIds : got[k] = <<>> /\ sink[k] = <<>> /\ emits[k] = 0
    OBVIOUS
  <2> QED
    BY <2>1 DEF Sinks, Follows
<1>6. Refusals
  BY <1>3 DEF Refusals, ClosedIsFinal, Idle, FramePump
<1> QED
  BY <1>2, <1>4, <1>5, <1>6 DEF IInv

(* A call is queued; a new worker's pump was refused as little as the old.  *)
LEMMA HandleKeeps ==
  ASSUME IInv, NEW f \in Frames, Handle(f)
  PROVE  IInv'
<1> USE DEF IInv
<1>1. /\ frames' = Append(frames, f) /\ queue' = Append(queue, Len(frames) + 1)
      /\ worker' = "running" /\ pump' = IF worker = "running" THEN pump ELSE FramePump
      /\ Len(frames) < MaxCalls
      /\ UNCHANGED <<binding, closedBy, turn, handled, ended, emits, sink, got, settled, abandoned, socket>>
  BY DEF Handle, outVars
<1>2. /\ frames \in Seq(Frames) /\ queue \in Seq(Nat)
      /\ Len(frames) \in Nat /\ Len(queue) \in Nat /\ MaxCalls \in Nat
  BY BindingAssumption DEF Types
<1>3. frames' \in Seq(Frames) /\ Len(frames') = Len(frames) + 1
  BY <1>1, <1>2, AppendIs
<1>4. /\ queue' \in Seq(Nat) /\ Len(queue') = Len(queue) + 1
      /\ \A i \in 1 .. Len(queue) : queue'[i] = queue[i]
      /\ queue'[Len(queue) + 1] = Len(frames) + 1
  <2> DEFINE n == Len(frames) + 1
  <2>1. n \in Nat /\ queue' = Append(queue, n)
    BY <1>1, <1>2
  <2> HIDE DEF n
  <2>2. /\ queue' \in Seq(Nat) /\ Len(queue') = Len(queue) + 1
        /\ \A i \in 1 .. Len(queue) : queue'[i] = queue[i]
        /\ queue'[Len(queue) + 1] = n
    BY <1>2, <2>1, AppendIs
  <2> QED
    BY <2>2 DEF n
<1>5. Begun' = Begun
  BY <1>2, <1>3, <1>4 DEF Begun
<1>6. Types'
  BY <1>1, <1>2, <1>3, <1>4 DEF Types, FramePump
<1>7. Waiting'
  <2>1. \A i \in 1 .. Len(queue') : queue'[i] = Begun' + i
    <3>1. \A i \in 1 .. Len(queue) : queue[i] = Begun + i
      BY DEF Waiting
    <3>2. queue'[Len(queue) + 1] = Begun + (Len(queue) + 1)
      BY <1>2, <1>4 DEF Begun
    <3>3. \A i \in 1 .. Len(queue) + 1 : i \in 1 .. Len(queue) \/ i = Len(queue) + 1
      BY <1>2
    <3> QED
      BY <1>4, <1>5, <3>1, <3>2, <3>3
  <2> QED
    BY <1>1, <1>5, <2>1 DEF Waiting
<1>8. Taken' /\ Sinks'
  BY <1>1, <1>5 DEF Taken, Sinks, Follows
<1>9. Refusals'
  BY <1>1, <1>5 DEF Refusals, ClosedIsFinal, FramePump
<1> QED
  BY <1>6, <1>7, <1>8, <1>9

(* Beginning the first call of the queue: ignored, refused, or a turn.      *)
LEMMA BeginKeeps ==
  ASSUME IInv, Begin
  PROVE  IInv'
<1> USE DEF IInv
<1> DEFINE k == Head(queue)
           refused == frames[k] = "event" /\ ~pump.initialized
<1>1. /\ queue # <<>> /\ turn = Idle /\ worker = "running"
      /\ queue' = Tail(queue) /\ handled' = Append(handled, k)
      /\ UNCHANGED <<binding, frames, worker>>
  BY DEF Begin, MayBegin
<1>2. /\ k = queue[1] /\ k \in Nat /\ Len(queue) \in Nat /\ Len(queue) >= 1
      /\ queue' \in Seq(Nat) /\ Len(queue') = Len(queue) - 1
      /\ \A i \in 1 .. Len(queue') : queue'[i] = queue[i + 1]
  <2>1. queue \in Seq(Nat)
    BY DEF Types
  <2> QED
    BY <1>1, <2>1, TailIs
<1>3. /\ Len(frames) \in Nat /\ MaxCalls \in Nat /\ Len(frames) <= MaxCalls
      /\ frames' = frames /\ Begun \in Nat
  BY <1>1, BindingAssumption DEF Types, Waiting
<1>4. k = Begun + 1 /\ Begun' = Begun + 1 /\ k \in CallIds
  BY <1>2, <1>3 DEF Begun, Waiting, CallIds
<1>5. /\ handled \in Seq(Nat) /\ Len(handled) \in Nat
      /\ handled' \in Seq(Nat) /\ Len(handled') = Len(handled) + 1
      /\ \A i \in 1 .. Len(handled) : handled'[i] = handled[i]
      /\ handled'[Len(handled) + 1] = k
  <2>1. handled \in Seq(Nat)
    BY DEF Types
  <2>2. Len(handled) \in Nat
    BY <2>1
  <2> HIDE DEF k
  <2> QED
    BY <1>1, <1>2, <2>1, <2>2, AppendIs
<1>6. pump \in [initialized : BOOLEAN, closed : BOOLEAN]
  BY DEF Types
<1>7. \/ /\ pump.closed /\ ended' = ended \cup {k} /\ UNCHANGED <<pump, closedBy, turn, outVars>>
      \/ /\ ~pump.closed /\ (frames[k] = "malformed" \/ refused)
         /\ ended' = ended \cup {k} /\ Emits(k) /\ pump' = [pump EXCEPT !.closed = refused]
         /\ closedBy' = (IF refused THEN k ELSE closedBy) /\ UNCHANGED turn
      \/ /\ ~pump.closed /\ pump' = [pump EXCEPT !.initialized = TRUE]
         /\ turn' = [call |-> k, at |-> "driving", asked |-> FALSE]
         /\ UNCHANGED <<ended, closedBy, outVars>>
  BY Zenon DEF Begin, Ignored
<1> HIDE DEF k
<1>8. ASSUME emits' \in [CallIds -> Nat], sink' \in [CallIds -> Seq(Events)], got' = got, Sinks',
             \A j \in CallIds : j # k => emits'[j] = emits[j],
             pump' \in [initialized : BOOLEAN, closed : BOOLEAN],
             closedBy' \in Nat, turn' \in [call : Nat, at : Places, asked : BOOLEAN],
             Refusals', ended \subseteq ended',
             \/ k \in ended' /\ turn' = Idle
             \/ turn' # Idle /\ turn'.call = k
      PROVE  IInv'
  <2>1. Types'
    BY <1>1, <1>2, <1>5, <1>8 DEF Types
  <2>2. Waiting'
    <3>1. \A i \in 1 .. Len(queue') : queue'[i] = Begun' + i
      <4>1. \A i \in 1 .. Len(queue) : queue[i] = Begun + i
        BY DEF Waiting
      <4> QED
        BY <1>2, <1>3, <1>4, <4>1
    <3>2. \A j \in CallIds : j > Begun' => emits'[j] = 0
      <4>1. \A j \in CallIds : j > Begun + 1 => j > Begun /\ j # k
        BY <1>3, <1>4 DEF CallIds
      <4> QED
        BY <1>4, <1>8, <4>1 DEF Waiting
    <3> QED
      BY <1>3, <1>4, <3>1, <3>2 DEF Waiting
  <2>3. Taken'
    <3>1. turn' # Idle => turn'.call \in 1 .. Begun'
      BY <1>3, <1>4, <1>8
    <3>2. ASSUME NEW i \in 1 .. Len(handled')
          PROVE  /\ handled'[i] \in 1 .. Begun'
                 /\ \A j \in 1 .. Len(handled') : i < j => handled'[i] < handled'[j]
                 /\ \/ handled'[i] \in ended'
                    \/ turn' # Idle /\ i = Len(handled') /\ handled'[i] = turn'.call
      <4>1. CASE i \in 1 .. Len(handled)
        <5>1. handled'[i] = handled[i] /\ handled[i] \in 1 .. Begun /\ handled[i] \in ended
          BY <1>1, <1>5, <4>1 DEF Taken
        <5>2. \A j \in 1 .. Len(handled) : i < j => handled[i] < handled[j]
          BY <4>1 DEF Taken
        <5>3. ASSUME NEW j \in 1 .. Len(handled'), i < j
              PROVE  handled'[i] < handled'[j]
          <6>1. CASE j \in 1 .. Len(handled)
            BY <1>5, <5>1, <5>2, <5>3, <6>1
          <6>2. CASE j = Len(handled) + 1
            BY <1>3, <1>4, <1>5, <5>1, <6>2
          <6> QED
            BY <1>5, <6>1, <6>2
        <5> QED
          BY <1>3, <1>4, <1>8, <5>1, <5>3
      <4>2. CASE i = Len(handled) + 1
        BY <1>3, <1>4, <1>5, <1>8, <4>2
      <4> QED
        BY <1>5, <4>1, <4>2
    <3> QED
      BY <3>1, <3>2 DEF Taken
  <2> QED
    BY <1>8, <2>1, <2>2, <2>3
<1>9. CASE pump.closed /\ ended' = ended \cup {k} /\ UNCHANGED <<pump, closedBy, turn, outVars>>
  <2>1. Refusals'
    BY <1>1, <1>3, <1>4, <1>9 DEF Refusals, ClosedIsFinal, outVars, Types
  <2>2. Sinks'
    BY <1>9 DEF Sinks, Follows, outVars
  <2> QED
    BY <1>1, <1>6, <1>8, <1>9, <2>1, <2>2 DEF outVars, Types
<1>10. CASE /\ ~pump.closed /\ (frames[k] = "malformed" \/ refused)
            /\ ended' = ended \cup {k} /\ Emits(k) /\ pump' = [pump EXCEPT !.closed = refused]
            /\ closedBy' = (IF refused THEN k ELSE closedBy) /\ UNCHANGED turn
  <2>1. /\ emits' = [emits EXCEPT ![k] = emits[k] + 1] /\ emits' \in [CallIds -> Nat]
        /\ sink' \in [CallIds -> Seq(Events)] /\ got' = got /\ Sinks'
    BY <1>4, <1>10, EmitsKeeps
  <2>2. \A j \in CallIds : j # k => emits'[j] = emits[j]
    BY <2>1 DEF Types
  <2>3. closedBy = 0
    BY <1>10 DEF Refusals, ClosedIsFinal
  <2>4. CASE refused
    <3>1. closedBy' = k /\ pump' = [initialized |-> FALSE, closed |-> TRUE] /\ turn' = Idle
      BY <1>1, <1>6, <1>10, <2>4
    <3>2. \A j \in CallIds : j > k => emits'[j] = 0
      BY <1>3, <1>4, <2>2 DEF Waiting, CallIds
    <3>3. Refusals'
      BY <1>1, <1>3, <1>4, <3>1, <3>2 DEF Refusals, ClosedIsFinal
    <3> QED
      BY <1>1, <1>2, <1>8, <1>10, <2>1, <2>2, <3>1, <3>3 DEF Types
  <2>5. CASE ~refused
    <3>1. closedBy' = 0 /\ pump' = pump /\ turn' = Idle
      BY <1>1, <1>6, <1>10, <2>3, <2>5
    <3>2. Refusals'
      BY <1>1, <1>3, <1>4, <3>1, <1>10 DEF Refusals, ClosedIsFinal
    <3> QED
      BY <1>1, <1>6, <1>8, <1>10, <2>1, <2>2, <3>1, <3>2 DEF Types
  <2> QED
    BY <2>4, <2>5
<1>11. CASE /\ ~pump.closed /\ pump' = [pump EXCEPT !.initialized = TRUE]
            /\ turn' = [call |-> k, at |-> "driving", asked |-> FALSE]
            /\ UNCHANGED <<ended, closedBy, outVars>>
  <2>1. pump' = [initialized |-> TRUE, closed |-> FALSE]
    BY <1>6, <1>11
  <2>2. turn' # Idle /\ turn'.call = k /\ turn' \in [call : Nat, at : Places, asked : BOOLEAN]
    BY <1>2, <1>11 DEF Idle, Places
  <2>3. closedBy' = 0
    BY <1>11 DEF Refusals, ClosedIsFinal
  <2>4. Refusals'
    BY <1>1, <1>3, <1>4, <2>1, <2>3 DEF Refusals, ClosedIsFinal
  <2>5. Sinks'
    BY <1>11 DEF Sinks, Follows, outVars
  <2> QED
    BY <1>8, <1>11, <2>1, <2>2, <2>3, <2>4, <2>5 DEF outVars, Types
<1> QED
  BY <1>7, <1>9, <1>10, <1>11
(* A turn emits, calls the host, hears from it or ends; only then the next  *)
(* call may begin.                                                          *)
LEMMA TurnKeeps ==
  ASSUME IInv,
         \/ TurnEmits \/ TurnEnds
         \/ \E seam \in HostSeams(binding) : HostCalled(seam)
         \/ \E does \in Deeds : HostDoes(does)
  PROVE  IInv'
<1> USE DEF IInv
<1>0. turn \in [call : Nat, at : Places, asked : BOOLEAN] /\ binding \in {"node", "python"}
  BY DEF Types
<1>1. ASSUME turn # Idle PROVE turn.call \in 1 .. Begun /\ turn.call \in CallIds
  <2>1. turn.call \in 1 .. Begun
    BY <1>1 DEF Taken
  <2>2. Len(frames) \in Nat /\ Len(queue) \in Nat /\ Len(frames) <= MaxCalls /\ MaxCalls \in Nat
    BY BindingAssumption DEF Types
  <2> QED
    BY <2>1, <2>2 DEF Begun, CallIds
<1>2. CASE TurnEmits
  <2>1. /\ turn.at = "driving" /\ Emits(turn.call)
        /\ UNCHANGED <<binding, frames, queue, worker, handled, ended, pump, closedBy, turn>>
    BY <1>2 DEF TurnEmits, callVars
  <2>2. turn # Idle
    BY <2>1 DEF Idle
  <2> DEFINE k == turn.call
  <2>3. k \in 1 .. Begun /\ k \in CallIds
    BY <1>1, <2>2
  <2>4. /\ emits' = [emits EXCEPT ![k] = emits[k] + 1] /\ emits' \in [CallIds -> Nat]
        /\ sink' \in [CallIds -> Seq(Events)] /\ got' = got /\ Sinks'
    BY <2>1, <2>3, EmitsKeeps
  <2> HIDE DEF k
  <2>5. Begun' = Begun /\ Begun \in Nat
    BY <2>1 DEF Begun, Waiting
  <2>6. Types' /\ Taken'
    BY <2>1, <2>4, <2>5 DEF Types, Taken
  <2>7. \A j \in CallIds : j > Begun => j # k
    BY <2>3, <2>5 DEF CallIds
  <2>8. Waiting'
    BY <2>1, <2>4, <2>5, <2>7 DEF Waiting, Types
  <2>9. Refusals'
    BY <2>1, <2>2, <2>5 DEF Refusals, ClosedIsFinal
  <2> QED
    BY <2>4, <2>6, <2>8, <2>9
<1>3. ASSUME UNCHANGED <<binding, frames, queue, worker, handled, pump, closedBy, emits, sink, got, abandoned>>,
             ended \subseteq ended', turn # Idle, turn' \in [call : Nat, at : Places, asked : BOOLEAN],
             \/ turn' # Idle /\ turn'.call = turn.call
             \/ turn' = Idle /\ turn.call \in ended'
      PROVE  IInv'
  <2>1. Begun' = Begun
    BY <1>3 DEF Begun
  <2>2. Types' /\ Waiting' /\ Sinks'
    BY <1>3, <2>1 DEF Types, Waiting, Sinks
  <2>3. Taken'
    BY <1>3, <2>1 DEF Taken
  <2>4. Refusals'
    BY <1>3, <2>1 DEF Refusals, ClosedIsFinal
  <2> QED
    BY <2>2, <2>3, <2>4
<1>4. ASSUME NEW at \in Places, at # "idle", NEW asked \in BOOLEAN,
             turn' = [turn EXCEPT !.at = at, !.asked = asked] \/ turn' = [turn EXCEPT !.at = at],
             turn.at # "idle",
             UNCHANGED <<binding, frames, queue, worker, handled, ended, pump, closedBy, emits, sink, got, abandoned>>
      PROVE  IInv'
  <2>1. turn' # Idle /\ turn'.call = turn.call /\ turn # Idle
    <3>1. Idle.at = "idle"
      BY DEF Idle
    <3>2. turn'.at = at /\ turn'.call = turn.call
      BY <1>0, <1>4
    <3> QED
      BY <1>4, <3>1, <3>2
  <2>2. turn' \in [call : Nat, at : Places, asked : BOOLEAN]
    BY <1>0, <1>4
  <2> QED
    BY <1>3, <1>4, <2>1, <2>2
<1>5. ASSUME NEW seam \in HostSeams(binding), HostCalled(seam)
      PROVE  IInv'
  <2>1. seam \in Places /\ seam # "idle"
    BY DEF HostSeams, Places
  <2>2. /\ turn.at = "driving" /\ turn' = [turn EXCEPT !.at = seam, !.asked = TRUE]
        /\ UNCHANGED <<binding, frames, queue, worker, handled, ended, pump, closedBy, emits, sink, got, abandoned>>
    BY <1>5 DEF HostCalled, callVars, outVars
  <2> QED
    BY <1>4, <2>1, <2>2
<1>6. ASSUME NEW does \in Deeds, HostDoes(does)
      PROVE  IInv'
  <2>1. turn.at # "idle"
    BY <1>6 DEF HostDoes, HostSeams
  <2>2. /\ turn' = [turn EXCEPT !.at = "driving"]
        /\ UNCHANGED <<binding, frames, queue, worker, handled, ended, pump, closedBy, emits, sink, got, abandoned>>
    BY <1>6 DEF HostDoes, callVars, outVars
  <2> QED
    BY <1>4, <2>1, <2>2 DEF Places
<1>7. CASE TurnEnds
  <2>1. /\ turn.at = "driving" /\ turn' = Idle /\ ended' = ended \cup {turn.call}
        /\ UNCHANGED <<binding, frames, queue, worker, handled, pump, closedBy, emits, sink, got, abandoned>>
    BY <1>7 DEF TurnEnds, outVars
  <2>2. turn # Idle /\ turn' \in [call : Nat, at : Places, asked : BOOLEAN]
    BY <2>1 DEF Idle, Places
  <2> QED
    BY <1>3, <2>1, <2>2
<1> QED
  BY <1>2, <1>5, <1>6, <1>7

(* The calls a panicked worker held all end with it.                        *)
LEMMA PanicKeeps ==
  ASSUME IInv, WorkerPanics
  PROVE  IInv'
<1> USE DEF IInv
<1>1. /\ turn # Idle /\ worker' = "panicked" /\ turn' = Idle /\ queue' = <<>>
      /\ ended' = 1 .. Len(frames)
      /\ UNCHANGED <<binding, frames, handled, pump, closedBy, emits, sink, got, abandoned>>
  BY DEF WorkerPanics, outVars
<1>2. Len(frames) \in Nat /\ Len(queue) \in Nat /\ Len(queue') = 0 /\ Begun \in Nat
  BY <1>1 DEF Types, Waiting
<1>3. Begun' = Len(frames) /\ Begun <= Len(frames)
  BY <1>1, <1>2 DEF Begun
<1>4. Types' /\ Sinks'
  BY <1>1 DEF Types, Sinks, Idle, Places
<1>5. Waiting'
  <2>1. \A k \in CallIds : k > Begun' => k > Begun
    BY <1>2, <1>3 DEF CallIds
  <2> QED
    BY <1>1, <1>2, <1>3, <2>1 DEF Waiting
<1>6. Taken'
  <2>1. \A n \in 1 .. Begun : n \in 1 .. Len(frames)
    BY <1>2, <1>3
  <2> QED
    BY <1>1, <1>3, <2>1 DEF Taken
<1>7. Refusals'
  <2>1. pump = [initialized |-> TRUE, closed |-> FALSE] /\ closedBy = 0
    BY <1>1 DEF Refusals, ClosedIsFinal
  <2> QED
    BY <1>1, <1>2, <1>3, <2>1 DEF Refusals, ClosedIsFinal
<1> QED
  BY <1>4, <1>5, <1>6, <1>7

(* What the host sees or gives up is a matter of one sink.                  *)
LEMMA HostSees ==
  ASSUME IInv, NEW k \in CallIds, Sees(k) \/ Abandons(k)
  PROVE  IInv'
<1> USE DEF IInv
<1>1. UNCHANGED <<binding, frames, queue, worker, handled, ended, pump, closedBy, turn, emits>>
  BY DEF Sees, Delivers, PromiseResolves, IteratorStops, Abandons, callVars
<1>2. sink \in [CallIds -> Seq(Events)] /\ got \in [CallIds -> Seq(Events)]
  BY DEF Types
<1>3. ASSUME sink' \in [CallIds -> Seq(Events)], got' \in [CallIds -> Seq(Events)], Sinks'
      PROVE  IInv'
  <2>1. Begun' = Begun
    BY <1>1 DEF Begun
  <2>2. Types' /\ Waiting'
    BY <1>1, <1>3, <2>1 DEF Types, Waiting
  <2>3. Taken' /\ Refusals'
    BY <1>1, <2>1 DEF Taken, Refusals, ClosedIsFinal
  <2> QED
    BY <1>3, <2>2, <2>3
<1>4. CASE Delivers(k)
  <2>1. /\ sink[k] # <<>> /\ got' = [got EXCEPT ![k] = Append(got[k], Head(sink[k]))]
        /\ sink' = [sink EXCEPT ![k] = Tail(sink[k])] /\ abandoned' = abandoned
    BY <1>4 DEF Delivers
  <2> DEFINE seen == got[k]
             waits == sink[k]
  <2>2. seen \in Seq(Events) /\ waits \in Seq(Events) /\ waits # <<>>
    BY <1>2, <2>1
  <2>3. /\ Follows(seen, k, 0) /\ Follows(waits, k, Len(seen))
        /\ k \notin abandoned => Len(seen) + Len(waits) = emits[k]
    BY DEF Sinks
  <2> HIDE DEF seen, waits
  <2>4. /\ Head(waits) = waits[1] /\ Head(waits) \in Events /\ Len(waits) \in Nat /\ Len(waits) >= 1
        /\ Tail(waits) \in Seq(Events) /\ Len(Tail(waits)) = Len(waits) - 1
        /\ \A i \in 1 .. Len(Tail(waits)) : Tail(waits)[i] = waits[i + 1]
    BY <2>2, TailIs
  <2> DEFINE now == Append(seen, Head(waits))
  <2>5. /\ now \in Seq(Events) /\ Len(seen) \in Nat /\ Len(now) = Len(seen) + 1
        /\ \A i \in 1 .. Len(seen) : now[i] = seen[i]
        /\ now[Len(seen) + 1] = Head(waits)
    BY <2>2, <2>4, AppendIs
  <2> HIDE DEF now
  <2>6. Follows(now, k, 0)
    <3>1. \A i \in 1 .. Len(now) : i \in 1 .. Len(seen) \/ i = Len(seen) + 1
      BY <2>5
    <3>2. now[Len(seen) + 1] = <<k, Len(seen) + 1>>
      BY <2>3, <2>4, <2>5 DEF Follows
    <3>3. \A i \in 1 .. Len(seen) : now[i] = <<k, 0 + i>>
      BY <2>3, <2>5 DEF Follows
    <3>4. Len(seen) + 1 = 0 + (Len(seen) + 1)
      BY <2>5
    <3> QED
      BY <3>1, <3>2, <3>3, <3>4 DEF Follows
  <2>7. Follows(Tail(waits), k, Len(now))
    <3>1. ASSUME NEW i \in 1 .. Len(Tail(waits))
          PROVE  Tail(waits)[i] = <<k, Len(now) + i>>
      <4>1. i + 1 \in 1 .. Len(waits) /\ Len(seen) + (i + 1) = Len(now) + i
        BY <2>4, <2>5
      <4>2. waits[i + 1] = <<k, Len(seen) + (i + 1)>>
        BY <2>3, <4>1 DEF Follows
      <4> QED
        BY <2>4, <4>1, <4>2
    <3> QED
      BY <3>1 DEF Follows
  <2>8. k \notin abandoned => Len(now) + Len(Tail(waits)) = emits[k]
    BY <2>3, <2>4, <2>5
  <2>9. /\ got' = [got EXCEPT ![k] = now] /\ sink' = [sink EXCEPT ![k] = Tail(waits)]
    BY <2>1 DEF seen, waits, now
  <2>10. sink' \in [CallIds -> Seq(Events)] /\ got' \in [CallIds -> Seq(Events)]
    BY <1>2, <2>4, <2>5, <2>9
  <2>11. Sinks'
    <3>1. got'[k] = now /\ sink'[k] = Tail(waits)
      BY <1>2, <2>9
    <3>2. \A f \in CallIds : f # k => got'[f] = got[f] /\ sink'[f] = sink[f]
      BY <1>2, <2>9
    <3>3. \A f \in CallIds :
            /\ Follows(got'[f], f, 0) /\ Follows(sink'[f], f, Len(got'[f]))
            /\ f \notin abandoned => Len(got'[f]) + Len(sink'[f]) = emits[f]
      BY <2>6, <2>7, <2>8, <3>1, <3>2 DEF Sinks
    <3> QED
      BY <1>1, <2>1, <3>3 DEF Sinks, Follows
  <2> QED
    BY <1>3, <2>10, <2>11
<1>5. CASE PromiseResolves(k) \/ IteratorStops(k)
  <2>1. UNCHANGED <<sink, got, abandoned>>
    BY <1>5 DEF PromiseResolves, IteratorStops
  <2> QED
    BY <1>1, <1>2, <1>3, <2>1 DEF Sinks
<1>6. CASE Abandons(k)
  <2>1. abandoned' = abandoned \cup {k} /\ sink' = [sink EXCEPT ![k] = <<>>] /\ got' = got
    BY <1>6 DEF Abandons
  <2>2. sink' \in [CallIds -> Seq(Events)]
    BY <1>2, <2>1, EmptySeq
  <2>3. Sinks'
    <3>1. sink'[k] = <<>> /\ \A f \in CallIds : f # k => sink'[f] = sink[f]
      BY <1>2, <2>1
    <3>2. ASSUME NEW f \in CallIds
          PROVE  /\ Follows(got'[f], f, 0) /\ Follows(sink'[f], f, Len(got'[f]))
                 /\ f \notin abandoned' => Len(got'[f]) + Len(sink'[f]) = emits[f]
      <4>1. CASE f = k
        <5>1. Len(<<>>) = 0 /\ 1 .. 0 = {}
          OBVIOUS
        <5>2. \A n : Follows(<<>>, k, n)
          BY <5>1 DEF Follows
        <5>3. Follows(got[k], k, 0)
          BY DEF Sinks
        <5> QED
          BY <2>1, <3>1, <4>1, <5>2, <5>3
      <4>2. CASE f # k
        BY <2>1, <3>1, <4>2 DEF Sinks
      <4> QED
        BY <4>1, <4>2
    <3> QED
      BY <1>1, <3>2 DEF Sinks, Follows
  <2> QED
    BY <1>2, <1>3, <2>1, <2>2, <2>3
<1> QED
  BY <1>4, <1>5, <1>6 DEF Sees
(* Every step keeps the invariant.                                          *)
LEMMA IInvStep ==
  ASSUME IInv, [Next]_vars
  PROVE  IInv'
<1>1. CASE UNCHANGED vars
  <2>1. Begun' = Begun
    BY <1>1 DEF vars, callVars, outVars, Begun
  <2>2. Types' /\ Waiting' /\ Taken' /\ Sinks' /\ Refusals'
    BY <1>1, <2>1
       DEF vars, callVars, outVars, IInv, Types, Waiting, Taken, Sinks, Refusals, ClosedIsFinal
  <2> QED
    BY <2>2 DEF IInv
<1> QED
  BY <1>1, HandleKeeps, BeginKeeps, TurnKeeps, PanicKeeps, HostSees DEF Next

(* The invariant holds throughout.                                          *)
LEMMA Invariant == Spec => []IInv
<1>1. IInv /\ [Next]_vars => IInv'
  BY IInvStep
<1> QED
  BY <1>1, IInvInit, PTL DEF Spec

(* Concurrent calls of handle() are taken in the order they were made, one  *)
(* at a time, and each call's sink gets its own events, in order and        *)
(* without a gap, in either binding and across a worker's panic.            *)
THEOREM CallsInOrder == Spec => []TurnsInOrder
<1>1. IInv => TurnsInOrder
  <2> SUFFICES ASSUME IInv
               PROVE  TurnsInOrder
    OBVIOUS
  <2> USE DEF IInv
  <2>1. handled \in Seq(Nat) /\ DOMAIN handled = 1 .. Len(handled) /\ Len(handled) \in Nat
    BY DEF Types
  <2>2. ASSUME NEW i \in DOMAIN handled, NEW j \in DOMAIN handled, i < j
        PROVE  handled[i] < handled[j] /\ handled[i] \in ended
    <3>1. i \in 1 .. Len(handled) /\ j \in 1 .. Len(handled) /\ i # Len(handled)
      BY <2>1, <2>2
    <3> QED
      BY <2>2, <3>1 DEF Taken
  <2>3. ASSUME NEW k \in CallIds
        PROVE  /\ got[k] = Count(k, Len(got[k]))
               /\ k \notin abandoned => got[k] \o sink[k] = Count(k, emits[k])
    <3> DEFINE seen == got[k]
               waits == sink[k]
    <3>1. seen \in Seq(Events) /\ waits \in Seq(Events)
      BY DEF Types
    <3>2. /\ Follows(seen, k, 0) /\ Follows(waits, k, Len(seen))
          /\ k \notin abandoned => Len(seen) + Len(waits) = emits[k]
      BY DEF Sinks
    <3> HIDE DEF seen, waits
    <3>3. ASSUME NEW s \in Seq(Events), Follows(s, k, 0)
          PROVE  s = Count(k, Len(s))
      <4>1. s \in [1 .. Len(s) -> Events] /\ Len(s) \in Nat
        BY LenProperties
      <4>2. \A i \in 1 .. Len(s) : 0 + i = i
        BY <4>1
      <4>3. \A i \in 1 .. Len(s) : s[i] = <<k, i>>
        BY <3>3, <4>2 DEF Follows
      <4> QED
        BY <4>1, <4>3 DEF Count
    <3> DEFINE all == seen \o waits
    <3>4. /\ all \in Seq(Events) /\ Len(all) = Len(seen) + Len(waits)
          /\ \A i \in 1 .. Len(seen) + Len(waits) :
               all[i] = IF i <= Len(seen) THEN seen[i] ELSE waits[i - Len(seen)]
      BY <3>1, ConcatProperties
    <3>5. Len(seen) \in Nat /\ Len(waits) \in Nat
      BY <3>1
    <3> HIDE DEF all
    <3>6. Follows(all, k, 0)
      <4>1. ASSUME NEW i \in 1 .. Len(all)
            PROVE  all[i] = <<k, 0 + i>>
        <5>1. CASE i <= Len(seen)
          BY <3>2, <3>4, <3>5, <5>1 DEF Follows
        <5>2. CASE ~(i <= Len(seen))
          <6>1. i - Len(seen) \in 1 .. Len(waits) /\ Len(seen) + (i - Len(seen)) = 0 + i
            BY <3>4, <3>5, <5>2
          <6>2. waits[i - Len(seen)] = <<k, Len(seen) + (i - Len(seen))>>
            BY <3>2, <6>1 DEF Follows
          <6> QED
            BY <3>4, <5>2, <6>1, <6>2
        <5> QED
          BY <5>1, <5>2
      <4> QED
        BY <4>1 DEF Follows
    <3>7. seen = Count(k, Len(seen)) /\ all = Count(k, Len(all))
      BY <3>1, <3>2, <3>3, <3>4, <3>6
    <3> QED
      BY <3>2, <3>4, <3>7 DEF all, seen, waits
  <2> QED
    BY <2>2, <2>3 DEF TurnsInOrder
<1> QED
  BY <1>1, Invariant, PTL

(* The init-first refusal of a session is final, whatever calls waited      *)
(* behind it, and the flag the host reads is that of the pump in use.       *)
THEOREM RefusalIsFinal == Spec => []ClosedIsFinal
<1>1. IInv => ClosedIsFinal
  BY DEF IInv, Refusals
<1> QED
  BY <1>1, Invariant, PTL
-----------------------------------------------------------------------------
(* What a host function does, across the boundary. *)

Words == {"null", "true", "false", "text", "preview", "rejected", "ok"}

(* Values are made of words.                                                *)
LEMMA ValueIsWords ==
  ASSUME NEW v \in Values
  PROVE  v \in Seq(Words) /\ v # <<>>
<1>1. ASSUME NEW x \in Words PROVE <<x>> \in Seq(Words) /\ <<x>> # <<>>
  OBVIOUS
<1>2. ASSUME NEW x \in Words, NEW y \in Words PROVE <<x, y>> \in Seq(Words) /\ <<x, y>> # <<>>
  OBVIOUS
<1>3. \/ \E x \in {"null", "true", "false", "text", "preview"} : v = <<x>>
      \/ v = <<"rejected", "text">>
  BY DEF Values, Marker
<1>4. /\ "rejected" \in Words /\ "text" \in Words
      /\ \A x \in {"null", "true", "false", "text", "preview"} : x \in Words
  BY DEF Words
<1> QED
  BY <1>1, <1>2, <1>3, <1>4

(* An envelope around a value is opened to that value again.                *)
LEMMA EnvelopeOpens ==
  ASSUME NEW v \in Seq(Words), v # <<>>
  PROVE  LET w == <<"ok">> \o v IN Len(w) > 1 /\ Head(w) = "ok" /\ Tail(w) = v
<1> DEFINE w == <<"ok">> \o v
<1> DEFINE ok == <<"ok">>
<1>1. ok \in Seq(Words) /\ Len(ok) = 1 /\ ok[1] = "ok"
  <2>1. "ok" \in Words
    BY DEF Words
  <2>2. ok \in Seq(Words)
    BY <2>1
  <2>3. Len(ok) = 1
    OBVIOUS
  <2>4. ok[1] = "ok"
    OBVIOUS
  <2> QED
    BY <2>2, <2>3, <2>4
<1> HIDE DEF ok
<1>2. Len(v) \in Nat /\ Len(v) >= 1
  BY EmptySeq
<1>3. /\ w \in Seq(Words) /\ Len(w) = 1 + Len(v)
      /\ \A i \in 1 .. 1 + Len(v) : w[i] = IF i <= 1 THEN ok[i] ELSE v[i - 1]
  <2>1. /\ ok \o v \in Seq(Words) /\ Len(ok \o v) = Len(ok) + Len(v)
        /\ \A i \in 1 .. Len(ok) + Len(v) : (ok \o v)[i] = IF i <= Len(ok) THEN ok[i] ELSE v[i - Len(ok)]
    BY <1>1, ConcatProperties
  <2> QED
    BY <1>1, <2>1 DEF ok
<1> HIDE DEF w
<1>4. Len(w) > 1 /\ w # <<>>
  BY <1>2, <1>3
<1>5. /\ Head(w) = w[1] /\ Tail(w) \in Seq(Words) /\ Len(Tail(w)) = Len(w) - 1
      /\ \A i \in 1 .. Len(Tail(w)) : Tail(w)[i] = w[i + 1]
  BY <1>3, <1>4, TailIs
<1>6. Head(w) = "ok"
  BY <1>1, <1>2, <1>3, <1>5
<1>7. Tail(w) = v
  <2>1. Len(Tail(w)) = Len(v)
    BY <1>2, <1>3, <1>5
  <2>2. \A i \in 1 .. Len(Tail(w)) : Tail(w)[i] = v[i]
    BY <1>2, <1>3, <1>5
  <2> QED
    BY <1>5, <2>1, <2>2, SeqEqual
<1> QED
  BY <1>4, <1>6, <1>7 DEF w

(* What a host function may do.                                             *)
LEMMA DeedIs ==
  ASSUME NEW does \in Deeds
  PROVE  \/ does.how = "returns" /\ does.value \in Values /\ does = Returns(does.value)
         \/ does.how \in {"raises Rejected", "raises", "no JSON"} /\ does.value = <<>>
<1>1. CASE \E v \in Values : does = Returns(v)
  BY <1>1 DEF Returns
<1>2. CASE does \in [how : {"raises Rejected", "raises", "no JSON"}, value : {<<>>}]
  BY <1>2
<1> QED
  BY <1>1, <1>2 DEF Deeds

(* What a handler did means the same through the wrapper's envelope and     *)
(* without it: a value, a business refusal or a failure.                    *)
Meaning(does) ==
  IF does.how = "returns" THEN Ok(does.value)
  ELSE IF does.how = "raises Rejected" THEN Rejected ELSE Internal

LEMMA HandlersAgree ==
  ASSUME NEW does \in Deeds
  PROVE  JsHandler(does) = Meaning(does) /\ PyHandler(does) = Meaning(does)
<1>1. PyHandler(does) = Meaning(does)
  BY DEF PyHandler, handler_error, Meaning
<1>2. CASE does.how = "returns" /\ does.value \in Values
  <2> DEFINE v == does.value
             w == <<"ok">> \o v
  <2>1. v \in Seq(Words) /\ v # <<>>
    BY <1>2, ValueIsWords
  <2>2. wrapHandler(does) = w
    BY <1>2 DEF wrapHandler
  <2> HIDE DEF v
  <2>3. Len(w) > 1 /\ Head(w) = "ok" /\ Tail(w) = v
    BY <2>1, EnvelopeOpens
  <2> HIDE DEF w
  <2>4. w # Marker
    <3>1. Head(Marker) = "rejected"
      BY DEF Marker
    <3> QED
      BY <2>3, <3>1
  <2>5. handler_outcome(w) = Ok(v)
    BY <2>3, <2>4 DEF handler_outcome
  <2> QED
    BY <1>1, <1>2, <2>2, <2>5 DEF JsHandler, Meaning, v
<1>3. CASE does.how = "raises Rejected"
  <2>1. wrapHandler(does) = Marker
    BY <1>3 DEF wrapHandler
  <2>2. Head(Marker) = "rejected"
    BY DEF Marker
  <2>3. handler_outcome(Marker) = Rejected
    BY <2>2 DEF handler_outcome
  <2> QED
    BY <1>1, <1>3, <2>1, <2>3 DEF JsHandler, Meaning
<1>4. CASE does.how \in {"raises", "no JSON"}
  <2>1. wrapHandler(does) = <<>>
    BY <1>4 DEF wrapHandler
  <2>2. Len(<<>>) = 0 /\ <<>> # Marker
    BY DEF Marker
  <2>3. handler_outcome(<<>>) = Internal
    BY <2>2 DEF handler_outcome
  <2> QED
    BY <1>1, <1>4, <2>1, <2>3 DEF JsHandler, Meaning
<1> QED
  BY <1>2, <1>3, <1>4, DeedIs

(* Only null and true allow, in both bindings.                              *)
LEMMA AuthorizeAgree ==
  ASSUME NEW does \in Deeds
  PROVE  /\ PyAuthz(does) = IF does \in {Returns(<<"null">>), Returns(<<"true">>)} THEN Allow ELSE Deny
         /\ JsAuthz(JsAuthorize(does)) = PyAuthz(does)
<1>1. CASE does.how = "returns" /\ does = Returns(does.value)
  <2>1. \A v : does = Returns(v) <=> does.value = v
    BY <1>1 DEF Returns
  <2>2. JsAuthorize(does) = does
    BY <1>1 DEF JsAuthorize
  <2> QED
    BY <1>1, <2>1, <2>2 DEF PyAuthz, JsAuthz
<1>2. CASE does.how \in {"raises Rejected", "raises", "no JSON"}
  <2>1. \A v : does # Returns(v)
    <3>1. \A v : Returns(v).how = "returns"
      BY DEF Returns
    <3>2. does.how # "returns"
      BY <1>2
    <3> QED
      BY <3>1, <3>2
  <2>2. \A v : Returns(<<"text">>) = Returns(v) => v = <<"text">>
    <3>1. \A v : Returns(v).value = v
      BY DEF Returns
    <3> QED
      BY <3>1
  <2>3. <<"text">> # <<"null">> /\ <<"text">> # <<"true">>
    OBVIOUS
  <2>4. JsAuthorize(does) \in {does, Returns(<<"text">>)}
    BY DEF JsAuthorize
  <2> QED
    BY <1>2, <2>1, <2>2, <2>3, <2>4 DEF PyAuthz, JsAuthz
<1> QED
  BY <1>1, <1>2, DeedIs

(* The last thing a host function did, and what the agent got.              *)
Answers ==
  \/ answer = NoAnswer
  \/ /\ answer.seam \in HostSeams(binding) /\ answer.does \in Deeds
     /\ answer.outcome = Outcome(binding, answer.seam, answer.does)

(* So the outcome of every host function is what it meant.                  *)
LEMMA OutcomeMeant ==
  ASSUME Answers, binding \in {"node", "python"}
  PROVE  HostOutcomes
<1> DEFINE does == answer.does
           seam == answer.seam
           meant == IF seam = "authorize"
                    THEN IF does \in {Returns(<<"null">>), Returns(<<"true">>)} THEN {Allow} ELSE {Deny}
                    ELSE IF does.how = "raises Rejected" /\ seam \in {"execute", "dry_run"} THEN {Rejected}
                    ELSE IF does.how # "returns" THEN {Internal, <<>>}
                    ELSE CASE seam = "execute" -> {Ok(does.value)}
                           [] seam = "dry_run" -> {Ok(does.value), Internal}
                           [] OTHER -> {does.value, <<"mapped">>, <<>>}
<1> SUFFICES ASSUME does.how # "none"
             PROVE  /\ answer.outcome \in meant
                    /\ seam \in HostSeams("node") =>
                         Outcome("node", seam, does) = Outcome("python", seam, does)
  BY DEF HostOutcomes
<1>1. does \in Deeds /\ seam \in HostSeams(binding) /\ answer.outcome = Outcome(binding, seam, does)
  BY DEF Answers, NoAnswer
<1> HIDE DEF does, seam
<1>2. /\ JsHandler(does) = Meaning(does) /\ PyHandler(does) = Meaning(does)
      /\ JsAuthz(JsAuthorize(does)) = PyAuthz(does)
      /\ PyAuthz(does) = IF does \in {Returns(<<"null">>), Returns(<<"true">>)} THEN Allow ELSE Deny
  BY <1>1, HandlersAgree, AuthorizeAgree
<1>3. /\ does.how = "returns" \/ does.how \in {"raises Rejected", "raises", "no JSON"}
      /\ \/ seam \in {"execute", "dry_run", "authorize"}
         \/ binding = "python" /\ seam \in {"resolve", "slots"}
  <2>1. does.how = "returns" \/ does.how \in {"raises Rejected", "raises", "no JSON"}
    BY <1>1, DeedIs
  <2>2. \/ seam \in {"execute", "dry_run", "authorize"}
        \/ binding = "python" /\ seam \in {"resolve", "slots"}
    BY <1>1 DEF HostSeams
  <2> QED
    BY <2>1, <2>2
<1>4. seam \in {"execute", "dry_run", "authorize"} =>
        Outcome("node", seam, does) = Outcome("python", seam, does)
  BY <1>2 DEF Outcome, JsDryRun, PyDryRun
<1>5. seam \in HostSeams("node") => seam \in {"execute", "dry_run", "authorize"}
  BY DEF HostSeams
<1>6. seam \in {"execute", "dry_run", "authorize"} => answer.outcome = Outcome("python", seam, does)
  BY <1>1, <1>4
<1>7. ASSUME does.how = "returns", seam \in {"resolve", "slots"}
       PROVE  meant = {does.value, <<"mapped">>, <<>>}
  BY <1>7
<1>8. ASSUME does.how # "returns", seam \in {"resolve", "slots"}
       PROVE  meant = {Internal, <<>>}
  BY <1>8
<1>9. ASSUME seam = "dry_run"
       PROVE  /\ does.how = "returns" => meant = {Ok(does.value), Internal}
              /\ does.how = "raises Rejected" => meant = {Rejected}
              /\ does.how \in {"raises", "no JSON"} => meant = {Internal, <<>>}
  BY <1>9
<1>10. CASE seam = "execute"
  BY <1>2, <1>3, <1>6, <1>10 DEF Outcome, Meaning
<1>11. CASE seam = "dry_run"
  <2>1. answer.outcome = Previews(Meaning(does))
    BY <1>2, <1>6, <1>11 DEF Outcome, PyDryRun
  <2>2. \A outcome : Previews(outcome) \in {outcome, Internal}
    BY DEF Previews
  <2>3. Previews(Rejected) = Rejected
    BY DEF Previews, Rejected
  <2> QED
    <3> HIDE DEF meant
    <3>1. ASSUME does.how = "returns" PROVE answer.outcome \in meant
      BY <1>11, <1>9, <2>1, <2>2, <3>1 DEF Meaning
    <3>2. ASSUME does.how = "raises Rejected" PROVE answer.outcome \in meant
      BY <1>11, <1>9, <2>1, <2>3, <3>2 DEF Meaning
    <3>3. ASSUME does.how \in {"raises", "no JSON"} PROVE answer.outcome \in meant
      BY <1>11, <1>9, <2>1, <2>2, <3>3 DEF Meaning
    <3>4. answer.outcome \in meant
      BY <1>3, <3>1, <3>2, <3>3
    <3> QED
      BY <1>4, <1>5, <3>4
<1>12. CASE seam = "authorize"
  BY <1>2, <1>6, <1>12 DEF Outcome
<1>13. CASE binding = "python" /\ seam = "resolve"
  <2>1. answer.outcome = PyContextResolver(does)
    BY <1>1, <1>13 DEF Outcome
  <2> QED
    <3>1. does = Returns(<<"null">>) => does.how = "returns"
      BY DEF Returns
    <3>2. answer.outcome = IF does = Returns(<<"null">>) THEN <<"mapped">>
                           ELSE IF does.how = "returns" THEN does.value ELSE <<>>
      BY <2>1 DEF PyContextResolver
    <3> HIDE DEF meant
    <3>3. answer.outcome \in meant
      BY <1>13, <1>7, <1>8, <3>1, <3>2
    <3> QED
      BY <1>4, <1>5, <3>3
<1>14. CASE binding = "python" /\ seam = "slots"
  <2>1. answer.outcome = PySlots(does)
    BY <1>1, <1>14 DEF Outcome
  <2>2. does # Returns(Marker) \/ does.how = "returns"
    BY DEF Returns
  <2> QED
    <3>1. answer.outcome \in {does.value, <<>>} /\ (does.how # "returns" => answer.outcome = <<>>)
      BY <2>1, <2>2 DEF PySlots
    <3> HIDE DEF meant
    <3>2. answer.outcome \in meant
      BY <1>14, <1>7, <1>8, <3>1
    <3> QED
      BY <1>4, <1>5, <3>2
<1> QED
  BY <1>3, <1>4, <1>5, <1>10, <1>11, <1>12, <1>13, <1>14

(* What a host function does means the same to the agent in both bindings,  *)
(* for every function, value and failure.                                   *)
THEOREM OutcomesAgree == Spec => []HostOutcomes
<1>1. Init => Answers
  BY DEF Init, Answers
<1>2. IInv /\ Answers /\ [Next]_vars => Answers'
  <2> SUFFICES ASSUME IInv, Answers, [Next]_vars
               PROVE  Answers'
    OBVIOUS
  <2>1. CASE UNCHANGED vars
    BY <2>1 DEF vars, Answers
  <2>2. ASSUME NEW does \in Deeds, HostDoes(does)
        PROVE  Answers'
    <3>1. /\ turn.at \in HostSeams(binding) /\ binding' = binding
          /\ answer' = [seam |-> turn.at, does |-> does, outcome |-> Outcome(binding, turn.at, does)]
      BY <2>2 DEF HostDoes
    <3> QED
      BY <3>1 DEF Answers
  <2>3. CASE answer' = NoAnswer
    BY <2>3 DEF Answers
  <2> QED
    BY <2>1, <2>2, <2>3
       DEF Next, Handle, Begin, TurnEmits, TurnEnds, WorkerPanics, HostCalled, Sees, Delivers,
           PromiseResolves, IteratorStops, Abandons
<1>3. IInv /\ Answers => HostOutcomes
  BY OutcomeMeant DEF IInv, Types
<1> QED
  BY <1>1, <1>2, <1>3, Invariant, PTL DEF Spec
=============================================================================
