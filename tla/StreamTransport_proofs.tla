------------------------ MODULE StreamTransport_proofs ------------------------
(***************************************************************************)
(* The frame loop keeps its promises for every capacity, every transport   *)
(* and every number of frames and events. The argument counts: behind      *)
(* what was delivered, the queue, the agent's channel and the reply under  *)
(* way hold the next numbers without a gap, for as long as the peer is     *)
(* connected.                                                              *)
(***************************************************************************)
EXTENDS StreamTransport, SequenceTheorems, TLAPS

(* s holds the numbers that follow n.                                       *)
Follows(s, n) == \A k \in 1 .. Len(s) : s[k] = n + k

Types ==
  /\ transport \in {"websocket", "grpc"}
  /\ up \in BOOLEAN /\ halfClosed \in BOOLEAN
  /\ inbound \in Seq(Frames)
  /\ sent \in Nat
  /\ initialized \in BOOLEAN
  /\ pump \in PumpStates
  /\ handling \in BOOLEAN
  /\ turnEvents \in Nat
  /\ alive \in BOOLEAN
  /\ produced \in Nat
  /\ emitted \in Seq(Nat) /\ reply \in Seq(Nat) /\ queue \in Seq(Nat) /\ delivered \in Seq(Nat)
  /\ writer \in {"running", "stopped"}
  /\ handled \in Seq(Frames)
  /\ ledger \in [returned : Nat, queued : Nat, discarded : Nat, lossTurn : Nat]

(* A turn runs only while the loop drives it, and one reply is under way    *)
(* exactly while the loop sends it.                                         *)
Turns ==
  /\ pump # "driving" => ~handling /\ emitted = <<>>
  /\ IF pump \in {"malformed", "refusing"} THEN Len(reply) = 1 ELSE reply = <<>>

(* The frame loop is past the init exactly if the agent saw a frame.        *)
Opened ==
  /\ initialized <=> handled # <<>>
  /\ handled # <<>> => handled[1] = "init"

(* While the peer is connected nobody stops listening before the end.       *)
Listening ==
  up => alive /\ (writer = "stopped" => pump = "returned" /\ queue = <<>>)

(* Where every event is, by its number.                                     *)
Numbered ==
  /\ Follows(delivered, 0)
  /\ up => /\ Follows(queue, Len(delivered))
           /\ Follows(emitted, Len(delivered) + Len(queue))
           /\ Follows(reply, Len(delivered) + Len(queue) + Len(emitted))
           /\ produced = Len(delivered) + Len(queue) + Len(emitted) + Len(reply)

(* Where every event and every turn went. Once an event was given up the    *)
(* loop reads no further frame.                                             *)
Books ==
  /\ produced = ledger.queued + ledger.discarded + Len(emitted) + Len(reply)
  /\ Len(handled) = ledger.returned + (IF handling THEN 1 ELSE 0)
  /\ ledger.discarded > 0 =>
       /\ ~up /\ ledger.lossTurn = Len(handled)
       /\ pump = "returned" \/ (pump = "driving" /\ ~alive)

IInv == Types /\ Turns /\ Opened /\ Listening /\ Numbered /\ Books

-----------------------------------------------------------------------------
(* Taking the first of a run of numbers leaves the run behind it.           *)
LEMMA FollowsTail ==
  ASSUME NEW s \in Seq(Nat), s # <<>>, NEW n \in Nat, Follows(s, n)
  PROVE  /\ Head(s) = n + 1 /\ Head(s) \in Nat
         /\ Tail(s) \in Seq(Nat) /\ Len(Tail(s)) = Len(s) - 1
         /\ Follows(Tail(s), n + 1)
<1>1. Len(s) \in Nat /\ Len(s) > 0 /\ Head(s) = s[1]
  OBVIOUS
<1>2. /\ Tail(s) \in Seq(Nat) /\ Len(Tail(s)) = Len(s) - 1
      /\ \A k \in 1 .. Len(Tail(s)) : Tail(s)[k] = s[k + 1]
  OBVIOUS
<1>3. Head(s) = n + 1
  BY <1>1 DEF Follows
<1>4. Follows(Tail(s), n + 1)
  BY <1>1, <1>2 DEF Follows
<1> QED
  BY <1>2, <1>3, <1>4

(* The next number extends a run.                                           *)
LEMMA FollowsAppend ==
  ASSUME NEW s \in Seq(Nat), NEW n \in Nat, Follows(s, n), NEW e \in Nat, e = n + Len(s) + 1
  PROVE  /\ Append(s, e) \in Seq(Nat) /\ Len(Append(s, e)) = Len(s) + 1
         /\ Follows(Append(s, e), n)
<1>1. /\ Append(s, e) \in Seq(Nat) /\ Len(Append(s, e)) = Len(s) + 1
      /\ \A k \in 1 .. Len(s) : Append(s, e)[k] = s[k]
      /\ Append(s, e)[Len(s) + 1] = e
  OBVIOUS
<1>2. Follows(Append(s, e), n)
  BY <1>1 DEF Follows
<1> QED
  BY <1>1, <1>2

(* A run behind another, from 0.                                            *)
LEMMA RunsJoin ==
  ASSUME NEW s \in Seq(Nat), NEW t \in Seq(Nat), Follows(s, 0), Follows(t, Len(s))
  PROVE  s \o t \in Seq(Nat) /\ Len(s \o t) = Len(s) + Len(t) /\ Follows(s \o t, 0)
<1>1. /\ s \o t \in Seq(Nat) /\ Len(s \o t) = Len(s) + Len(t)
      /\ \A i \in 1 .. Len(s) + Len(t) :
           (s \o t)[i] = IF i <= Len(s) THEN s[i] ELSE t[i - Len(s)]
  OBVIOUS
<1>2. ASSUME NEW i \in 1 .. Len(s \o t)
      PROVE  (s \o t)[i] = 0 + i
  <2>1. CASE i <= Len(s)
    BY <1>1, <2>1 DEF Follows
  <2>2. CASE ~(i <= Len(s))
    <3>1. i - Len(s) \in 1 .. Len(t)
      BY <1>1, <2>2
    <3>2. t[i - Len(s)] = Len(s) + (i - Len(s))
      BY <3>1 DEF Follows
    <3> QED
      BY <1>1, <2>2, <3>2
  <2> QED
    BY <2>1, <2>2
<1> QED
  BY <1>1, <1>2 DEF Follows

(* A run from 0 is the count of its length.                                 *)
LEMMA RunIsCount ==
  ASSUME NEW s \in Seq(Nat), Follows(s, 0)
  PROVE  s = Count(Len(s))
BY DEF Follows, Count

(* A session that just opened.                                              *)
LEMMA InvInit == Init => IInv
<1> SUFFICES ASSUME Init
             PROVE  IInv
  OBVIOUS
<1> USE DEF Init
<1>1. Types
  <2>1. <<>> \in Seq(Nat) /\ <<>> \in Seq(Frames)
    OBVIOUS
  <2>2. transport \in {"websocket", "grpc"}
    BY TransportAssumption
  <2> QED
    BY <2>1, <2>2 DEF Types, PumpStates
<1>2. Turns /\ Opened /\ Listening
  BY DEF Turns, Opened, Listening
<1>3. Numbered
  <2>1. \A n : Follows(<<>>, n)
    BY DEF Follows
  <2> QED
    BY <2>1 DEF Numbered
<1>4. Books
  BY DEF Books
<1> QED
  BY <1>1, <1>2, <1>3, <1>4 DEF IInv

-----------------------------------------------------------------------------
(* A reply under way is one number, and can be queued.                      *)
LEMMA SingleReply ==
  ASSUME NEW s \in Seq(Nat), Len(s) = 1, NEW q \in Seq(Nat)
  PROVE  s[1] \in Nat /\ Append(q, s[1]) \in Seq(Nat)
<1>1. 1 \in 1 .. Len(s)
  OBVIOUS
<1>2. s[1] \in Nat
  BY <1>1, ElementOfSeq
<1> QED
  BY <1>2

(* Taking from a sequence of numbers.                                       *)
LEMMA TakeFirst ==
  ASSUME NEW s \in Seq(Nat), s # <<>>
  PROVE  Head(s) \in Nat /\ Tail(s) \in Seq(Nat)
OBVIOUS

(* The books stay books.                                                    *)
LEMMA LedgerType ==
  ASSUME Types, \/ NoteQueued \/ NoteDiscarded \/ UNCHANGED ledger
                \/ ledger' = [ledger EXCEPT !.returned = ledger.returned + 1]
  PROVE  ledger' \in [returned : Nat, queued : Nat, discarded : Nat, lossTurn : Nat]
<1> DEFINE n == Len(handled)
           Ledgers == [returned : Nat, queued : Nat, discarded : Nat, lossTurn : Nat]
<1>1. n \in Nat /\ ledger \in Ledgers
  BY DEF Types
<1>2. /\ ledger.returned \in Nat /\ ledger.queued \in Nat
      /\ ledger.discarded \in Nat /\ ledger.lossTurn \in Nat
  BY <1>1
<1>3. CASE NoteQueued
  BY <1>1, <1>2, <1>3 DEF NoteQueued
<1>4. CASE NoteDiscarded
  <2> DEFINE d == ledger.discarded + 1
             l == IF ledger.discarded = 0 THEN n ELSE ledger.lossTurn
  <2>1. d \in Nat /\ l \in Nat
    BY <1>1, <1>2
  <2>2. ledger' = [ledger EXCEPT !.discarded = d, !.lossTurn = l]
    BY <1>4 DEF NoteDiscarded
  <2> HIDE DEF d, l
  <2> QED
    BY <1>1, <2>1, <2>2
<1>5. CASE UNCHANGED ledger \/ ledger' = [ledger EXCEPT !.returned = ledger.returned + 1]
  BY <1>1, <1>2, <1>5
<1> QED
  BY <1>3, <1>4, <1>5

(* Every step keeps the types.                                              *)
LEMMA TypesStep ==
  ASSUME IInv, [Next]_vars
  PROVE  Types'
<1> USE DEF IInv, Types, Turns, PumpStates, Frames, Produce
<1>1. ASSUME NEW f \in Frames, ClientSends(f)
      PROVE  Types'
  BY <1>1 DEF ClientSends, pumpVars, outVars
<1>2. CASE ClientCloses
  BY <1>2 DEF ClientCloses, pumpVars, outVars
<1>3. CASE ConnectionBreaks
  <2>1. inbound' \in Seq(Frames)
    <3>1. PICK n \in 0 .. Len(inbound) : inbound' = SubSeq(inbound, 1, n)
      BY <1>3 DEF ConnectionBreaks
    <3> QED
      BY <3>1
  <2> QED
    BY <1>3, <2>1 DEF ConnectionBreaks, pumpVars, outVars
<1>4. CASE ReadFrame
  <2>1. Head(inbound) \in Frames /\ inbound' \in Seq(Frames)
    BY <1>4 DEF ReadFrame
  <2>2. produced + 1 \in Nat /\ <<produced + 1>> \in Seq(Nat)
    OBVIOUS
  <2>3. Append(handled, Head(inbound)) \in Seq(Frames)
    BY <2>1
  <2>4. /\ initialized' \in BOOLEAN /\ pump' \in PumpStates /\ handling' \in BOOLEAN
        /\ turnEvents' \in Nat /\ alive' \in BOOLEAN /\ produced' \in Nat
    <3> DEFINE f == Head(inbound)
    <3>1. CASE f = "malformed"
      BY <1>4, <2>2, <3>1 DEF ReadFrame
    <3>2. CASE f # "malformed" /\ ~Initializes(f)
      BY <1>4, <2>2, <3>2 DEF ReadFrame
    <3>3. CASE f # "malformed" /\ Initializes(f)
      <4>1. /\ initialized' = TRUE /\ pump' = "driving" /\ handling' = TRUE
            /\ turnEvents' = 0 /\ alive' = TRUE /\ produced' = produced
        BY <1>4, <3>3 DEF ReadFrame
      <4> QED
        BY <4>1
    <3> QED
      BY <3>1, <3>2, <3>3
  <2>5. reply' \in Seq(Nat) /\ handled' \in Seq(Frames)
    BY <1>4, <2>2, <2>3 DEF ReadFrame
  <2> QED
    BY <1>4, <2>1, <2>4, <2>5 DEF ReadFrame, outVars
<1>5. CASE StreamOver
  BY <1>5 DEF StreamOver, clientVars, outVars
<1>6. CASE AgentEmits
  BY <1>6 DEF AgentEmits, clientVars, outVars
<1>7. CASE AgentReturns
  BY <1>7, LedgerType DEF AgentReturns, clientVars, outVars
<1>8. CASE Forward
  <2>1. Head(emitted) \in Nat /\ Tail(emitted) \in Seq(Nat)
    BY <1>8 DEF Forward
  <2>4. ledger' \in [returned : Nat, queued : Nat, discarded : Nat, lossTurn : Nat]
    BY <1>8, LedgerType DEF Forward
  <2>2. CASE Send(Head(emitted)) /\ UNCHANGED alive
    BY <1>8, <2>1, <2>2, <2>4 DEF Forward, Send, clientVars
  <2>3. CASE alive' = FALSE /\ UNCHANGED queue
    BY <1>8, <2>1, <2>3, <2>4 DEF Forward, clientVars
  <2> QED
    BY <1>8, <2>2, <2>3 DEF Forward
<1>9. CASE TurnEnds
  BY <1>9 DEF TurnEnds, AfterTurn, clientVars, outVars
<1>10. CASE SendReply
  <2>1. Len(reply) = 1 /\ reply \in Seq(Nat) /\ queue \in Seq(Nat)
    BY <1>10 DEF SendReply
  <2>2. Append(queue, reply[1]) \in Seq(Nat)
    BY <2>1, SingleReply
  <2>3. queue' = queue \/ queue' = Append(queue, reply[1])
    BY <1>10 DEF SendReply, Send
  <2>4. queue' \in Seq(Nat)
    BY <2>1, <2>2, <2>3
  <2>5. reply' = <<>> /\ pump' \in PumpStates
    BY <1>10 DEF SendReply
  <2>6. ledger' \in [returned : Nat, queued : Nat, discarded : Nat, lossTurn : Nat]
    BY <1>10, LedgerType DEF SendReply
  <2> QED
    BY <1>10, <2>4, <2>5, <2>6 DEF SendReply, clientVars
<1>11. CASE WriterSends
  <2>1. Head(queue) \in Nat /\ Tail(queue) \in Seq(Nat)
    <3>1. queue \in Seq(Nat) /\ queue # <<>>
      BY <1>11 DEF WriterSends
    <3> QED
      BY <3>1, TakeFirst
  <2>2. delivered' \in Seq(Nat) /\ queue' \in Seq(Nat)
    BY <1>11, <2>1 DEF WriterSends
  <2> QED
    BY <1>11, <2>2 DEF WriterSends, clientVars, pumpVars
<1>12. CASE WriterFails
  <2>1. queue' \in Seq(Nat) /\ writer' = "stopped"
    BY <1>12 DEF WriterFails, OutlivesWriter
  <2> QED
    BY <1>12, <2>1 DEF WriterFails, clientVars, pumpVars
<1>13. CASE WriterEnds
  BY <1>13 DEF WriterEnds, clientVars, pumpVars
<1>14. CASE Rest \/ UNCHANGED vars
  <2>1. UNCHANGED vars
    BY <1>14 DEF Rest
  <2> QED
    BY <2>1 DEF vars, clientVars, pumpVars, outVars
<1> QED
  BY <1>1, <1>2, <1>3, <1>4, <1>5, <1>6, <1>7, <1>8, <1>9, <1>10, <1>11, <1>12, <1>13, <1>14
     DEF Next, Client, Pump, Writer

(* A turn is driven to its end, and replies are sent one at a time.         *)
LEMMA TurnsStep ==
  ASSUME IInv, [Next]_vars
  PROVE  Turns'
<1>0. Turns
  BY DEF IInv
<1> USE <1>0 DEF Turns
<1>1. CASE Client
  <2>1. UNCHANGED pumpVars
    BY <1>1 DEF Client, ClientSends, ClientCloses, ConnectionBreaks
  <2> QED
    BY <2>1 DEF pumpVars
<1>2. CASE ReadFrame
  BY <1>2 DEF ReadFrame
<1>3. CASE StreamOver
  BY <1>3 DEF StreamOver
<1>4. CASE AgentEmits
  BY <1>4 DEF AgentEmits
<1>5. CASE AgentReturns
  BY <1>5 DEF AgentReturns
<1>6. CASE Forward
  BY <1>6 DEF Forward
<1>7. CASE TurnEnds
  BY <1>7 DEF TurnEnds, TurnOver, AfterTurn
<1>8. CASE SendReply
  <2>1. reply' = <<>> /\ pump' \in {"reading", "returned"} /\ UNCHANGED <<handling, emitted>>
    BY <1>8 DEF SendReply
  <2> QED
    BY <1>8, <2>1 DEF SendReply
<1>9. CASE Writer
  BY <1>9 DEF Writer, WriterSends, WriterFails, WriterEnds, pumpVars
<1>10. CASE Rest \/ UNCHANGED vars
  BY <1>10 DEF Rest, vars, pumpVars
<1> QED
  BY <1>1, <1>2, <1>3, <1>4, <1>5, <1>6, <1>7, <1>8, <1>9, <1>10 DEF Next, Pump

(* Only an init opens the session.                                          *)
LEMMA OpenedStep ==
  ASSUME IInv, [Next]_vars
  PROVE  Opened'
<1> USE DEF IInv, Opened
<1>1. CASE ReadFrame
  <2>1. CASE UNCHANGED <<initialized, handled>>
    BY <2>1
  <2>2. CASE /\ Initializes(Head(inbound)) /\ initialized' = TRUE
             /\ handled' = Append(handled, Head(inbound))
    <3>1. handled \in Seq(Frames) /\ Head(inbound) \in Frames
      BY <1>1 DEF Types, ReadFrame
    <3>2. handled' # <<>> /\ handled'[1] = IF handled = <<>> THEN Head(inbound) ELSE handled[1]
      BY <2>2, <3>1
    <3> QED
      BY <2>2, <3>2 DEF Initializes
  <2> QED
    BY <1>1, <2>1, <2>2 DEF ReadFrame
<1>2. CASE UNCHANGED <<initialized, handled>>
  BY <1>2
<1> QED
  BY <1>1, <1>2
     DEF Next, Client, ClientSends, ClientCloses, ConnectionBreaks, Pump, StreamOver, AgentEmits,
         AgentReturns, Forward, TurnEnds, SendReply, Writer, WriterSends, WriterFails, WriterEnds,
         Rest, vars, pumpVars

(* As long as the peer is there, the writer and the forwarder are.          *)
LEMMA ListeningStep ==
  ASSUME IInv, [Next]_vars
  PROVE  Listening'
<1> USE DEF IInv, Types, Listening
<1>1. CASE Client
  BY <1>1 DEF Client, ClientSends, ClientCloses, ConnectionBreaks, pumpVars, outVars
<1>2. CASE ReadFrame \/ StreamOver \/ AgentEmits \/ AgentReturns \/ TurnEnds
  BY <1>2 DEF ReadFrame, StreamOver, AgentEmits, AgentReturns, TurnEnds, outVars
<1>3. CASE Forward
  BY <1>3 DEF Forward, ReceiverGone
<1>4. CASE SendReply
  BY <1>4 DEF SendReply
<1>5. CASE Writer
  BY <1>5 DEF Writer, WriterSends, WriterFails, WriterEnds, QueueClosed, pumpVars
<1>6. CASE Rest \/ UNCHANGED vars
  BY <1>6 DEF Rest, vars, pumpVars, outVars
<1> QED
  BY <1>1, <1>2, <1>3, <1>4, <1>5, <1>6 DEF Next, Pump

(* No number is skipped, repeated or overtaken on the way to the client.    *)
LEMMA NumberedStep ==
  ASSUME IInv, [Next]_vars
  PROVE  Numbered'
<1> USE DEF Numbered
<1> DEFINE D == Len(delivered)
           Q == Len(queue)
           E == Len(emitted)
<1>0. /\ D \in Nat /\ Q \in Nat /\ E \in Nat /\ produced \in Nat
      /\ emitted \in Seq(Nat) /\ reply \in Seq(Nat) /\ queue \in Seq(Nat) /\ delivered \in Seq(Nat)
      /\ Follows(delivered, 0)
      /\ up => /\ Follows(queue, D)
               /\ Follows(emitted, D + Q)
               /\ Follows(reply, D + Q + E)
               /\ produced = D + Q + E + Len(reply)
  BY DEF IInv, Types
<1> HIDE DEF D, Q, E
<1>1. CASE UNCHANGED <<produced, emitted, reply, queue, delivered>> /\ (up' => up)
  BY <1>0, <1>1 DEF IInv, Follows
<1>2. CASE ~up /\ ~up' /\ UNCHANGED delivered
  BY <1>0, <1>2 DEF Follows
<1>3. CASE ReadFrame /\ up
  <2>1. CASE UNCHANGED <<produced, reply>>
    BY <1>1, <1>3, <2>1 DEF ReadFrame, outVars
  <2>2. CASE produced' = produced + 1 /\ reply' = <<produced + 1>>
    <3>1. reply = <<>> /\ Len(reply) = 0
      BY <1>3 DEF IInv, Turns, ReadFrame
    <3>2. Follows(reply', D + Q + E) /\ Len(reply') = 1
      BY <1>0, <1>3, <2>2, <3>1 DEF Follows
    <3>3. UNCHANGED <<emitted, queue, delivered, up>>
      BY <1>3 DEF ReadFrame, outVars
    <3> QED
      BY <1>0, <1>3, <2>2, <3>1, <3>2, <3>3 DEF D, Q, E, Follows
  <2> QED
    BY <1>3, <2>1, <2>2 DEF ReadFrame, Produce
<1>4. CASE AgentEmits /\ up
  <2>1. pump = "driving" /\ reply = <<>> /\ Len(reply) = 0
    BY <1>4 DEF IInv, Turns, AgentEmits
  <2>2. emitted' = Append(emitted, produced + 1) /\ produced' = produced + 1
    BY <1>4 DEF AgentEmits, Produce
  <2>3. Follows(emitted', D + Q) /\ Len(emitted') = E + 1
    BY <1>0, <1>4, <2>1, <2>2, FollowsAppend DEF E
  <2>4. UNCHANGED <<reply, queue, delivered, up>>
    BY <1>4 DEF AgentEmits, outVars
  <2> QED
    BY <1>0, <1>4, <2>1, <2>2, <2>3, <2>4 DEF D, Q, E, Follows
<1>5. CASE Forward /\ up
  <2>1. alive /\ ~ReceiverGone /\ emitted # <<>> /\ reply = <<>> /\ Len(reply) = 0
    BY <1>5 DEF IInv, Turns, Listening, Forward, ReceiverGone
  <2>2. /\ emitted' = Tail(emitted) /\ queue' = Append(queue, Head(emitted))
        /\ UNCHANGED <<reply, delivered, up, produced>>
    BY <1>5, <2>1 DEF Forward, Send
  <2>3. /\ Head(emitted) = D + Q + 1 /\ Head(emitted) \in Nat
        /\ Len(emitted') = E - 1 /\ Follows(emitted', D + Q + 1)
    BY <1>0, <1>5, <2>1, <2>2, FollowsTail DEF E
  <2>4. Follows(queue', D) /\ Len(queue') = Q + 1
    BY <1>0, <1>5, <2>2, <2>3, FollowsAppend DEF Q
  <2>5. D + (Q + 1) = D + Q + 1 /\ produced = D + (Q + 1) + (E - 1) + 0
    BY <1>0, <1>5, <2>1
  <2>6. Follows(reply', D + (Q + 1) + (E - 1))
    BY <1>0, <2>1, <2>2 DEF Follows
  <2> QED
    BY <1>0, <1>5, <2>1, <2>2, <2>3, <2>4, <2>5, <2>6 DEF D, Q, E
<1>6. CASE SendReply /\ up
  <2>1. ~ReceiverGone /\ Len(reply) = 1 /\ emitted = <<>> /\ E = 0
    BY <1>6 DEF IInv, Turns, Listening, SendReply, ReceiverGone, E
  <2>2. /\ reply' = <<>> /\ queue' = Append(queue, reply[1])
        /\ UNCHANGED <<emitted, delivered, up, produced>>
    BY <1>6, <2>1 DEF SendReply, Send
  <2>3. reply[1] = D + Q + 1
    BY <1>0, <1>6, <2>1 DEF Follows
  <2>4. Follows(queue', D) /\ Len(queue') = Q + 1
    BY <1>0, <1>6, <2>2, <2>3, FollowsAppend DEF Q
  <2> QED
    BY <1>0, <1>6, <2>1, <2>2, <2>4 DEF D, Q, E, Follows
<1>7. CASE WriterSends
  <2>1. up /\ queue # <<>> /\ queue' = Tail(queue) /\ delivered' = Append(delivered, Head(queue))
    BY <1>7 DEF WriterSends
  <2>2. UNCHANGED <<emitted, reply, produced, up>>
    BY <1>7 DEF WriterSends, pumpVars
  <2>3. /\ Head(queue) = D + 1 /\ Head(queue) \in Nat
        /\ Len(queue') = Q - 1 /\ Follows(queue', D + 1)
    BY <1>0, <2>1, FollowsTail DEF Q
  <2>4. Follows(delivered', 0) /\ Len(delivered') = D + 1
    BY <1>0, <2>1, <2>3, FollowsAppend DEF D
  <2> QED
    BY <1>0, <2>1, <2>2, <2>3, <2>4 DEF D, Q, E, Follows
<1>8. CASE Client \/ StreamOver \/ AgentReturns \/ TurnEnds \/ WriterEnds \/ Rest \/ UNCHANGED vars
  BY <1>1, <1>8
     DEF Client, ClientSends, ClientCloses, ConnectionBreaks, StreamOver, AgentReturns, TurnEnds,
         WriterEnds, Rest, vars, pumpVars, outVars
<1>9. CASE WriterFails
  BY <1>2, <1>9 DEF WriterFails
<1>10. CASE (ReadFrame \/ AgentEmits \/ Forward \/ SendReply) /\ ~up
  BY <1>2, <1>10 DEF ReadFrame, AgentEmits, Forward, SendReply, outVars
<1> QED
  BY <1>3, <1>4, <1>5, <1>6, <1>7, <1>8, <1>9, <1>10 DEF Next, Pump, Writer

(* Every event and every turn is entered where it went.                     *)
LEMMA BooksStep ==
  ASSUME IInv, [Next]_vars
  PROVE  Books'
<1> DEFINE H == Len(handled)
           E == Len(emitted)
           R == Len(reply)
<1>0. /\ Types /\ Turns /\ Listening
      /\ H \in Nat /\ E \in Nat /\ R \in Nat /\ produced \in Nat
      /\ ledger \in [returned : Nat, queued : Nat, discarded : Nat, lossTurn : Nat]
      /\ produced = ledger.queued + ledger.discarded + E + R
      /\ H = ledger.returned + (IF handling THEN 1 ELSE 0)
      /\ ledger.discarded > 0 =>
           /\ ~up /\ ledger.lossTurn = H
           /\ pump = "returned" \/ (pump = "driving" /\ ~alive)
  <2>1. Types /\ Turns /\ Listening /\ Books
    BY DEF IInv
  <2>2. /\ H \in Nat /\ E \in Nat /\ R \in Nat /\ produced \in Nat
        /\ ledger \in [returned : Nat, queued : Nat, discarded : Nat, lossTurn : Nat]
    BY <2>1 DEF Types
  <2> QED
    BY <2>1, <2>2 DEF Books
<1>sums. /\ produced = ledger.queued + ledger.discarded + E + R
         /\ ledger.queued \in Nat /\ ledger.discarded \in Nat /\ ledger.returned \in Nat
         /\ H \in Nat /\ E \in Nat /\ R \in Nat
  BY <1>0
<1> HIDE DEF H, E, R
<1>1. CASE /\ UNCHANGED <<produced, emitted, reply, handled, handling, ledger, pump, alive>>
           /\ up' => up
  BY <1>0, <1>1 DEF Books, H, E, R
<1>2. CASE ReadFrame
  <2>1. /\ ledger.discarded = 0 /\ ~handling /\ R = 0 /\ reply = <<>>
        /\ UNCHANGED <<emitted, ledger>>
    BY <1>0, <1>2 DEF ReadFrame, Turns, R
  <2>2. CASE /\ produced' = produced + 1 /\ reply' = <<produced + 1>>
             /\ UNCHANGED <<handling, handled>>
    <3>1. Len(reply') = 1
      BY <2>2
    <3>2. UNCHANGED <<emitted, handled, handling, ledger>> /\ Len(emitted') = E /\ Len(handled') = H
      BY <2>1, <2>2 DEF E, H
    <3>3. produced' = ledger.queued + ledger.discarded + Len(emitted') + Len(reply')
      BY <1>sums, <2>1, <2>2, <3>1, <3>2
    <3>4. H = ledger.returned + (IF handling' THEN 1 ELSE 0) /\ ~(ledger'.discarded > 0)
      BY <1>0, <2>1, <2>2
    <3> QED
      BY <3>2, <3>3, <3>4 DEF Books
  <2>3. CASE /\ handling' = TRUE /\ handled' = Append(handled, Head(inbound))
             /\ UNCHANGED <<produced, reply>>
    <3>2. Head(inbound) \in Frames /\ handled \in Seq(Frames)
      BY <1>0, <1>2 DEF Types, ReadFrame
    <3>1. Len(handled') = H + 1
      BY <2>3, <3>2 DEF H
    <3> QED
      BY <1>0, <2>1, <2>3, <3>1 DEF Books, E, R
  <2> QED
    BY <1>2, <2>2, <2>3 DEF ReadFrame, Produce
<1>3. CASE StreamOver \/ TurnEnds
  <2>1. UNCHANGED <<produced, emitted, reply, handled, handling, ledger, alive, up>>
    BY <1>3 DEF StreamOver, TurnEnds
  <2>2. ledger.discarded > 0 => pump' = "returned"
    BY <1>0, <1>3 DEF StreamOver, TurnEnds, AfterTurn
  <2> QED
    BY <1>0, <2>1, <2>2 DEF Books, H, E, R
<1>4. CASE AgentEmits
  <2>1. /\ emitted' = Append(emitted, produced + 1) /\ produced' = produced + 1
        /\ UNCHANGED <<reply, handled, handling, ledger, alive, up, pump>>
    BY <1>4 DEF AgentEmits, Produce
  <2>2. Len(emitted') = E + 1
    BY <1>0, <2>1 DEF Types, E
  <2>3. Len(reply') = R /\ Len(handled') = H
    BY <2>1 DEF H, R
  <2>4. produced' = ledger.queued + ledger.discarded + Len(emitted') + Len(reply')
    BY <1>sums, <2>1, <2>2, <2>3
  <2> QED
    BY <1>0, <2>1, <2>3, <2>4 DEF Books
<1>5. CASE AgentReturns
  <2>1. /\ handling /\ handling' = FALSE
        /\ ledger' = [ledger EXCEPT !.returned = ledger.returned + 1]
        /\ UNCHANGED <<produced, emitted, reply, handled, alive, up, pump>>
    BY <1>5 DEF AgentReturns
  <2>2. /\ ledger'.returned = ledger.returned + 1 /\ ledger'.queued = ledger.queued
        /\ ledger'.discarded = ledger.discarded /\ ledger'.lossTurn = ledger.lossTurn
    BY <1>0, <2>1
  <2> QED
    BY <1>0, <2>1, <2>2 DEF Books, H, E, R
<1>6. ASSUME NoteQueued
      PROVE  /\ ledger'.queued = ledger.queued + 1 /\ ledger'.returned = ledger.returned
             /\ ledger'.discarded = ledger.discarded /\ ledger'.lossTurn = ledger.lossTurn
  BY <1>0, <1>6 DEF NoteQueued
<1>7. ASSUME NoteDiscarded
      PROVE  /\ ledger'.queued = ledger.queued /\ ledger'.returned = ledger.returned
             /\ ledger'.discarded = ledger.discarded + 1
             /\ ledger'.lossTurn = IF ledger.discarded = 0 THEN H ELSE ledger.lossTurn
  BY <1>0, <1>7 DEF NoteDiscarded, H
<1>8. CASE Forward
  <2>1. /\ pump = "driving" /\ emitted # <<>> /\ emitted' = Tail(emitted)
        /\ UNCHANGED <<produced, reply, handled, handling, up, pump>>
    BY <1>8 DEF Forward
  <2>2. Len(emitted') = E - 1
    BY <1>0, <2>1 DEF Types, E
  <2>5. Len(reply') = R /\ Len(handled') = H
    BY <2>1 DEF H, R
  <2>6. /\ produced' = ledger.queued + ledger.discarded + E + R
        /\ ledger.queued \in Nat /\ ledger.discarded \in Nat /\ E \in Nat /\ R \in Nat
    BY <1>sums, <2>1
  <2>3. CASE NoteQueued /\ UNCHANGED alive
    <3>1. produced' = ledger'.queued + ledger'.discarded + Len(emitted') + Len(reply')
      BY <1>6, <2>2, <2>3, <2>5, <2>6
    <3> QED
      BY <1>0, <1>6, <2>1, <2>3, <2>5, <3>1 DEF Books
  <2>4. CASE ~(alive /\ ~ReceiverGone) /\ NoteDiscarded /\ alive' = FALSE
    <3>1. ~up
      BY <1>0, <2>1, <2>4 DEF Listening, ReceiverGone
    <3>2. ledger'.lossTurn = H
      BY <1>0, <1>7, <2>4
    <3>4. ledger'.queued = ledger.queued /\ ledger'.discarded = ledger.discarded + 1
      BY <1>7, <2>4
    <3>3. produced' = ledger'.queued + ledger'.discarded + Len(emitted') + Len(reply')
      <4>1. produced' = ledger.queued + (ledger.discarded + 1) + (E - 1) + R
        BY <2>6
      <4> QED
        BY <2>2, <2>5, <3>4, <4>1
    <3> QED
      BY <1>0, <1>7, <2>1, <2>4, <2>5, <3>1, <3>2, <3>3 DEF Books
  <2> QED
    BY <1>8, <2>3, <2>4 DEF Forward
<1>9. CASE SendReply
  <2>1. /\ pump \in {"malformed", "refusing"} /\ R = 1 /\ reply' = <<>> /\ ledger.discarded = 0
        /\ UNCHANGED <<produced, emitted, handled, handling, alive, up>>
    BY <1>0, <1>9 DEF SendReply, Turns, R
  <2>2. Len(reply') = 0
    BY <2>1
  <2>3. CASE NoteQueued
    BY <1>0, <1>6, <2>1, <2>2, <2>3 DEF Books, H, E
  <2>4. CASE ReceiverGone /\ NoteDiscarded /\ pump' = "returned"
    <3>1. ~up
      BY <1>0, <2>1, <2>4 DEF Listening, ReceiverGone
    <3>2. Len(emitted') = E /\ Len(handled') = H
      BY <2>1 DEF E, H
    <3>3. /\ ledger.queued \in Nat /\ ledger.discarded \in Nat
          /\ produced' = ledger.queued + ledger.discarded + E + 1
      BY <1>sums, <2>1
    <3>4. ledger'.queued = ledger.queued /\ ledger'.discarded = ledger.discarded + 1
      BY <1>7, <2>4
    <3>5. produced' = ledger'.queued + ledger'.discarded + Len(emitted') + Len(reply')
      <4>1. produced' = ledger.queued + (ledger.discarded + 1) + E + 0
        BY <1>sums, <3>3
      <4> QED
        BY <2>2, <3>2, <3>4, <4>1
    <3>6. ledger'.lossTurn = H /\ ledger'.returned = ledger.returned
      BY <1>7, <2>1, <2>4
    <3> QED
      BY <1>0, <2>1, <2>4, <3>1, <3>2, <3>5, <3>6 DEF Books
  <2> QED
    BY <1>9, <2>3, <2>4 DEF SendReply
<1>10. CASE Client \/ Writer \/ Rest \/ UNCHANGED vars
  BY <1>1, <1>10
     DEF Client, ClientSends, ClientCloses, ConnectionBreaks, Writer, WriterSends, WriterFails,
         WriterEnds, Rest, vars, pumpVars
<1> QED
  BY <1>2, <1>3, <1>4, <1>5, <1>8, <1>9, <1>10 DEF Next, Pump

-----------------------------------------------------------------------------
(* The invariant holds in every state of the frame loop.                    *)
LEMMA Invariant == Spec => []IInv
<1>1. Init => IInv
  BY InvInit
<1>2. IInv /\ [Next]_vars => IInv'
  BY TypesStep, TurnsStep, OpenedStep, ListeningStep, NumberedStep, BooksStep DEF IInv
<1> QED
  BY <1>1, <1>2, PTL DEF Spec

(* What the client received is, at any moment, a prefix without a gap of    *)
(* what the session produced, and the rest is on its way in order: across   *)
(* turns, error replies, a slow client and a broken connection, for either  *)
(* transport and any capacity of the queue.                                 *)
THEOREM Ordered == Spec => []OrderedDelivery
<1>1. IInv => OrderedDelivery
  <2> SUFFICES ASSUME IInv
               PROVE  OrderedDelivery
    OBVIOUS
  <2>1. /\ emitted \in Seq(Nat) /\ reply \in Seq(Nat) /\ queue \in Seq(Nat)
        /\ delivered \in Seq(Nat) /\ Follows(delivered, 0)
    BY DEF IInv, Types, Numbered
  <2>2. delivered = Count(Len(delivered))
    BY <2>1, RunIsCount
  <2>3. ASSUME up
        PROVE  delivered \o queue \o emitted \o reply = Count(produced)
    <3>1. /\ Follows(queue, Len(delivered)) /\ Follows(emitted, Len(delivered) + Len(queue))
          /\ Follows(reply, Len(delivered) + Len(queue) + Len(emitted))
          /\ produced = Len(delivered) + Len(queue) + Len(emitted) + Len(reply)
      BY <2>3 DEF IInv, Numbered
    <3> DEFINE dq == delivered \o queue
               dqe == dq \o emitted
               dqer == dqe \o reply
    <3>2. dq \in Seq(Nat) /\ Len(dq) = Len(delivered) + Len(queue) /\ Follows(dq, 0)
      BY <2>1, <3>1, RunsJoin
    <3>3. Follows(emitted, Len(dq))
      BY <3>1, <3>2
    <3> HIDE DEF dq
    <3>4. dqe \in Seq(Nat) /\ Len(dqe) = Len(dq) + Len(emitted) /\ Follows(dqe, 0)
      BY <2>1, <3>2, <3>3, RunsJoin
    <3>5. Follows(reply, Len(dqe))
      BY <3>1, <3>2, <3>4
    <3> HIDE DEF dqe
    <3>6. dqer \in Seq(Nat) /\ Len(dqer) = Len(dqe) + Len(reply) /\ Follows(dqer, 0)
      BY <2>1, <3>4, <3>5, RunsJoin
    <3> HIDE DEF dqer
    <3>7. dqer = Count(Len(dqer))
      BY <3>6, RunIsCount
    <3>8. Len(dqer) = produced
      BY <3>1, <3>2, <3>4, <3>6
    <3> QED
      BY <3>7, <3>8 DEF dq, dqe, dqer
  <2> QED
    BY <2>2, <2>3 DEF OrderedDelivery
<1> QED
  BY <1>1, Invariant, PTL

(* The agent sees an init before anything else, whatever a client sends.    *)
THEOREM InitComesFirst == Spec => []InitFirst
<1>1. IInv => InitFirst
  BY DEF IInv, Opened, InitFirst
<1> QED
  BY <1>1, Invariant, PTL

(* The books of the frame loop are complete: every turn begun ran to its    *)
(* end, every event was queued or given up after the peer had left, and     *)
(* after a loss the agent sees no further frame; for either transport, any  *)
(* capacity and any number of frames and events.                            *)
THEOREM TurnsComplete == Spec => []TurnsAccounted
<1>1. IInv => TurnsAccounted
  <2> SUFFICES ASSUME IInv
               PROVE  TurnsAccounted
    OBVIOUS
  <2>1. CASE pump \in {"reading", "returned"}
    <3>1. ~handling /\ Len(emitted) = 0 /\ Len(reply) = 0
      BY <2>1 DEF IInv, Turns
    <3> QED
      BY <3>1 DEF IInv, Types, Books, TurnsAccounted
  <2>2. CASE pump \notin {"reading", "returned"}
    BY <2>2 DEF IInv, Books, TurnsAccounted
  <2> QED
    BY <2>1, <2>2
<1> QED
  BY <1>1, Invariant, PTL
=============================================================================
