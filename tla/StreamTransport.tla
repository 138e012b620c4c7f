--------------------------- MODULE StreamTransport ---------------------------
(***************************************************************************)
(* One envelope session over a stream transport: the frame loop            *)
(* (run_session, FramePump::handle_frame), the two channels between the    *)
(* agent and the socket, and the task that writes to the socket.           *)
(*                                                                         *)
(*   client -> inbound -> pump -> agent -> emitted -> queue -> delivered    *)
(*                              (unbounded)   (bounded)                     *)
(*                                                                         *)
(* WebSocket and gRPC run the same loop. They differ in who owns the       *)
(* receiving end of the bounded queue: serve_socket keeps it until both of *)
(* its futures are done, tonic drops it with the response stream.          *)
(*                                                                         *)
(* A server event is its number: the k-th event the session produced.      *)
(***************************************************************************)
EXTENDS Naturals, Sequences

CONSTANTS
  Capacity,          \* the bound of the queue (mpsc::channel(32))
  Transports,        \* the transports the service offers: "websocket", "grpc"
  MaxFrames,         \* bound: frames the client sends
  MaxEvents          \* bound: events one turn produces

ASSUME CapacityAssumption == Capacity \in Nat \ {0}

ASSUME TransportAssumption == Transports # {} /\ Transports \subseteq {"websocket", "grpc"}

ASSUME BoundAssumption == MaxFrames \in Nat /\ MaxEvents \in Nat

(* What a frame decodes to: Init, any other client event, or nothing.       *)
Frames == {"init", "event", "malformed"}

VARIABLES
  transport,    \* the transport of this session, fixed when it opens
  up,           \* whether the peer is still connected
  halfClosed,   \* whether the client ended its side of the stream
  inbound,      \* frames that arrived and were not read
  sent,         \* frames sent so far (bounds the model)
  initialized,  \* FramePump::initialized
  pump,         \* what run_session awaits
  handling,     \* whether Agent::handle_into is running
  turnEvents,   \* events the running turn has produced (bounds the model)
  alive,        \* the local receiver_alive of the forward loop
  produced,     \* number of server events produced in this session
  emitted,      \* the unbounded channel between handle_into and the forwarder
  reply,        \* the error a frame is answered with, being sent
  queue,        \* the bounded channel to the writer
  writer,       \* the task that writes the queue to the socket
  delivered,    \* what reached the client
  handled,      \* the kinds of the frames passed to the agent, in order
  ledger        \* observer: what became of turns and events; no action reads it

clientVars == <<halfClosed, inbound, sent>>
pumpVars   == <<initialized, pump, handling, turnEvents, alive, produced, emitted, reply, handled,
                ledger>>
outVars    == <<queue, writer, delivered>>
vars == <<transport, up, clientVars, pumpVars, outVars>>

PumpStates == {"reading", "driving", "malformed", "refusing", "returned"}

Init ==
  /\ transport \in Transports
  /\ up = TRUE
  /\ halfClosed = FALSE
  /\ inbound = <<>>
  /\ sent = 0
  /\ initialized = FALSE
  /\ pump = "reading"
  /\ handling = FALSE
  /\ turnEvents = 0
  /\ alive = TRUE
  /\ produced = 0
  /\ emitted = <<>>
  /\ reply = <<>>
  /\ queue = <<>>
  /\ writer = "running"
  /\ delivered = <<>>
  /\ handled = <<>>
  /\ ledger = [returned |-> 0, queued |-> 0, discarded |-> 0, lossTurn |-> 0]

-----------------------------------------------------------------------------
(* The client and the connection. *)

ClientSends(f) ==
  /\ up /\ ~halfClosed
  /\ sent < MaxFrames
  /\ sent' = sent + 1
  /\ inbound' = Append(inbound, f)
  /\ UNCHANGED <<transport, up, halfClosed, pumpVars, outVars>>

ClientCloses ==
  /\ up /\ ~halfClosed
  /\ halfClosed' = TRUE
  /\ UNCHANGED <<transport, up, inbound, sent, pumpVars, outVars>>

(* The connection breaks; frames in flight may or may not have arrived.     *)
ConnectionBreaks ==
  /\ up
  /\ up' = FALSE
  /\ \E n \in 0 .. Len(inbound) : inbound' = SubSeq(inbound, 1, n)
  /\ UNCHANGED <<transport, halfClosed, sent, pumpVars, outVars>>

-----------------------------------------------------------------------------
(* The frame loop. *)

(* The number of the next server event.                                    *)
Produce == produced + 1

(* Mutant: the first event need not be an Init.                             *)
InitializesAny(f) == TRUE

Initializes(f) == initialized \/ f = "init"

(* Malformed frames are answered and skipped; before an Init any other      *)
(* event is refused; the rest goes to the agent.                            *)
ReadFrame ==
  /\ pump = "reading"
  /\ inbound # <<>>
  /\ inbound' = Tail(inbound)
  /\ LET f == Head(inbound)
     IN  \/ /\ f = "malformed"
            /\ pump' = "malformed"
            /\ produced' = Produce
            /\ reply' = <<Produce>>
            /\ UNCHANGED <<initialized, handling, turnEvents, alive, handled>>
         \/ /\ f # "malformed" /\ ~Initializes(f)
            /\ pump' = "refusing"
            /\ produced' = Produce
            /\ reply' = <<Produce>>
            /\ UNCHANGED <<initialized, handling, turnEvents, alive, handled>>
         \/ /\ f # "malformed" /\ Initializes(f)
            /\ initialized' = TRUE
            /\ pump' = "driving"
            /\ handling' = TRUE
            /\ turnEvents' = 0
            /\ alive' = TRUE
            /\ handled' = Append(handled, f)
            /\ UNCHANGED <<produced, reply>>
  /\ UNCHANGED <<transport, up, halfClosed, sent, emitted, ledger, outVars>>

(* The inbound stream is over: the session ends, whatever it still queued   *)
(* is left to the writer.                                                   *)
StreamOver ==
  /\ pump = "reading"
  /\ inbound = <<>>
  /\ halfClosed \/ ~up
  /\ pump' = "returned"
  /\ UNCHANGED <<transport, up, clientVars, initialized, handling, turnEvents, alive, produced,
                 emitted, reply, handled, ledger, outVars>>

(* handle_into never blocks on its receiver: its channel is unbounded.      *)
AgentEmits ==
  /\ handling
  /\ turnEvents < MaxEvents
  /\ turnEvents' = turnEvents + 1
  /\ produced' = Produce
  /\ emitted' = Append(emitted, Produce)
  /\ UNCHANGED <<transport, up, clientVars, initialized, pump, handling, alive, reply, handled,
                 ledger, outVars>>

AgentReturns ==
  /\ handling
  /\ handling' = FALSE
  /\ ledger' = [ledger EXCEPT !.returned = @ + 1]
  /\ UNCHANGED <<transport, up, clientVars, initialized, pump, turnEvents, alive, produced, emitted,
                 reply, handled, outVars>>

-----------------------------------------------------------------------------
(* Sending on the bounded queue: it fails if the receiver is gone, and      *)
(* waits while the queue is full.                                           *)

(* Whether the queue's receiver outlives a writer that gave up.             *)
OutlivesWriter == transport = "websocket"

(* Mutant: nobody notices that the receiver is gone.                        *)
ReceiverGoneNever == FALSE

ReceiverGone == writer = "stopped" /\ ~OutlivesWriter

(* Mutant: a full queue drops the event.                                    *)
TrySend(e) == queue' = IF Len(queue) < Capacity THEN Append(queue, e) ELSE queue

Send(e) == Len(queue) < Capacity /\ queue' = Append(queue, e)

(* The books: events that entered the queue, events given up, and the turn  *)
(* during or after which the first one was.                                 *)
NoteQueued == ledger' = [ledger EXCEPT !.queued = @ + 1]

NoteDiscarded ==
  ledger' = [ledger EXCEPT !.discarded = @ + 1,
                           !.lossTurn = IF ledger.discarded = 0 THEN Len(handled) ELSE @]

(* The forward loop: keeps draining once the receiver is gone.              *)
Forward ==
  /\ pump = "driving"
  /\ emitted # <<>>
  /\ emitted' = Tail(emitted)
  /\ IF alive /\ ~ReceiverGone
     THEN Send(Head(emitted)) /\ NoteQueued /\ UNCHANGED alive
     ELSE alive' = FALSE /\ NoteDiscarded /\ UNCHANGED queue
  /\ UNCHANGED <<transport, up, clientVars, initialized, pump, handling, turnEvents, produced, reply,
                 handled, writer, delivered>>

(* Mutant: the turn is over with its receiver.                              *)
TurnOverWhenGone == ~alive \/ (~handling /\ emitted = <<>>)

TurnOver == ~handling /\ emitted = <<>>

(* Mutant: the loop reads on although its receiver is gone.                 *)
AfterTurnReads == "reading"

(* FrameOutcome: ReceiverGone ends the loop.                                *)
AfterTurn == IF alive THEN "reading" ELSE "returned"

(* drive and forward are joined: the turn ends when both are done.          *)
TurnEnds ==
  /\ pump = "driving"
  /\ TurnOver
  /\ pump' = AfterTurn
  /\ UNCHANGED <<transport, up, clientVars, initialized, handling, turnEvents, alive, produced, emitted,
                 reply, handled, ledger, outVars>>

(* An error reply: after malformed_event the session goes on, after         *)
(* init_required it is over.                                                *)
SendReply ==
  /\ pump \in {"malformed", "refusing"}
  /\ reply' = <<>>
  /\ IF ReceiverGone
     THEN pump' = "returned" /\ NoteDiscarded /\ UNCHANGED queue
     ELSE /\ Send(reply[1])
          /\ NoteQueued
          /\ pump' = IF pump = "malformed" THEN "reading" ELSE "returned"
  /\ UNCHANGED <<transport, up, clientVars, initialized, handling, turnEvents, alive, produced, emitted,
                 handled, writer, delivered>>

-----------------------------------------------------------------------------
(* The writer. *)

WriterSends ==
  /\ writer = "running"
  /\ up
  /\ queue # <<>>
  /\ delivered' = Append(delivered, Head(queue))
  /\ queue' = Tail(queue)
  /\ UNCHANGED <<transport, up, clientVars, pumpVars, writer>>

(* serve_socket learns that the peer is gone by failing to send; tonic      *)
(* drops the response stream.                                               *)
WriterFails ==
  /\ writer = "running"
  /\ ~up
  /\ OutlivesWriter => queue # <<>>
  /\ writer' = "stopped"
  /\ queue' = IF OutlivesWriter THEN Tail(queue) ELSE <<>>
  /\ UNCHANGED <<transport, up, clientVars, pumpVars, delivered>>

(* Mutant: the writer leaves as soon as the session is over.                *)
QueueClosedEarly == pump = "returned"

QueueClosed == pump = "returned" /\ queue = <<>>

(* The sender is dropped when run_session returns; what was queued is       *)
(* written first.                                                           *)
WriterEnds ==
  /\ writer = "running"
  /\ QueueClosed
  /\ writer' = "stopped"
  /\ UNCHANGED <<transport, up, clientVars, pumpVars, queue, delivered>>

-----------------------------------------------------------------------------
Client == (\E f \in Frames : ClientSends(f)) \/ ClientCloses \/ ConnectionBreaks

Pump == ReadFrame \/ StreamOver \/ AgentEmits \/ AgentReturns \/ Forward \/ TurnEnds \/ SendReply

Writer == WriterSends \/ WriterFails \/ WriterEnds

Closed == pump = "returned" /\ writer = "stopped"

(* Nothing is left to do once the session task is over. *)
Rest == Closed /\ UNCHANGED vars

Next == Client \/ Pump \/ Writer \/ Rest

Spec == Init /\ [][Next]_vars

(* join! polls the agent, the forwarder and the writer whenever they can    *)
(* run; a connected peer reads what it is sent, and a turn's awaits         *)
(* resolve. The client and the network promise nothing.                     *)
Fairness ==
  /\ WF_vars(ReadFrame \/ StreamOver \/ Forward \/ TurnEnds \/ SendReply)
  /\ WF_vars(AgentReturns)
  /\ WF_vars(Writer)

FairSpec == Spec /\ Fairness

-----------------------------------------------------------------------------
Count(n) == [k \in 1 .. n |-> k]

(* Deltas and cards reach the client in the order the session produced      *)
(* them and without a gap, across turns, error replies and a broken         *)
(* connection: what was delivered is a prefix of what was produced, and     *)
(* while the connection is up the rest is on its way, in order.             *)
OrderedDelivery ==
  /\ delivered = Count(Len(delivered))
  /\ up => delivered \o queue \o emitted \o reply = Count(produced)

(* The agent sees nothing before an Init (spec 6.1), whatever malformed     *)
(* frames came first.                                                       *)
InitFirst == handled # <<>> => handled[1] = "init"

(* What became of every turn and every event (ws-core/lib.rs:76-80,         *)
(* 150-180). When the loop reads the next frame or is over, each turn it    *)
(* began ran to its end and each event produced, error replies included,    *)
(* entered the queue or was given up. One is given up only once the peer    *)
(* has left, and the turn in which that is noticed is the last the agent    *)
(* sees, whatever frames still wait.                                        *)
TurnsAccounted ==
  /\ pump \in {"reading", "returned"} =>
       /\ ledger.returned = Len(handled)
       /\ produced = ledger.queued + ledger.discarded
  /\ ledger.discarded > 0 => ~up /\ ledger.lossTurn = Len(handled)

(* While the peer stays connected every event produced is delivered, those  *)
(* of a session that is over included.                                      *)
EventsArrive ==
  \A n \in 1 .. MaxFrames * (MaxEvents + 1) :
    produced >= n ~> (Len(delivered) >= n \/ ~up)

(* The session signal: when the peer is gone the session ends, so its       *)
(* `closed` event fires and the active-session gauge comes down.            *)
SessionsEnd == ~up ~> pump = "returned"

(* Where the receiver goes with the writer (tonic drops it with the         *)
(* response stream), a session that is sending learns of the loss and ends. *)
GrpcSessionsEnd == (transport = "grpc" /\ ~up) ~> pump = "returned"

(* Both at once: nothing produced is lost on the way to a peer that stays,  *)
(* and no session is kept for a peer that tonic saw leave.                  *)
StreamsSettle == EventsArrive /\ GrpcSessionsEnd
=============================================================================
