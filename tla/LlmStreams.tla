---------------------------- MODULE LlmStreams ----------------------------
(***************************************************************************)
(* One model call through the LlmProvider seam: the Anthropic provider     *)
(* (server-sent events), the Ollama provider (one JSON object per line)    *)
(* and a host callback behind the seam's default stream, each wrapped by   *)
(* the service's InstrumentedLlm. The model service answers with a body of *)
(* lines; the network cuts that body into frames anywhere, also inside a   *)
(* character; the provider pulls frames, takes complete lines out of a     *)
(* buffer and yields chunks, and the agent may abandon the stream at any   *)
(* chunk.                                                                  *)
(*                                                                         *)
(* A text is a sequence of characters, a byte is a record whose field k is *)
(* the character or its half (Wide takes two bytes); the JSON around a     *)
(* fragment is one byte with the decoded event in field ev. Bodies, HTTP   *)
(* headers and the request's messages are left out.                        *)
(***************************************************************************)
EXTENDS Naturals, Sequences, SequencesExt

CONSTANTS Providers,   \* a subset of {"anthropic", "ollama", "callback"}
          Answers,     \* what the model may say, see MCLlmStreams
          Wide         \* a character of two bytes

(* An answer is a sequence of items, a group of calls one of calls.        *)
ASSUME AnswersAssumption ==
  \A a \in Answers :
    /\ a.items \in Seq({a.items[i] : i \in DOMAIN a.items})
    /\ \A i \in DOMAIN a.items :
         a.items[i].calls \in Seq({a.items[i].calls[j] : j \in DOMAIN a.items[i].calls})

VARIABLES provider,  \* which provider serves this call
          answer,    \* what the model says: items and how the message ends
          phase,     \* "idle", "streaming", "ended" (exhausted), "over"
          body,      \* bytes of the response not yet received
          buffer,    \* decoded characters of the lines not yet complete
          block,     \* SseAccumulator: kind, tool name, arguments_json
          textOpen,  \* NdjsonAccumulator
          pending,   \* chunks of the last line, not yet yielded
          out,       \* what the caller received, chunk by chunk
          span,      \* LlmSpan and the llm events emitted
          broken     \* the connection broke in the middle of the body

vars == <<provider, answer, phase, body, buffer, block, textOpen, pending, out, span, broken>>

---------------------------------------------------------------------------
(* Completion items and chunks.                                            *)

Chunk(kind, text, name, args) == [kind |-> kind, text |-> text, name |-> name, args |-> args]
TextItem(text) == Chunk("Text", text, <<>>, <<>>)
TextDelta(text) == Chunk("TextDelta", text, <<>>, <<>>)
TextDone == Chunk("TextDone", <<>>, <<>>, <<>>)
ToolCall(name, args) == Chunk("ToolCall", <<>>, name, args)
Err == Chunk("Err", <<>>, <<>>, <<>>)

(* The default complete_stream: a whole text is one delta.                 *)
ChunksOf(items) ==
  FlattenSeq([i \in DOMAIN items |->
    IF items[i].kind = "Text" THEN <<TextDelta(items[i].text), TextDone>> ELSE <<items[i]>>])

(* Action ids are dotted, tool names are not: "." travels as "__".         *)
encode_tool_name(id) == FlattenSeq([i \in DOMAIN id |-> IF id[i] = "." THEN <<"_", "_">> ELSE <<id[i]>>])

(* replace("__", "."): leftmost first, matches do not overlap.             *)
decode_tool_name(name) ==
  LET Step(acc, c) ==
        IF c = "_" THEN IF acc.held THEN [done |-> acc.done \o <<".">>, held |-> FALSE]
                                    ELSE [acc EXCEPT !.held = TRUE]
        ELSE [done |-> acc.done \o (IF acc.held THEN <<"_", c>> ELSE <<c>>), held |-> FALSE]
      all == FoldLeft(Step, [done |-> <<>>, held |-> FALSE], name)
  IN all.done \o (IF all.held THEN <<"_">> ELSE <<>>)

(* JSON of a tool's arguments: blank stands for {}, an unbalanced object   *)
(* does not parse. `args` is a sequence of symbols, <<>> the empty object. *)
Blank(json) == json = <<>>
Parses(json) == Len(json) > 1 /\ json[1] = "{" /\ json[Len(json)] = "}"
ArgsOf(json) == IF Blank(json) THEN <<>> ELSE SubSeq(json, 2, Len(json) - 1)

---------------------------------------------------------------------------
(* The model service. An answer is [items, ends]; an item is a text, a     *)
(* group of calls, a block of another kind or a line that is no event.     *)

NoEvent == [type |-> "none", name |-> <<>>, calls |-> <<>>]
Event(type, name, calls) == [type |-> type, name |-> name, calls |-> calls]

BytesOf(text) ==
  FlattenSeq([i \in DOMAIN text |->
    IF text[i] = Wide THEN <<[k |-> "hi", ev |-> NoEvent], [k |-> "lo", ev |-> NoEvent]>>
    ELSE <<[k |-> text[i], ev |-> NoEvent]>>])

Line(type, name, calls, payload) ==
  <<[k |-> "event", ev |-> Event(type, name, calls)]>> \o BytesOf(payload) \o <<[k |-> "nl", ev |-> NoEvent]>>
Plain(type) == Line(type, <<>>, <<>>, <<>>)
PerSymbol(type, payload) ==
  FlattenSeq([i \in DOMAIN payload |-> Line(type, <<>>, <<>>, <<payload[i]>>)])

SseItem(item) ==
  CASE item.kind = "text" ->
         Plain("event_line") \o Plain("start_text") \o PerSymbol("text_delta", item.text) \o Plain("stop")
    [] item.kind = "calls" ->
         FlattenSeq([i \in DOMAIN item.calls |->
           Line("start_tool", encode_tool_name(item.calls[i].id), <<>>, <<>>)
           \o PerSymbol("json_delta", item.calls[i].json) \o Plain("stop")])
    [] item.kind = "other" ->
         Plain("start_other") \o PerSymbol("json_delta", <<"x">>) \o Plain("other_delta") \o Plain("stop")
    [] item.kind = "junk" -> Plain("junk") \o Plain("blank")

SseEnd(ends) ==
  IF ends = "error" THEN Plain("error")
  ELSE (IF ends = "refusal" THEN Plain("refusal") ELSE Plain("message_delta")) \o Plain("other")

NdjsonItem(item) ==
  CASE item.kind = "text" -> PerSymbol("chat", item.text)
    [] item.kind = "calls" ->
         Line("chat", <<>>, [i \in DOMAIN item.calls |->
           [name |-> encode_tool_name(item.calls[i].id), args |-> ArgsOf(item.calls[i].json)]], <<>>)
    [] item.kind = "other" -> Plain("chat") \o Plain("blank")
    [] item.kind = "junk" -> Plain("junk")

NdjsonEnd(ends) == IF ends = "end" THEN Plain("done") ELSE Plain("error")

(* Only a fragmented object can be malformed, only Anthropic refuses, and  *)
(* the Ollama daemon puts texts that follow each other in one.             *)
MaySay(p, a) ==
  \/ p = "anthropic"
  \/ /\ a.ends # "refusal"
     /\ \A i \in DOMAIN a.items : a.items[i].kind = "calls" =>
          \A j \in DOMAIN a.items[i].calls : Blank(a.items[i].calls[j].json) \/ Parses(a.items[i].calls[j].json)

SseBody(a) == FlattenSeq([i \in DOMAIN a.items |-> SseItem(a.items[i])]) \o SseEnd(a.ends)
NdjsonBody(a) == FlattenSeq([i \in DOMAIN a.items |-> NdjsonItem(a.items[i])]) \o NdjsonEnd(a.ends)

---------------------------------------------------------------------------
(* The unstreamed call: what complete() returns for the same answer.       *)

CallItems(item) ==
  [i \in DOMAIN item.calls |->
     ToolCall(decode_tool_name(encode_tool_name(item.calls[i].id)), ArgsOf(item.calls[i].json))]

(* Mutant: a refusal is taken for an empty answer.                         *)
ParseRefusal(a) == IF a.ends = "error" THEN <<Err>> ELSE <<>>

parse_body(a) ==
  IF a.ends # "end" THEN <<Err>>
  ELSE FlattenSeq([i \in DOMAIN a.items |->
         CASE a.items[i].kind = "text" -> <<TextItem(a.items[i].text)>>
           [] a.items[i].kind = "calls" -> CallItems(a.items[i])
           [] OTHER -> <<>>])

(* One message: its whole content before its calls.                        *)
items_from(a) ==
  LET OfKind(k, Part(_)) ==
        FlattenSeq([i \in DOMAIN a.items |-> IF a.items[i].kind = k THEN Part(a.items[i]) ELSE <<>>])
      content == OfKind("text", LAMBDA item : item.text)
  IN IF a.ends # "end" THEN <<Err>>
     ELSE (IF content = <<>> THEN <<>> ELSE <<TextItem(content)>>) \o OfKind("calls", CallItems)

(* A host callback (PyLlm, JsLlm, the scripted provider) answers with      *)
(* items; what it raises and what does not decode as items is an error.    *)
CallbackItems(a) ==
  IF a.ends # "end" \/ \E i \in DOMAIN a.items : a.items[i].kind \in {"other", "junk"} THEN <<Err>>
  ELSE FlattenSeq([i \in DOMAIN a.items |->
         IF a.items[i].kind = "text" THEN <<TextItem(a.items[i].text)>>
         ELSE [j \in DOMAIN a.items[i].calls |->
                 ToolCall(a.items[i].calls[j].id, ArgsOf(a.items[i].calls[j].json))]])

Completed(p, a) == CASE p = "anthropic" -> parse_body(a) [] p = "ollama" -> items_from(a) [] OTHER -> CallbackItems(a)

---------------------------------------------------------------------------
Init ==
  /\ provider \in Providers /\ answer \in Answers /\ MaySay(provider, answer)
  /\ phase = "idle" /\ body = <<>> /\ buffer = <<>> /\ pending = <<>> /\ out = <<>>
  /\ block = [kind |-> "none", name |-> <<>>, json |-> <<>>]
  /\ textOpen = FALSE /\ broken = FALSE
  /\ span = [open |-> FALSE, errored |-> FALSE, ok |-> 0, error |-> 0]

(* Mutant: a stream dropped before its end leaves no event.                *)
EmitAtEnd(s) ==
  IF s.errored THEN [s EXCEPT !.open = FALSE, !.error = @ + 1]
  ELSE IF phase = "streaming" THEN [s EXCEPT !.open = FALSE]
  ELSE [s EXCEPT !.open = FALSE, !.ok = @ + 1]

(* The drop of the LlmSpan emits its one event.                            *)
Emit(s) ==
  IF s.errored THEN [s EXCEPT !.open = FALSE, !.error = @ + 1]
               ELSE [s EXCEPT !.open = FALSE, !.ok = @ + 1]

Started == [span EXCEPT !.open = TRUE]
Refused == Emit([span EXCEPT !.open = TRUE, !.errored = TRUE])

(* InstrumentedLlm::complete around the provider's complete: one request,  *)
(* one parsed body; a failed request or a status other than 2xx is an Err. *)
Complete(reachable) ==
  /\ phase = "idle"
  /\ out' = IF reachable THEN Completed(provider, answer) ELSE <<Err>>
  /\ span' = IF out' = <<Err>> THEN Refused ELSE Emit(Started)
  /\ phase' = "over"
  /\ UNCHANGED <<provider, answer, broken, body, buffer, block, textOpen, pending>>

(* complete_stream: a request that fails returns Err instead of a stream,  *)
(* and the span ends with it.                                              *)
OpenFails ==
  /\ phase = "idle"
  /\ out' = <<Err>> /\ span' = Refused /\ phase' = "over"
  /\ UNCHANGED <<provider, answer, broken, body, buffer, block, textOpen, pending>>

OpenBody ==
  /\ phase = "idle" /\ phase' = "streaming" /\ span' = Started
  /\ UNCHANGED <<provider, answer, broken, buffer, block, textOpen, pending, out>>

OpenSse == provider = "anthropic" /\ OpenBody /\ body' = SseBody(answer)
OpenNdjson == provider = "ollama" /\ OpenBody /\ body' = NdjsonBody(answer)

(* The default stream awaits complete() and iterates over its chunks.      *)
OpenIter ==
  /\ phase = "idle" /\ provider = "callback" /\ CallbackItems(answer) # <<Err>>
  /\ phase' = "streaming" /\ span' = Started /\ pending' = ChunksOf(CallbackItems(answer))
  /\ UNCHANGED <<provider, answer, broken, body, buffer, block, textOpen, out>>

(* String::from_utf8_lossy of one frame: a character whose other half is   *)
(* in another frame becomes a replacement character.                       *)
FromUtf8Lossy(frame) ==
  LET Decoded(i) ==
        CASE frame[i].k = "hi" ->
               IF i < Len(frame) /\ frame[i + 1].k = "lo" THEN <<[frame[i] EXCEPT !.k = Wide]>>
               ELSE <<[frame[i] EXCEPT !.k = "replacement"]>>
          [] frame[i].k = "lo" ->
               IF i > 1 /\ frame[i - 1].k = "hi" THEN <<>> ELSE <<[frame[i] EXCEPT !.k = "replacement"]>>
          [] OTHER -> <<frame[i]>>
  IN FlattenSeq([i \in DOMAIN frame |-> Decoded(i)])

HasLine == \E i \in DOMAIN buffer : buffer[i].k = "nl"

Polled == phase = "streaming" /\ pending = <<>>

(* The stream is polled and no complete line is left: bytes.next().        *)
Frame(n) ==
  /\ Polled /\ ~HasLine /\ n \in DOMAIN body
  /\ buffer' = buffer \o FromUtf8Lossy(SubSeq(body, 1, n))
  /\ body' = SubSeq(body, n + 1, Len(body))
  /\ UNCHANGED <<provider, answer, broken, phase, block, textOpen, pending, out, span>>

(* The connection breaks: the error is yielded and the generator returns.  *)
FrameFails ==
  /\ Polled /\ ~HasLine /\ provider # "callback" /\ body # <<>>
  /\ pending' = <<Err>> /\ body' = <<>> /\ broken' = TRUE
  /\ UNCHANGED <<provider, answer, phase, buffer, block, textOpen, out, span>>

(* Mutant: a fragment of the arguments replaces those before it.           *)
ReplaceJson(b, fragment) == IF b.kind = "tool" THEN [b EXCEPT !.json = fragment] ELSE b

(* arguments_json.push_str: only a tool block collects fragments.          *)
PushJson(b, fragment) == IF b.kind = "tool" THEN [b EXCEPT !.json = @ \o fragment] ELSE b

(* SseAccumulator::on_event: the new block and the chunks.                 *)
OnEvent(e, payload) ==
  LET none == [kind |-> "none", name |-> <<>>, json |-> <<>>]
      Goes(b, chunks) == [block |-> b, chunks |-> chunks]
  IN CASE e.type = "start_text" -> Goes([none EXCEPT !.kind = "text"], <<>>)
       [] e.type = "start_tool" -> Goes([none EXCEPT !.kind = "tool", !.name = e.name], <<>>)
       [] e.type = "start_other" -> Goes(none, <<>>)
       [] e.type = "text_delta" -> Goes(block, <<TextDelta(payload)>>)
       [] e.type = "json_delta" -> Goes(PushJson(block, payload), <<>>)
       [] e.type = "stop" ->
            Goes(none, CASE block.kind = "text" -> <<TextDone>>
                         [] block.kind = "tool" ->
                              IF Blank(block.json) \/ Parses(block.json)
                              THEN <<ToolCall(decode_tool_name(block.name), ArgsOf(block.json))>> ELSE <<Err>>
                         [] OTHER -> <<>>)
       [] e.type \in {"refusal", "error"} -> Goes(block, <<Err>>)
       [] OTHER -> Goes(block, <<>>)

(* NdjsonAccumulator::on_line: the chunks and whether a text stays open.   *)
OnLine(e, payload) ==
  LET opened == textOpen \/ payload # <<>>
      said == IF payload = <<>> THEN <<>> ELSE <<TextDelta(payload)>>
      closed == IF opened THEN <<TextDone>> ELSE <<>>
      calls == [i \in DOMAIN e.calls |-> ToolCall(decode_tool_name(e.calls[i].name), e.calls[i].args)]
  IN CASE e.type \in {"junk", "error"} -> [open |-> textOpen, chunks |-> <<Err>>]
       [] e.type = "done" -> [open |-> FALSE, chunks |-> said \o closed]
       [] OTHER -> IF calls = <<>> THEN [open |-> opened, chunks |-> said]
                   ELSE [open |-> FALSE, chunks |-> said \o closed \o calls]

(* One complete line leaves the buffer: its event and what is in it.       *)
LineEnd == SelectInSeq(buffer, LAMBDA c : c.k = "nl")
LineEvent == IF buffer[1].k = "event" THEN buffer[1].ev ELSE Event("junk", <<>>, <<>>)
Payload == [i \in 1..(IF LineEnd > 2 THEN LineEnd - 2 ELSE 0) |-> buffer[i + 1].k]
DropLine == buffer' = SubSeq(buffer, LineEnd + 1, Len(buffer))

(* Lines without a data: prefix and data that is no event are skipped.     *)
TakeSse ==
  /\ Polled /\ HasLine /\ provider = "anthropic"
  /\ DropLine
  /\ IF LineEvent.type \in {"blank", "event_line", "junk"} THEN UNCHANGED <<block, pending>>
     ELSE LET taken == OnEvent(LineEvent, Payload)
          IN block' = taken.block /\ pending' = taken.chunks
  /\ UNCHANGED <<provider, answer, broken, phase, body, textOpen, out, span>>

(* Blank lines are skipped; a line that is no chat object is an error.     *)
TakeNdjson ==
  /\ Polled /\ HasLine /\ provider = "ollama"
  /\ DropLine
  /\ IF LineEvent.type = "blank" THEN UNCHANGED <<textOpen, pending>>
     ELSE LET taken == OnLine(LineEvent, Payload)
          IN textOpen' = taken.open /\ pending' = taken.chunks
  /\ UNCHANGED <<provider, answer, broken, phase, body, block, out, span>>

(* One chunk reaches the caller; an Err ends the stream behind it.         *)
Yield ==
  /\ phase = "streaming" /\ pending # <<>>
  /\ out' = Append(out, Head(pending))
  /\ span' = [span EXCEPT !.errored = @ \/ Head(pending) = Err]
  /\ IF Head(pending) = Err THEN phase' = "ended" /\ pending' = <<>>
                            ELSE pending' = Tail(pending) /\ UNCHANGED phase
  /\ UNCHANGED <<provider, answer, broken, body, buffer, block, textOpen>>

(* The body is exhausted: the stream yields None.                          *)
StreamEnds ==
  /\ Polled /\ ~HasLine /\ body = <<>>
  /\ phase' = "ended"
  /\ UNCHANGED <<provider, answer, broken, body, buffer, block, textOpen, pending, out, span>>

(* The caller drops the stream: after its end, after an error, or in the   *)
(* middle of it. The span goes with the stream.                            *)
DropStream ==
  /\ phase \in {"streaming", "ended"}
  /\ phase' = "over" /\ span' = Emit(span) /\ pending' = <<>>
  /\ UNCHANGED <<provider, answer, broken, body, buffer, block, textOpen, out>>

Next ==
  \/ \E reachable \in BOOLEAN : Complete(reachable)
  \/ OpenFails \/ OpenSse \/ OpenNdjson \/ OpenIter
  \/ \E n \in DOMAIN body : Frame(n)
  \/ FrameFails \/ TakeSse \/ TakeNdjson \/ Yield \/ StreamEnds \/ DropStream

Spec == Init /\ [][Next]_vars
---------------------------------------------------------------------------
(* What the caller is owed, read off the answer and not off its bytes.     *)

Closes(a, i) ==
  \/ provider = "anthropic"
  \/ IF i < Len(a.items) THEN a.items[i + 1].kind = "calls" ELSE a.ends = "end"

Deltas(text) ==
  IF provider = "callback" THEN <<TextDelta(text)>> ELSE [i \in DOMAIN text |-> TextDelta(<<text[i]>>)]

Owed(a, i) ==
  LET item == a.items[i]
  IN CASE item.kind = "text" ->
            Deltas(item.text) \o (IF provider = "callback" \/ Closes(a, i) THEN <<TextDone>> ELSE <<>>)
       [] item.kind = "calls" ->
            [j \in DOMAIN item.calls |->
               IF Blank(item.calls[j].json) \/ Parses(item.calls[j].json)
               THEN ToolCall(item.calls[j].id, ArgsOf(item.calls[j].json)) ELSE Err]
       [] item.kind = "junk" /\ provider = "ollama" -> <<Err>>
       [] OTHER -> <<>>

UpToErr(chunks) ==
  LET err == SelectInSeq(chunks, LAMBDA c : c = Err)
  IN IF err = 0 THEN chunks ELSE SubSeq(chunks, 1, err)

Expected ==
  UpToErr(FlattenSeq([i \in DOMAIN answer.items |-> Owed(answer, i)])
          \o (IF answer.ends = "end" THEN <<>> ELSE <<Err>>))

(* The chunks of a stream are those of the model's answer, in its order,   *)
(* none lost, doubled or damaged, action ids as they were registered,      *)
(* wherever the network cut the body into frames; a stream that ends says  *)
(* all of it, one whose connection breaks ends in an error                 *)
(* (complete_stream of both providers and of the seam).                    *)
StreamFaithful ==
  phase \in {"streaming", "ended"} =>
    IF broken /\ phase = "ended" THEN \E n \in 0..Len(Expected) : out = Append(SubSeq(Expected, 1, n), Err)
    ELSE IF phase = "ended" THEN out = Expected
    ELSE IsPrefix(out, Expected)

(* Text and calls of a sequence of items or of chunks.                     *)
TextOf(s) == FlattenSeq([i \in DOMAIN s |-> s[i].text])
CallsOf(s) == SelectSeq(s, LAMBDA c : c.kind = "ToolCall")

HasUnstreamedForm(a) ==
  \A i \in DOMAIN a.items :
    /\ a.items[i].kind # "junk"
    /\ \A j \in DOMAIN a.items[i].calls : Blank(a.items[i].calls[j].json) \/ Parses(a.items[i].calls[j].json)

(* A streamed call says what the unstreamed one says: the same text, the   *)
(* same calls in the same order, or an error where that one is an error    *)
(* (parse_body, items_from). Malformed lines exist only in a stream.       *)
BufferedAgrees ==
  phase = "ended" /\ ~broken /\ HasUnstreamedForm(answer) =>
     LET whole == Completed(provider, answer)
     IN IF whole = <<Err>> THEN out[Len(out)] = Err
        ELSE TextOf(out) = TextOf(whole) /\ CallsOf(out) = CallsOf(whole)

(* Every model call leaves exactly one llm event, also when the agent      *)
(* abandons the stream, and the event says error exactly when the caller   *)
(* was given one (LlmSpan: "drop, not end-of-stream").                     *)
SpanOnce ==
  LET saidErr == \E i \in DOMAIN out : out[i] = Err
  IN IF phase = "over" THEN ~span.open /\ span.ok + span.error = 1 /\ (span.error = 1) = saidErr
     ELSE span.ok + span.error = 0 /\ span.errored = saidErr
=============================================================================
