---------------------------- MODULE MCLlmStreams ----------------------------
(***************************************************************************)
(* A small instance of LlmStreams: answers with text around and before     *)
(* calls, several calls at once, calls without arguments, with arguments   *)
(* that do not parse, ids with dots and a single underscore, blocks of     *)
(* unknown kind with fragments of their own, lines that are no events, and *)
(* each way a message can end. Characters are one byte, or with `e` two.   *)
(***************************************************************************)
EXTENDS LlmStreams

CONSTANT Alphabet  \* the text the answers are made of

Item(kind, text, calls) == [kind |-> kind, text |-> text, calls |-> calls]
Text == Item("text", Alphabet, <<>>)
Calls(calls) == Item("calls", <<>>, calls)
Other == Item("other", <<>>, <<>>)
Junk == Item("junk", <<>>, <<>>)

Open == [id |-> <<"r", ".", "o">>, json |-> <<"{", "v", "}">>]
Bare == [id |-> <<"r", "_", "o", ".", "n">>, json |-> <<>>]
Torn == [id |-> <<"o">>, json |-> <<"{">>]

OneByte == <<"h", "i">>
TwoBytes == <<"h", "e">>

MCItems ==
  {<<>>, <<Text>>, <<Text, Calls(<<Open>>)>>, <<Calls(<<Open, Bare>>), Text>>,
   <<Text, Calls(<<Bare>>), Text>>, <<Other, Calls(<<Open>>)>>, <<Calls(<<Bare>>), Other>>,
   <<Calls(<<Torn, Open>>)>>, <<Junk, Text>>}

MCAnswers == [items : MCItems, ends : {"end", "refusal", "error"}]
=============================================================================
