--------------------------- MODULE MCAgentSession ---------------------------
(***************************************************************************)
(* A small instance of AgentSession. Two routes, two records: "elsewhere"  *)
(* is the default context and resolves nothing. `archive` mutates and takes *)
(* its record from the context, `note` from the utterance; `find` is        *)
(* read-only and takes an optional record from the context.                *)
(***************************************************************************)
EXTENDS AgentSession

CONSTANTS elsewhere, onA, onB, a, b, junk

MCContexts == {elsewhere, onA, onB}

MCRoute == [c \in MCContexts |-> IF c = elsewhere THEN "home" ELSE "records"]

MCResolve ==
  [c \in MCContexts |-> [n \in {"record", "note"} |->
     IF n # "record" \/ c = elsewhere THEN None ELSE IF c = onA THEN a ELSE b]]

Spec1(n, source, required) == [name |-> n, source |-> source, required |-> required]

MCDef ==
  [archive |-> [mutates |-> TRUE,
                params |-> <<Spec1("record", "context", TRUE), Spec1("note", "utterance", TRUE)>>],
   find    |-> [mutates |-> FALSE,
                params |-> <<Spec1("record", "context", FALSE)>>]]

NoArgs == [n \in {} |-> a]

(* A good call of each action, one argument of a wrong type, one missing,   *)
(* one attempt to write a context param, one unregistered action.           *)
MCToolCalls ==
  {[action |-> "archive", args |-> [note |-> a]],
   [action |-> "archive", args |-> [note |-> junk]],
   [action |-> "archive", args |-> NoArgs],
   [action |-> "find",    args |-> NoArgs],
   [action |-> "find",    args |-> [record |-> b]],
   [action |-> "ghost",   args |-> NoArgs]}
=============================================================================
