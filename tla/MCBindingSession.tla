-------------------------- MODULE MCBindingSession --------------------------
(* Three calls that may all be waiting at once, and two events of turns.     *)
EXTENDS BindingSession
=============================================================================
