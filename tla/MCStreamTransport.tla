------------------------- MODULE MCStreamTransport -------------------------
(* Three frames of up to three events over a queue of two: a turn can fill  *)
(* the queue and go on producing.                                           *)
EXTENDS StreamTransport
=============================================================================
