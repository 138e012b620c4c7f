--------------------------- MODULE MCClientSession ---------------------------
(* ClientSession on small instances. *)
EXTENDS ClientSession

CONSTANTS list, detail   \* two routes
=============================================================================
