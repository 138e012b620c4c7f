------------------------- MODULE MCServiceTelemetry -------------------------
(***************************************************************************)
(* Two streams at once, an action with two seams, two attempts.            *)
(***************************************************************************)
EXTENDS ServiceTelemetry, TLC

CONSTANTS s1, s2

MCSeams == <<"authorize", "dry_run">>
MCSymmetry == Permutations({s1, s2})
=============================================================================
