-------------------------- MODULE MCWebhookExecute --------------------------
(* Two executions that share a host and its network, or one on a host with  *)
(* two worker threads.                                                      *)
EXTENDS WebhookExecute

CONSTANTS e1, e2   \* executions
=============================================================================
