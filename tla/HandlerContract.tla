-------------------------- MODULE HandlerContract --------------------------
(***************************************************************************)
(* What an action handler whose effect happens elsewhere owes the agent:   *)
(* each execution is decided once, run or refused; a call that returns     *)
(* "executed" or "rejected" tells that decision, and one that returns      *)
(* "error" leaves it open, so the deed may still be done later.            *)
(***************************************************************************)
CONSTANT Executions

VARIABLES
  phase,     \* phase[e]: "idle", "called" or what the call returned
  verdict    \* verdict[e]: "open", "ran" or "refused"

contractVars == <<phase, verdict>>

ContractInit ==
  /\ phase = [e \in Executions |-> "idle"]
  /\ verdict = [e \in Executions |-> "open"]

Call(e) ==
  /\ phase[e] = "idle"
  /\ phase' = [phase EXCEPT ![e] = "called"]
  /\ UNCHANGED verdict

(* Only a called execution is decided, possibly after its call returned.    *)
SettleVerdict(e, v) ==
  /\ phase[e] # "idle"
  /\ verdict[e] = "open"
  /\ verdict' = [verdict EXCEPT ![e] = v]
  /\ UNCHANGED phase

ReturnOutcome(e, outcome) ==
  /\ phase[e] = "called"
  /\ outcome = "executed" => verdict[e] = "ran"
  /\ outcome = "rejected" => verdict[e] = "refused"
  /\ phase' = [phase EXCEPT ![e] = outcome]
  /\ UNCHANGED verdict

ContractNext ==
  \E e \in Executions :
    \/ Call(e)
    \/ \E v \in {"ran", "refused"} : SettleVerdict(e, v)
    \/ \E outcome \in {"executed", "rejected", "error"} : ReturnOutcome(e, outcome)

ContractSpec == ContractInit /\ [][ContractNext]_contractVars
=============================================================================
