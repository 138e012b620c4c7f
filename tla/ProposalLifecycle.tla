-------------------------- MODULE ProposalLifecycle --------------------------
(***************************************************************************)
(* What a propose-only session promises, without saying how: the agent may *)
(* offer cards, each describing one deed; the user decides about a card;   *)
(* the application performs the deed of an approved card, at most once,    *)
(* and exactly as the card described it.                                   *)
(***************************************************************************)
EXTENDS Naturals, Sequences

CONSTANT Deeds   \* what a card can propose: an action with its params

VARIABLES
  cards,       \* the cards offered so far: [deed, phase]
  performed    \* the deeds the application was asked to perform: [card, deed]

lifecycleVars == <<cards, performed>>

Phases == {"pending", "approved", "running",
           "executed", "failed", "rejected", "expired"}

LifecycleTypeOK ==
  /\ cards \in Seq([deed : Deeds, phase : Phases])
  /\ performed \in Seq([card : Nat \ {0}, deed : Deeds])

InPhase(p) == {i \in DOMAIN cards : cards[i].phase = p}

Move(i, from, to) ==
  /\ i \in InPhase(from)
  /\ cards' = [cards EXCEPT ![i].phase = to]

LifecycleInit == cards = <<>> /\ performed = <<>>

Offer(d) ==
  /\ cards' = Append(cards, [deed |-> d, phase |-> "pending"])
  /\ UNCHANGED performed

(* One card at a time is between the user's consent and its outcome. *)
Approve(i) ==
  /\ InPhase("approved") \cup InPhase("running") = {}
  /\ Move(i, "pending", "approved")
  /\ UNCHANGED performed

Reject(i) == Move(i, "pending", "rejected") /\ UNCHANGED performed

(* The world moved on: all pending cards are withdrawn together. *)
Withdraw ==
  /\ InPhase("pending") # {}
  /\ cards' = [i \in DOMAIN cards |->
       IF i \in InPhase("pending") THEN [cards[i] EXCEPT !.phase = "expired"] ELSE cards[i]]
  /\ UNCHANGED performed

(* An approved card that no longer holds is voided, its deed undone. *)
Void(i) == Move(i, "approved", "expired") /\ UNCHANGED performed

Perform(i) ==
  /\ Move(i, "approved", "running")
  /\ performed' = Append(performed, [card |-> i, deed |-> cards[i].deed])

Settle(i, outcome) == Move(i, "running", outcome) /\ UNCHANGED performed

LifecycleNext ==
  \/ \E d \in Deeds : Offer(d)
  \/ Withdraw
  \/ \E i \in DOMAIN cards :
       \/ Approve(i) \/ Reject(i) \/ Void(i) \/ Perform(i)
       \/ \E outcome \in {"executed", "failed"} : Settle(i, outcome)

LifecycleSpec == LifecycleInit /\ [][LifecycleNext]_lifecycleVars
=============================================================================
