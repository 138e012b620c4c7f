-------------------------- MODULE MCWebhookSession --------------------------
(***************************************************************************)
(* Two sessions of one service, a card in each, on hosts that go along, or *)
(* deny, fail, answer nonsense or not at all at one endpoint.              *)
(***************************************************************************)
EXTENDS WebhookSession, TLC

CONSTANTS e1, e2, s1, s2

MCSessionOf == (e1 :> s1) @@ (e2 :> s2)

Always(kind) == [sequence |-> <<>>, then |-> kind]
DryRun(sequence, then) == [exists |-> TRUE, sequence |-> sequence, then |-> then]
Nothing == [p \in {} |-> <<>>]
At1(endpoint, behaviors) == [p \in {endpoint} |-> behaviors]
Issue(n) == [status |-> "200", body |-> [kind |-> "principal", of |-> n]]

(* Goes along, with a principal of its own for each session.               *)
Willing == [overrides |-> At1("verify_session", <<Issue(1), Issue(2)>>), authz |-> Always("allow"),
            dry_run |-> DryRun(<<>>, "preview"), slots |-> TRUE]
Denying == [Willing EXCEPT !.authz = [sequence |-> <<"allow", "allow", "allow">>, then |-> "deny"],
                           !.dry_run = DryRun(<<"preview">>, "rejected")]
Refusing == [Willing EXCEPT !.overrides = At1("verify_session",
  <<Answer("401", "error"), Answer("500", "principal")>>)]
Unset == [Willing EXCEPT !.overrides = Nothing, !.dry_run.exists = FALSE]
Slotless == [Willing EXCEPT !.overrides = Nothing, !.slots = FALSE]
Silent == [Willing EXCEPT !.overrides =
  At1("authorize", <<Answer("pass", "none"), Answer("timeout", "none"), Answer("200", "nonsense")>>)]
Failing == [Willing EXCEPT !.overrides = At1("authorize", <<Answer("pass", "none"), Answer("500", "allow")>>)]

MCScripts == {Willing, Denying, Refusing, Unset, Slotless, Silent, Failing}
=============================================================================
