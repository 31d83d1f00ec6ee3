-------------------------- MODULE MCFinanceCommands --------------------------
(* Instances of FinanceCommands for TLC. *)
EXTENDS FinanceCommands, TLC

CONSTANTS r1, r2, r3, r4, ana, bob, s1, k1, k2

MCPermits == (ana :> {"finance:adjust", "finance:adjust_approve", "settlements:prepare",
                      "settlements:execute", "payouts:prepare", "finance:read"})
          @@ (bob :> {"finance:adjust_approve", "finance:adjust", "payouts:prepare",
                      "payouts:execute", "settlements:create", "finance:read"})
MCScope == (ana :> {}) @@ (bob :> {"AE"})
MCCountryOf == s1 :> "SA"
MCPrincipal == s1 :> 2

Base == [op |-> "recon.run", actor |-> ana, res |-> s1, client |-> k1, amount |-> 2,
         dir |-> "decrease_company_claim", valid |-> TRUE, proven |-> TRUE, row |-> 1, to |-> "cancelled"]
Of(op, actor, client) == [Base EXCEPT !.op = op, !.actor = actor, !.client = client]

\* Every operation, two keys where a second row may appear, both actors where a
\* second pair of eyes is asked for, a refund above what is refundable.
MCMenu ==
    {Of("adjustment.create", ana, k) : k \in {k1, k2}}
    \cup {[Of(op, a, k1) EXCEPT !.row = i] : op \in Deciding, a \in {ana, bob}, i \in {1, 2}}
    \cup {Of("refund.account", ana, k1), [Of("refund.account", ana, k1) EXCEPT !.amount = 3]}
    \cup {Of("payout.prepare", ana, k1)}
    \cup {[Of("payout.transition", a, k1) EXCEPT !.to = t] :
             a \in {ana, bob}, t \in {"ready_for_execute", "cancelled"}}
    \cup {Of("snapshot.materialize", ana, k) : k \in {k1, k2}}
    \cup {Of("snapshot.materialize", bob, k1), Of("recon.run", ana, k1)}
    \cup {Of("chargeback.account", ana, k1), Of("payment.prepare", ana, k1)}

CallSymmetry == Permutations(Requests)

\* Two adjustments of one claim and their decisions, for four calls.
AdjustmentMenu == {c \in MCMenu : c.op \in {"adjustment.create", "adjustment.approve"}}
=============================================================================
