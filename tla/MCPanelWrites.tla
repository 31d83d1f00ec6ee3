--------------------------- MODULE MCPanelWrites ---------------------------
(* Two super_admins, a regional admin and one target of every other kind. *)
EXTENDS PanelWrites, TLC
CONSTANTS ann, bea, reg, t1, m1, n1, sa, ae, ag

All == {"users:manage", "customers:manage", "drivers:approve", "agents:manage"}
MCSession ==
    ann :> [role |-> "super_admin", may |-> All, country |-> None] @@
    bea :> [role |-> "super_admin", may |-> All, country |-> None] @@
    reg :> [role |-> "country_admin", may |-> All \ {"users:manage"}, country |-> sa]
MCHome == [t \in Tickets |-> sa]

Do(actor, kind, target, action) ==
    [kind |-> kind, target |-> target, action |-> action, actor |-> actor,
     role |-> "none", country |-> None, agent |-> None, status |-> None,
     was |-> "country_admin", off |-> FALSE]
Personnel ==
    {Do(ann, "identity", reg, "deactivate"), Do(ann, "identity", ann, "deactivate"),
     [Do(bea, "identity", reg, "change_role") EXCEPT !.role = "accountant"],
     [Do(bea, "identity", reg, "clear_scope") EXCEPT !.was = None],
     [Do(bea, "identity", reg, "assign_agent_scope") EXCEPT !.was = "accountant",
        !.country = sa, !.agent = ag],
     [Do(ann, "identity", reg, "create_persona") EXCEPT !.was = "none", !.role = "super_admin"],
     Do(reg, "identity", bea, "deactivate")}
Desk ==
    {Do(ann, "support", t1, "resolve"), Do(reg, "support", t1, "assign"),
     [Do(ann, "support", t1, "change_status") EXCEPT !.status = "new"]}
News ==
    {Do(ann, "compose", n1, "compose_send"), Do(ann, "mark", None, "mark_read"),
     [Do(reg, "compose", n1, "compose_send") EXCEPT !.country = ae]}
Data == {Do(ann, "master", m1, action) : action \in {"create", "archive", "activate"}}
MCMenus == {Personnel, Desk, News, Data}

CallSymmetry == Permutations(Calls) \cup Permutations(Keys)
=============================================================================
