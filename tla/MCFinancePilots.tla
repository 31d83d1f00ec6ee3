--------------------------- MODULE MCFinancePilots ---------------------------
(* A clerk who drafts, a chief who approves, and a cashier who executes and *)
(* may approve too; three runs at a time, from any stage of the pilot on.   *)
EXTENDS FinancePilots, TLC

CONSTANTS Clerk, Chief, Cashier, R1, R2, R3

MCActors == {Clerk, Chief, Cashier}
MCRuns == {R1, R2, R3}
MCPermits == [a \in MCActors |->
    IF a = Clerk THEN {"FR0", "FR1", "FR2", "FR4", "FR6"}
    ELSE {"FR4", "FR5"}]
MCTeam == [s \in {"FR0", "FR1", "FR2", "FR4", "FR5", "FR6"} |->
    IF s = "FR4" THEN Chief ELSE IF s = "FR5" THEN Cashier ELSE Clerk]

(* The runs do the same things under other names.                           *)
RunSymmetry == Permutations(MCRuns)

=============================================================================
