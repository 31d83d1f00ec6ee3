----------------------------- MODULE PilotChain -----------------------------
(***************************************************************************)
(* What the finance pilots promise together: each stage takes effect at     *)
(* most once, and only after the stage before it.                           *)
(***************************************************************************)
EXTENDS Naturals, Sequences

CONSTANT Chain       \* the stages, in their order

VARIABLE applied     \* the stages that have taken effect

Upto(n) == {Chain[i] : i \in 1..n}

Init == \E n \in 0..Len(Chain) : applied = Upto(n)

Apply(n) ==
    /\ applied = Upto(n)
    /\ applied' = Upto(n + 1)

Next == \E n \in 0..(Len(Chain) - 1) : Apply(n)

Spec == Init /\ [][Next]_applied

=============================================================================
