--------------------------- MODULE MCSettlementV2 ---------------------------
(* Small instances of SettlementV2 for TLC.  Both actors may do everything *)
(* in the first instance; the second separates the duties.                 *)
EXTENDS SettlementV2, TLC

AllPermits == [a \in Actors |-> Permissions]
MCPermits == [a \in Actors |-> CASE a = "maker" -> {"prepare", "execute"}
                               [] a = "checker" -> {"approve", "reverse"}
                               [] a = "super" -> Permissions]
IdSymmetry == Permutations(Payments) \cup Permutations(Settlements)
                  \cup Permutations(Keys)
=============================================================================
