------------------------- MODULE MCControlledWrites -------------------------
(* Small instances of ControlledWrites for TLC.  The clerk's role writes     *)
(* drivers only, and in the Emirates only; the admin's everything anywhere. *)
EXTENDS ControlledWrites, TLC

MCPermits == [a \in Actors |-> IF a = "ae_clerk" THEN {"driver"} ELSE Kinds]
MCScope == [a \in Actors |-> IF a = "ae_clerk" THEN {"AE"} ELSE Countries]

(* The second agent's record spells the country with its canonical id.      *)
MCCountryOf == [t \in Targets |-> IF t = "a2" THEN "saudi_arabia"
                                  ELSE IF t \in {"d2", "c2"} THEN "AE" ELSE "SA"]
MCBucket == [c \in Countries |-> IF c = "AE" THEN "AE" ELSE "saudi_arabia"]

MCSeed == [t \in Targets |-> CASE t = "d1" -> "pending_review"
                               [] t = "d2" -> "approved"
                               [] t = "a1" -> "active"
                               [] t \in Agents \ {"a1"} -> "inactive"
                               [] t \in Customers -> "enabled"]

RequestSymmetry == Permutations(Requests)
CallSymmetry == Permutations(Requests) \cup Permutations(Keys)
=============================================================================
