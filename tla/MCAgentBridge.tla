---------------------------- MODULE MCAgentBridge ----------------------------
(* Small instances of AgentBridge for TLC.  The Saudi agents are those of    *)
(* the seed data, one active and the others not, whose records spell the     *)
(* country "SA"; the records of the Emirati agents carry the canonical id.   *)
EXTENDS AgentBridge, TLC

Emirati == {"ae0", "ae1"}
Spelling == [a \in Agents |-> IF a \in Emirati THEN "uae" ELSE "SA"]
MCBucket == [c \in Countries |-> IF c = "uae" THEN "uae" ELSE "saudi_arabia"]
MCSeed   == [a \in Agents |-> CASE a \in {"sa1", "ae1"} -> "active"
                                [] a = "sa2" -> "suspended"
                                [] OTHER -> "inactive"]
RequestSymmetry == Permutations(Requests)
=============================================================================
