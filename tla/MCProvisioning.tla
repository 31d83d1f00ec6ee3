---------------------------- MODULE MCProvisioning ----------------------------
(* Instances of Provisioning for TLC. *)
EXTENDS Provisioning, TLC

CONSTANTS u1, u2

UidSymmetry == Permutations({u1, u2})
=============================================================================
