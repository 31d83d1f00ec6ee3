--------------------------- MODULE MCDriverPilots ---------------------------
(* Two pilots, the first of them the one phase 5N knows, and a reconcile     *)
(* run, all of which may overlap.                                            *)
EXTENDS DriverPilots, TLC

CONSTANTS m1, m2, n1
=============================================================================
