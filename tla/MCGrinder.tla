------------------------------ MODULE MCGrinder ------------------------------
(***************************************************************************)
(* Small grinders for TLC: two keys with the suffix, one without.          *)
(***************************************************************************)
EXTENDS Grinder

CONSTANTS k1, k2, k3

ThreeKeys == {k1, k2, k3}
TwoMatch == {k1, k2}
===============================================================================
