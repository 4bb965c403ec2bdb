------------------------------ MODULE MCRegistry ------------------------------
(***************************************************************************)
(* Small registries for TLC.                                               *)
(***************************************************************************)
EXTENDS Registry

CONSTANTS w1, w2, n1, c1, c2, m1, m2

TwoWallets == {w1, w2}
OneName == {n1}
TwoCoins == {c1, c2}
TwoMints == {m1, m2}
===============================================================================
