------------------------------- MODULE MCThrone -------------------------------
(***************************************************************************)
(* Small thrones for TLC: two wallets, each with one account for the NFT,  *)
(* or one of them with two.                                                *)
(***************************************************************************)
EXTENDS ThroneRefinement, ThroneClaims, TLC

CONSTANTS w1, w2, a1, a2, b1, vault

TwoWallets == {w1, w2}
OneEach == {vault, a1, a2}
OneEachOwner == vault :> EscrowPda @@ a1 :> w1 @@ a2 :> w2

TwoForOne == {vault, a1, b1, a2}
TwoForOneOwner == OneEachOwner @@ b1 :> w1

NoMeddler == {}
===============================================================================
