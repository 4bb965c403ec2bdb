------------------------------- MODULE MCMerkle -------------------------------
(***************************************************************************)
(* Trees for TLC: of one to nine leaves, in one order, and two lists that  *)
(* name a leaf twice; tried with all these leaves and with one for a       *)
(* listed holder and another amount.                                       *)
(***************************************************************************)
EXTENDS Merkle

L(holder, amount) == <<holder, 7, amount>>

FirstLeaves(n) == [i \in 1..n |-> L(i, 1)]

NineLeaves == {L(i, 1) : i \in 1..9}
TenLeaves == NineLeaves \cup {L(1, 2)}

UpToNine ==
  {FirstLeaves(n) : n \in 1..9}
    \cup {<<L(1, 1), L(2, 1), L(1, 1)>>, <<L(1, 1), L(1, 1)>>}

NoStrays == {}

\* Pairs of nodes of the tree and of leaves outside it.
SomeStrays ==
  {HashPair(LeafHash(L(9, 1)), LeafHash(L(9, 1))),
   HashPair(LeafHash(L(1, 1)), LeafHash(L(9, 1))),
   HashPair(LeafHash(L(1, 1)), LeafHash(L(3, 1)))}
===============================================================================
