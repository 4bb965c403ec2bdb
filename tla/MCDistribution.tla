---------------------------- MODULE MCDistribution ----------------------------
(***************************************************************************)
(* Small distributions for TLC.                                            *)
(***************************************************************************)
EXTENDS DistributionRefinement

CONSTANTS h1, h2

TwoHolders == {h1, h2}

L(h, e, a) == [holder |-> h, epoch |-> e, amount |-> a]

\* A plain tree for each epoch, one that lists a holder twice, one that mixes
\* epochs, one with a leaf of zero, and the empty one.
AnyTrees ==
  { {L(h1, 1, 1), L(h2, 1, 2)}, {L(h1, 2, 2), L(h2, 2, 2)},
    {L(h1, 1, 1), L(h1, 1, 2)}, {L(h1, 1, 2), L(h2, 2, 1)},
    {L(h1, 2, 0), L(h2, 2, 1)}, {} }
===============================================================================
