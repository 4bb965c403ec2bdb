------------------------------- MODULE MCPayout -------------------------------
(***************************************************************************)
(* Small payouts for TLC.                                                  *)
(***************************************************************************)
EXTENDS Payout

CONSTANTS h1, h2, h3

ThreeHolders == {h1, h2, h3}

\* Per epoch a list of one holder, one of two and one of three; and lists that name
\* a holder twice, a leaf of another epoch, and a leaf of zero.
SmallLists ==
  UNION {{ << <<h1, e, 2>> >>,
           << <<h2, e, 1>>, <<h3, e, 2>> >>,
           << <<h1, e, 1>>, <<h2, e, 1>>, <<h3, e, 2>> >> } : e \in 1..2}
  \cup { << <<h1, 1, 1>>, <<h2, 1, 2>>, <<h1, 1, 2>> >>,
         << <<h1, 1, 2>>, <<h3, 2, 1>> >>,
         << <<h2, 2, 0>>, <<h3, 2, 1>> >> }
===============================================================================
