------------------------ MODULE DistributionRefinement ------------------------
(***************************************************************************)
(* The two instructions keep the promise: a commit promises the leaves the *)
(* root proves for the epoch it is committed for, a claim takes one.       *)
(***************************************************************************)
EXTENDS Distribution

\* "No account" is not mistaken for a promise.
ASSUME NoPromiseAssumption == \A S \in SUBSET (Holders \X Amounts) : S # NoAccount

\* A leaf of another epoch in the tree promises nothing.
PromisedBy(e) ==
  IF Committed(e)
    THEN {p \in Holders \X Amounts : Provable(p[1], e, p[2])}
    ELSE NoAccount

Promises == INSTANCE DistributionPromise WITH
              promised <- [e \in Epochs |-> PromisedBy(e)],
              taken    <- claimed,
              Nothing  <- NoAccount

\* A root once committed is never replaced, a receipt once opened never changes,
\* and no receipt is opened for what was not promised.
KeepsPromise == Promises!Spec
===============================================================================
