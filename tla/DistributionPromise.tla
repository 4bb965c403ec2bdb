-------------------------- MODULE DistributionPromise --------------------------
(***************************************************************************)
(* What the distributions promise, without vault, roots or receipts: for   *)
(* each epoch somebody promises once, for good, who may get what; a holder *)
(* takes at most one of the amounts promised to it.                        *)
(***************************************************************************)
EXTENDS Naturals

CONSTANTS Holders, Epochs, Amounts, Nothing

VARIABLES
  promised,  \* promised[e]: pairs of a holder and an amount, or Nothing
  taken      \* taken[<<h, e>>]: what h took for epoch e, or Nothing

vars == <<promised, taken>>

Init ==
  /\ promised = [e \in Epochs |-> Nothing]
  /\ taken = [c \in Holders \X Epochs |-> Nothing]

Promise(e, S) ==
  /\ promised[e] = Nothing
  /\ promised' = [promised EXCEPT ![e] = S]
  /\ UNCHANGED taken

Take(h, e, a) ==
  /\ promised[e] # Nothing
  /\ <<h, a>> \in promised[e]
  /\ a > 0
  /\ taken[<<h, e>>] = Nothing
  /\ taken' = [taken EXCEPT ![<<h, e>>] = a]
  /\ UNCHANGED promised

Next ==
  \/ \E e \in Epochs, S \in SUBSET (Holders \X Amounts) : Promise(e, S)
  \/ \E h \in Holders, e \in Epochs, a \in Amounts : Take(h, e, a)

Spec == Init /\ [][Next]_vars
===============================================================================
