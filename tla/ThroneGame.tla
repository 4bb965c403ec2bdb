------------------------------ MODULE ThroneGame ------------------------------
(***************************************************************************)
(* What the throne of one pet promises its players, without tokens, slots  *)
(* or a token program: a vacant throne is taken by anyone who holds the    *)
(* memecoin; an open one goes to whoever beats the recorded bar; once      *)
(* closed the champion is final; settling only says so.                    *)
(***************************************************************************)
EXTENDS Naturals

CONSTANTS Wallets, Nobody, MaxBar

VARIABLES phase, champion, bar

vars == <<phase, champion, bar>>

Init == phase = "vacant" /\ champion = Nobody /\ bar = 0

Capture(w, b) ==
  /\ phase \in {"vacant", "open"}
  /\ b > bar
  /\ phase' = "open"
  /\ champion' = w
  /\ bar' = b

Close ==
  /\ phase = "open"
  /\ phase' = "closed"
  /\ UNCHANGED <<champion, bar>>

Settle ==
  /\ phase = "closed"
  /\ phase' = "settled"
  /\ UNCHANGED <<champion, bar>>

Next == Close \/ Settle \/ \E w \in Wallets, b \in 1..MaxBar : Capture(w, b)

Spec == Init /\ [][Next]_vars
===============================================================================
