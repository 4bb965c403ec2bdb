--------------------------- MODULE ThroneRefinement ---------------------------
(***************************************************************************)
(* The throne of the program plays the abstract game: the phase is read    *)
(* off the KingOfHill account and the clock, the bar is the recorded       *)
(* balance.  Everything else the program and the owners do is a stutter.   *)
(***************************************************************************)
EXTENDS Throne

Phase ==
  IF king.settled THEN "settled"
  ELSE IF king.current_champion = Nobody THEN "vacant"
  ELSE IF slot < king.settles_at_slot THEN "open"
  ELSE "closed"

Game == INSTANCE ThroneGame WITH
          phase    <- Phase,
          champion <- king.current_champion,
          bar      <- king.champion_balance,
          MaxBar   <- MaxCoins

\* take_throne, settle_throne and the clock together implement the game: a
\* capture beats the bar and happens before the close, the close comes once and
\* only after a capture, the settlement only after the close.
ImplementsGame == Game!Spec
===============================================================================
