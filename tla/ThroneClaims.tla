----------------------------- MODULE ThroneClaims -----------------------------
(***************************************************************************)
(* Statements of the documentation about the throne that the code does not *)
(* keep.                                                                   *)
(***************************************************************************)
EXTENDS Throne

\* docs/throne.md, "Settled": after settles_at_slot any oracle call to
\* settle_throne succeeds -- so at least one choice of account must.
SettleSucceedsAfterDeadline ==
  king.current_champion # Nobody /\ ~king.settled /\ SettlementReady =>
    \E a \in Accounts : SettleThroneResult(Oracle, a) = "Ok"

\* docs/security.md, "T4: NFT escape": before settlement the NFT cannot leave the
\* chain of champions, a champion cannot transfer it out.
NftStaysWithChampion ==
  king.current_champion # Nobody /\ ~king.settled =>
    \A a \in Accounts : token[a].amount = 1 => AccountOwner[a] = king.current_champion
===============================================================================
