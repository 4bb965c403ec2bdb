----------------------------- MODULE Distribution -----------------------------
(***************************************************************************)
(* Epoch payouts to holders: the `commit_distribution_root` and            *)
(* `claim_holder_fees` instructions of programs/cols, the `Distribution`   *)
(* and `HolderClaim` accounts they open, and the one fee vault that every  *)
(* epoch is paid from.                                                     *)
(*                                                                         *)
(* A behaviour starts right after `init_config`.  A merkle root stands for *)
(* the set of leaves that have an inclusion proof under it (module Merkle  *)
(* says when that is the set it was built from); what the set holds is the *)
(* oracle's choice, and the program cannot look inside.  The action of an  *)
(* instruction is enabled when its result is "Ok".                         *)
(***************************************************************************)
EXTENDS Naturals, FiniteSets, FiniteSetsExt

CONSTANTS
  Holders,       \* wallets that may be listed
  Oracle,        \* config.oracle, the only signer that may commit
  Epochs,        \* the epochs that may be committed
  Amounts,       \* the lamports a leaf may grant or a claim may name
  Trees,         \* the sets of leaves the oracle may commit
  MaxPool,       \* the largest pool_lamports
  MaxLamports,   \* the fee vault never holds more
  RentMinimum,   \* the runtime rejects a transaction that leaves the vault a
                 \* balance above zero and below this
  NoAccount      \* an address where no account has been opened

Leaf == [holder: Holders, epoch: Epochs, amount: Amounts]

ASSUME HoldersAssumption == Oracle \notin Holders

ASSUME AmountsAssumption ==
  /\ Amounts \subseteq Nat
  /\ MaxPool \in Nat
  /\ MaxLamports \in Nat
  /\ RentMinimum \in Nat

ASSUME TreesAssumption == Trees \subseteq SUBSET Leaf

ASSUME NoAccountAssumption ==
  /\ NoAccount \notin [root: Trees, pool_lamports: 0..MaxPool]
  /\ NoAccount \notin Amounts

VARIABLES
  distribution,  \* distribution[e]: the Distribution account of epoch e
  claimed,       \* claimed[<<h, e>>]: amount_claimed of the HolderClaim receipt
  fee_vault,     \* lamports of the fee vault
  paid           \* paid[<<h, e>>]: lamports h got from the vault for epoch e

vars == <<distribution, claimed, fee_vault, paid>>

DistributionAccount == [root: Trees, pool_lamports: 0..MaxPool]

Committed(e) == distribution[e] # NoAccount
Opened(h, e) == claimed[<<h, e>>] # NoAccount

-------------------------------------------------------------------------------
(***************************************************************************)
(* The instructions.  Slips are what a plausible mistake would make of the *)
(* definition that follows them; the specification does not use them.      *)
(***************************************************************************)

CommitResult_Again(signer, e, pool) ==
  IF signer # Oracle THEN "OracleMismatch"
  ELSE IF pool = 0 THEN "InvalidAmount"
  ELSE "Ok"

CommitResult(signer, e, pool) ==
  IF signer # Oracle THEN "OracleMismatch"
  ELSE IF Committed(e) THEN "AlreadyInUse"
  ELSE IF pool = 0 THEN "InvalidAmount"
  ELSE "Ok"

CommitDistributionRoot(signer, e, root, pool) ==
  /\ CommitResult(signer, e, pool) = "Ok"
  /\ distribution' = [distribution EXCEPT ![e] = [root |-> root, pool_lamports |-> pool]]
  /\ UNCHANGED <<claimed, fee_vault, paid>>

\* compute_distribution_leaf and verify_merkle_proof, with the proof that suits
\* the claim best.
Provable(h, e, amount) ==
  [holder |-> h, epoch |-> e, amount |-> amount] \in distribution[e].root

Covers(amount) == fee_vault >= amount

\* The runtime's own condition on every account a transaction touches.
RentExempt(balance) == balance = 0 \/ balance >= RentMinimum

\* No account at the epoch's address is Anchor's error: EpochNotCommitted only
\* compares the epoch with one that the address was derived from.
\* The receipt is opened before the handler runs, and a fresh one has nothing
\* claimed: the handler's own AlreadyClaimed test never fires.
ClaimResult(h, e, amount) ==
  IF ~Committed(e) THEN "AccountNotInitialized"
  ELSE IF Opened(h, e) THEN "AlreadyInUse"
  ELSE IF amount = 0 THEN "InvalidAmount"
  ELSE IF ~Provable(h, e, amount) THEN "InvalidProof"
  ELSE IF ~Covers(amount) THEN "InsufficientVault"
  ELSE IF ~RentExempt(fee_vault - amount) THEN "InsufficientFundsForRent"
  ELSE "Ok"

ClaimHolderFees_NoReceipt(h, e, amount) ==
  /\ ClaimResult(h, e, amount) = "Ok"
  /\ fee_vault' = fee_vault - amount
  /\ paid' = [paid EXCEPT ![<<h, e>>] = @ + amount]
  /\ UNCHANGED <<distribution, claimed>>

ClaimHolderFees_WrongWay(h, e, amount) ==
  /\ ClaimResult(h, e, amount) = "Ok"
  /\ fee_vault' = fee_vault + amount
  /\ claimed' = [claimed EXCEPT ![<<h, e>>] = amount]
  /\ UNCHANGED <<distribution, paid>>

ClaimHolderFees(h, e, amount) ==
  /\ ClaimResult(h, e, amount) = "Ok"
  /\ fee_vault' = fee_vault - amount
  /\ paid' = [paid EXCEPT ![<<h, e>>] = @ + amount]
  /\ claimed' = [claimed EXCEPT ![<<h, e>>] = amount]
  /\ UNCHANGED distribution

-------------------------------------------------------------------------------
(***************************************************************************)
(* The world around the program: lamports reach the vault from anybody,    *)
(* and the oracle lists whom it likes.  What more an oracle promises that  *)
(* keeps the rules is in module Payout.                                    *)
(***************************************************************************)

Fund(n) ==
  /\ fee_vault + n <= MaxLamports
  /\ RentExempt(fee_vault + n)
  /\ fee_vault' = fee_vault + n
  /\ UNCHANGED <<distribution, claimed, paid>>

-------------------------------------------------------------------------------
Init ==
  /\ distribution = [e \in Epochs |-> NoAccount]
  /\ claimed = [c \in Holders \X Epochs |-> NoAccount]
  /\ paid = [c \in Holders \X Epochs |-> 0]
  /\ fee_vault \in {n \in 0..MaxLamports : RentExempt(n)}

Commit ==
  \E signer \in Holders \cup {Oracle}, e \in Epochs, root \in Trees, pool \in 0..MaxPool :
    CommitDistributionRoot(signer, e, root, pool)

Claim(h) == \E e \in Epochs, amount \in Amounts : ClaimHolderFees(h, e, amount)

Next ==
  \/ Commit
  \/ \E h \in Holders : Claim(h)
  \/ \E n \in 1..MaxLamports : Fund(n)

Spec == Init /\ [][Next]_vars

-------------------------------------------------------------------------------
(***************************************************************************)
(* What the payouts promise.                                               *)
(***************************************************************************)

\* Every variable holds what its account can hold.
TypeOK ==
  /\ distribution \in [Epochs -> DistributionAccount \cup {NoAccount}]
  /\ claimed \in [Holders \X Epochs -> Amounts \cup {NoAccount}]
  /\ paid \in [Holders \X Epochs -> Nat]
  /\ fee_vault \in 0..MaxLamports

\* The receipt is the whole truth about a payout: what a holder got from the vault
\* for an epoch is the one amount its receipt records, whatever sequence of
\* claims it tried and however often the oracle listed it; and that amount has a
\* proof under the root committed for that very epoch.
PaidOnceWhatWasProven ==
  \A h \in Holders, e \in Epochs :
    IF Opened(h, e)
      THEN /\ paid[<<h, e>>] = claimed[<<h, e>>]
           /\ Committed(e)
           /\ Provable(h, e, claimed[<<h, e>>])
      ELSE paid[<<h, e>>] = 0

\* Lamports leave the vault only to a holder that opens its receipt in the same
\* step, is listed, and gets exactly what leaves; the oracle never gets any.
VaultPaysOnlyListed ==
  [][ fee_vault' < fee_vault =>
        \E h \in Holders, e \in Epochs :
          /\ ~Opened(h, e) /\ Opened(h, e)'
          /\ Provable(h, e, fee_vault - fee_vault')
          /\ paid' = [paid EXCEPT ![<<h, e>>] = fee_vault - fee_vault'] ]_vars
===============================================================================
