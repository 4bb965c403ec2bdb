-------------------------------- MODULE Payout --------------------------------
(***************************************************************************)
(* Payouts from end to end: the oracle service builds a merkle tree from   *)
(* its list of leaves, with the builder of programs/cols/src/utils.rs or   *)
(* that of sdk/src/merkle.ts, publishes the proofs the builder makes and   *)
(* commits the root; holders claim with a published proof, or by hand with *)
(* any siblings they know; the program checks the proof, opens the receipt *)
(* and pays.  Module Distribution has the same instructions with the set   *)
(* of listed leaves in place of root and proof.                            *)
(*                                                                         *)
(* Instructions reach the program with the account lists of its own        *)
(* interface; module Wire has those that the repository's clients make.    *)
(*                                                                         *)
(* Whether the oracle keeps the rules of docs/distributions.md is settled  *)
(* at the start of a behaviour: what the program promises by itself is     *)
(* stated for all oracles, the rest for an honest one.                     *)
(***************************************************************************)
EXTENDS MerkleTree, FiniteSets, FiniteSetsExt

CONSTANTS
  Holders,      \* wallets that may be listed
  Oracle,       \* config.oracle
  Epochs,       \* the epochs that may be committed
  Amounts,      \* the lamports a claim may name
  Lists,        \* the lists of leaves the oracle may build a tree from
  Pools,        \* the pool_lamports the oracle may state
  MaxLamports,  \* the fee vault never holds more
  RentMinimum,  \* the runtime leaves no balance above zero and below this
  MaxProof,     \* the longest proof put together by hand
  NoAccount     \* an address where no account has been opened

ASSUME ListsAssumption == Lists \subseteq Seq(Holders \X Epochs \X Amounts) \ {<<>>}

\* Keys, epochs and lamports are machine words.
ASSUME WordsAssumption ==
  IsFiniteSet(Holders) /\ IsFiniteSet(Epochs) /\ IsFiniteSet(Amounts)

ASSUME LamportsAssumption ==
  /\ Amounts \subseteq Nat
  /\ Pools \subseteq Nat /\ \E m \in Pools : \A p \in Pools : p <= m
  /\ MaxLamports \in Nat /\ RentMinimum \in Nat

VARIABLES
  honest,        \* whether the oracle keeps the rules
  list,          \* list[e]: what the oracle service built epoch e's tree from
  distribution,  \* distribution[e]: the Distribution account of epoch e
  claimed,       \* claimed[<<h, e>>]: amount_claimed of the HolderClaim receipt
  fee_vault,     \* lamports of the fee vault
  paid           \* paid[<<h, e>>]: lamports h got from the vault for epoch e

vars == <<honest, list, distribution, claimed, fee_vault, paid>>

Committed(e) == distribution[e] # NoAccount
Opened(h, e) == claimed[<<h, e>>] # NoAccount

\* The leaves of a list, as module Distribution writes them.
Listed(l) == {[holder |-> l[i][1], epoch |-> l[i][2], amount |-> l[i][3]] : i \in DOMAIN l}

ASSUME NoAccountAssumption ==
  /\ \A l \in Lists, pool \in Pools :
       NoAccount \notin {[root |-> RootOf(l), pool_lamports |-> pool],
                         [root |-> Listed(l), pool_lamports |-> pool]}
  /\ NoAccount \notin Amounts

\* The accounts with the listed leaves in place of the root.
Abstract == INSTANCE Distribution WITH
  Trees        <- {Listed(l) : l \in Lists},
  MaxPool      <- Max(Pools),
  distribution <- [e \in Epochs |->
                     IF Committed(e)
                       THEN [root |-> Listed(list[e]),
                             pool_lamports |-> distribution[e].pool_lamports]
                       ELSE NoAccount]

-------------------------------------------------------------------------------
(***************************************************************************)
(* What is known of the trees, computed once for each list.                *)
(***************************************************************************)

RootOfList == [l \in Lists |-> RootOf(l)]

Replaced(l, i) == \E j \in (i + 1)..Len(l) : l[j][1] = l[i][1]

\* Whose proofs there are to find: the Rust builder makes one for any position; the
\* TypeScript one keeps them by holder, and a later listing of a holder replaces
\* the proof of an earlier one.
Published(l) == {i \in DOMAIN l : Builder = "sdk" => ~Replaced(l, i)}

PublishedProofs == [l \in Lists |-> [i \in DOMAIN l |-> ProofFor(l, i - 1)]]

\* Whether a listing's proof leads to the root: with the TypeScript builder it
\* misses a sibling for every node that was hashed with itself.
ProofFits(l, i) == Builder = "rust" \/ NeverOdd(l, i - 1)

\* What is granted to h for epoch e with a proof that fits.
Grants(h, e) ==
  {list[e][i][3] : i \in {k \in Published(list[e]) :
                            /\ list[e][k][1] = h /\ list[e][k][3] > 0
                            /\ ProofFits(list[e], k)}}

\* The leaves a holder can still claim.
Unclaimed ==
  {l \in Abstract!Leaf :
     /\ Committed(l.epoch)
     /\ Abstract!Provable(l.holder, l.epoch, l.amount)
     /\ ~Opened(l.holder, l.epoch)}

Lamports(leaves) == MapThenSumSet(LAMBDA l : l.amount, leaves)

\* The duties of docs/distributions.md: list a holder once, for this epoch; give
\* away no more than the pool; deposit the pool, on top of what is still owed,
\* before committing the root.
KeepsTheRules(e, root, pool) ==
  /\ \A l \in root : l.epoch = e
  /\ \A l, m \in root : l.holder = m.holder => l = m
  /\ Lamports(root) <= pool
  /\ Lamports(Unclaimed) + pool <= fee_vault

\* The siblings somebody may put together: nodes of the committed trees.
ProofsByHand ==
  [l \in Lists |-> UNION {[1..n -> NodesOf(l)] : n \in 0..MaxProof}]

-------------------------------------------------------------------------------
CommitResult(signer, e, pool) ==
  IF signer # Oracle THEN "OracleMismatch"
  ELSE IF Committed(e) THEN "AlreadyInUse"
  ELSE IF pool = 0 THEN "InvalidAmount"
  ELSE "Ok"

\* The oracle service builds the tree, `cols commit-root` commits its root.
BuildAndCommit(e, l, pool) ==
  /\ honest => KeepsTheRules(e, Listed(l), pool)
  /\ CommitResult(Oracle, e, pool) = "Ok"
  /\ list' = [list EXCEPT ![e] = l]
  /\ distribution' =
       [distribution EXCEPT ![e] = [root |-> RootOfList[l], pool_lamports |-> pool]]
  /\ UNCHANGED <<honest, claimed, fee_vault, paid>>

Covers_Strictly(amount) == fee_vault > amount

Covers(amount) == fee_vault >= amount

RentExempt(balance) == balance = 0 \/ balance >= RentMinimum

ClaimResult_NoEmptyProof(h, e, amount, proof) ==
  IF ~Committed(e) THEN "AccountNotInitialized"
  ELSE IF Opened(h, e) THEN "AlreadyInUse"
  ELSE IF amount = 0 THEN "InvalidAmount"
  ELSE IF proof = <<>> THEN "InvalidProof"
  ELSE IF ~VerifyMerkleProof(LeafHash(<<h, e, amount>>), proof, distribution[e].root)
         THEN "InvalidProof"
  ELSE IF ~Covers(amount) THEN "InsufficientVault"
  ELSE IF ~RentExempt(fee_vault - amount) THEN "InsufficientFundsForRent"
  ELSE "Ok"

\* The program's answer to holder h, who is the signer.
ClaimResult(h, e, amount, proof) ==
  IF ~Committed(e) THEN "AccountNotInitialized"
  ELSE IF Opened(h, e) THEN "AlreadyInUse"
  ELSE IF amount = 0 THEN "InvalidAmount"
  ELSE IF ~VerifyMerkleProof(LeafHash(<<h, e, amount>>), proof, distribution[e].root)
         THEN "InvalidProof"
  ELSE IF ~Covers(amount) THEN "InsufficientVault"
  ELSE IF ~RentExempt(fee_vault - amount) THEN "InsufficientFundsForRent"
  ELSE "Ok"

ClaimHolderFees(h, e, amount, proof) ==
  /\ ClaimResult(h, e, amount, proof) = "Ok"
  /\ fee_vault' = fee_vault - amount
  /\ paid' = [paid EXCEPT ![<<h, e>>] = @ + amount]
  /\ claimed' = [claimed EXCEPT ![<<h, e>>] = amount]
  /\ UNCHANGED <<honest, list, distribution>>

\* The holder claims what it was listed for, with the proof published for that.
ClaimPublished(h, e) ==
  /\ Committed(e)
  /\ \E i \in Published(list[e]) :
       /\ list[e][i][1] = h
       /\ ClaimHolderFees(h, e, list[e][i][3], PublishedProofs[list[e]][i])

\* Somebody claims any amount with siblings taken from some epoch's tree.
ClaimByHand(h, e, amount) ==
  /\ Committed(e) /\ ~Opened(h, e)
  /\ \E f \in Epochs :
       /\ Committed(f)
       /\ \E proof \in ProofsByHand[list[f]] : ClaimHolderFees(h, e, amount, proof)

Fund(n) ==
  /\ fee_vault + n <= MaxLamports
  /\ RentExempt(fee_vault + n)
  /\ fee_vault' = fee_vault + n
  /\ UNCHANGED <<honest, list, distribution, claimed, paid>>

-------------------------------------------------------------------------------
Init ==
  /\ honest \in BOOLEAN
  /\ list = [e \in Epochs |-> <<>>]
  /\ distribution = [e \in Epochs |-> NoAccount]
  /\ claimed = [c \in Holders \X Epochs |-> NoAccount]
  /\ paid = [c \in Holders \X Epochs |-> 0]
  /\ fee_vault = 0

ClaimOwn(h) == \E e \in Epochs : ClaimPublished(h, e)

Next ==
  \/ \E e \in Epochs, l \in Lists, pool \in Pools : BuildAndCommit(e, l, pool)
  \/ \E h \in Holders : ClaimOwn(h)
  \/ \E h \in Holders, e \in Epochs, amount \in Amounts : ClaimByHand(h, e, amount)
  \/ \E n \in 1..MaxLamports : Fund(n)

Spec == Init /\ [][Next]_vars

\* Every holder keeps claiming for as long as some published proof would be accepted.
FairSpec == Spec /\ \A h \in Holders : WF_vars(ClaimOwn(h))

-------------------------------------------------------------------------------
\* Root and proof do what the set of listed leaves does in module Distribution:
\* with any oracle and any siblings, of this epoch's tree or of another's, nobody
\* is paid what the tree was not built from, and no epoch's list changes.
ImplementsDistribution == Abstract!Spec

\* The published proof of a listing for the committed epoch is accepted, by the Rust
\* builder always, and by the TypeScript builder exactly if no node between the
\* leaf and the root was without a sibling; by either, whatever else is on the list.
PublishedProofsAccepted ==
  \A e \in Epochs : Committed(e) =>
    \A i \in Published(list[e]) :
      LET leaf == list[e][i]
      IN leaf[2] = e =>
           (VerifyMerkleProof(LeafHash(leaf), PublishedProofs[list[e]][i], distribution[e].root)
              <=> ProofFits(list[e], i))

\* With an oracle that keeps the rules the one vault is good for every listed leaf
\* that is still to be claimed, each with its published proof if that fits, but for
\* a balance the runtime would not let the vault keep.
ListedCanClaim ==
  honest =>
    \A e \in Epochs : Committed(e) =>
      \A i \in Published(list[e]) :
        LET h == list[e][i][1]
            amount == list[e][i][3]
        IN amount > 0 /\ ~Opened(h, e) /\ ProofFits(list[e], i) =>
             \/ ClaimResult(h, e, amount, PublishedProofs[list[e]][i]) = "Ok"
             \/ fee_vault - amount \in 1..RentMinimum - 1

\* ... and whoever is listed with a proof that fits is paid in the end, alone on its
\* epoch's list or not, except where that would leave too small a balance.
ListedLeadsToPaid ==
  \A h \in Holders, e \in Epochs :
    honest /\ Grants(h, e) # {}
      ~> Opened(h, e) \/ \E n \in Grants(h, e) : fee_vault - n \in 1..RentMinimum - 1
===============================================================================
