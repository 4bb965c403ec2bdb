----------------------------- MODULE PayoutProofs -----------------------------
(***************************************************************************)
(* Proofs about the payouts, for any oracle, any lists and trees of every  *)
(* size, any epochs, and both of the builders.                             *)
(***************************************************************************)
EXTENDS Payout, MerkleTreeProofs, FiniteSetTheorems

Roots == {RootOf(l) : l \in Lists}

\* Every account holds what it can hold, and every committed root is that of the
\* list the oracle service built the epoch's tree from.
TypeOK ==
  /\ honest \in BOOLEAN
  /\ list \in [Epochs -> Lists \cup {<<>>}]
  /\ distribution \in [Epochs -> [root: Roots, pool_lamports: Pools] \cup {NoAccount}]
  /\ claimed \in [Holders \X Epochs -> Amounts \cup {NoAccount}]
  /\ paid \in [Holders \X Epochs -> Nat]
  /\ fee_vault \in 0..MaxLamports

RootsOfLists ==
  \A e \in Epochs : Committed(e) =>
    list[e] \in Lists /\ distribution[e].root = RootOf(list[e])

-------------------------------------------------------------------------------
\* The lists are lists of leaves, with at least one.
LEMMA ListsAreLists ==
  ASSUME NEW l \in Lists
  PROVE  /\ IsList(l) /\ Len(l) \in Nat /\ Len(l) >= 1 /\ DOMAIN l = 1..Len(l)
         /\ \A i \in 1..Len(l) : l[i] \in Holders \X Epochs \X Amounts
  <1>1. l \in Seq(Holders \X Epochs \X Amounts) /\ l # <<>>
    BY ListsAssumption
  <1>2. Len(l) \in Nat /\ l = [i \in 1..Len(l) |-> l[i]] /\ DOMAIN l = 1..Len(l)
        /\ \A i \in 1..Len(l) : l[i] \in Holders \X Epochs \X Amounts
    BY <1>1
  <1>3. Len(l) >= 1
    BY <1>1, <1>2
  <1> QED
    BY <1>2, <1>3 DEF IsList

\* What is published for a listing is the proof made for its position.
LEMMA PublishedAreMade ==
  ASSUME NEW l \in Lists, NEW i \in Published(l)
  PROVE  /\ i \in 1..Len(l) /\ i - 1 \in 0..(Len(l) - 1) /\ (i - 1) + 1 = i
         /\ PublishedProofs[l][i] = ProofFor(l, i - 1)
         /\ IsList(PublishedProofs[l][i])
  <1>1. i \in DOMAIN l /\ DOMAIN l = 1..Len(l) /\ Len(l) \in Nat
    BY ListsAreLists DEF Published
  <1>2. i - 1 \in 0..(Len(l) - 1) /\ (i - 1) + 1 = i
    BY <1>1
  <1>3. PublishedProofs[l][i] = ProofFor(l, i - 1)
    BY <1>1 DEF PublishedProofs
  <1> QED
    BY <1>1, <1>2, <1>3, ListsAreLists, ProofForIsList

\* A claim with a published proof is a claim of some amount with some siblings ...
LEMMA ClaimsPublished ==
  ASSUME TypeOK, RootsOfLists, NEW h \in Holders, NEW e \in Epochs, ClaimPublished(h, e)
  PROVE  \E amount \in Amounts : \E proof : IsList(proof) /\ ClaimHolderFees(h, e, amount, proof)
  <1> DEFINE l == list[e]
  <1>1. l \in Lists
    BY DEF ClaimPublished, RootsOfLists
  <1>2. PICK i \in Published(l) : ClaimHolderFees(h, e, l[i][3], PublishedProofs[l][i])
    BY DEF ClaimPublished
  <1>3. IsList(PublishedProofs[l][i]) /\ i \in 1..Len(l)
    BY <1>1, <1>2, PublishedAreMade
  <1>4. l[i][3] \in Amounts
    <2>1. l[i] \in Holders \X Epochs \X Amounts
      BY <1>1, <1>3, ListsAreLists
    <2> QED
      BY <2>1
  <1> QED
    BY <1>2, <1>3, <1>4

\* ... and so is one by hand.
LEMMA ClaimsByHand ==
  ASSUME NEW h \in Holders, NEW e \in Epochs, NEW amount \in Amounts, TypeOK, RootsOfLists,
         ClaimByHand(h, e, amount)
  PROVE  \E proof : IsList(proof) /\ ClaimHolderFees(h, e, amount, proof)
  <1>1. PICK f \in Epochs :
          /\ Committed(f)
          /\ \E proof \in ProofsByHand[list[f]] : ClaimHolderFees(h, e, amount, proof)
    BY DEF ClaimByHand
  <1>2. ProofsByHand[list[f]] = UNION {[1..n -> NodesOf(list[f])] : n \in 0..MaxProof}
    BY <1>1 DEF ProofsByHand, RootsOfLists
  <1>3. PICK proof \in ProofsByHand[list[f]] : ClaimHolderFees(h, e, amount, proof)
    BY <1>1
  <1>4. PICK n \in 0..MaxProof : proof \in [1..n -> NodesOf(list[f])]
    BY <1>2, <1>3
  <1>5. IsList(proof)
    <2>1. n \in Nat
      OBVIOUS
    <2>2. proof \in Seq(NodesOf(list[f])) /\ Len(proof) = n
      BY <1>4, <2>1
    <2> QED
      BY <1>4, <2>1, <2>2 DEF IsList
  <1> QED
    BY <1>3, <1>5

\* Whatever it is made with, an accepted claim is one of the leaves that the
\* epoch's tree was built from.
LEMMA ClaimsAreListed ==
  ASSUME TypeOK, RootsOfLists, NEW h \in Holders, NEW e \in Epochs, NEW amount \in Amounts,
         NEW proof, IsList(proof), ClaimHolderFees(h, e, amount, proof)
  PROVE  [holder |-> h, epoch |-> e, amount |-> amount] \in Listed(list[e])
  <1>1. Committed(e) /\ VerifyMerkleProof(LeafHash(<<h, e, amount>>), proof, distribution[e].root)
    BY DEF ClaimHolderFees, ClaimResult
  <1>2. list[e] \in Lists /\ distribution[e].root = RootOf(list[e])
    BY <1>1 DEF RootsOfLists
  <1>3. IsList(list[e]) /\ Len(list[e]) >= 1 /\ DOMAIN list[e] = 1..Len(list[e])
    BY <1>2, ListsAreLists
  <1>4. PICK i \in 1..Len(list[e]) : list[e][i] = <<h, e, amount>>
    BY <1>1, <1>2, <1>3, OnlyListedVerified
  <1> QED
    BY <1>3, <1>4 DEF Listed

-------------------------------------------------------------------------------
\* Nothing is committed, claimed or paid to begin with.
LEMMA InitEstablishes == Init => TypeOK /\ RootsOfLists
  BY LamportsAssumption DEF Init, TypeOK, RootsOfLists, Committed

\* A commit records the root of the list it was built from, for an epoch that had none.
LEMMA CommitRecords ==
  ASSUME TypeOK, RootsOfLists, NEW e \in Epochs, NEW l \in Lists, NEW pool \in Pools,
         BuildAndCommit(e, l, pool)
  PROVE  TypeOK' /\ RootsOfLists' /\ ~Committed(e) /\ Committed(e)'
  <1> DEFINE account == [root |-> RootOf(l), pool_lamports |-> pool]
  <1>1. /\ list' = [list EXCEPT ![e] = l]
        /\ distribution' = [distribution EXCEPT ![e] = account]
        /\ UNCHANGED <<honest, claimed, fee_vault, paid>> /\ ~Committed(e)
    BY DEF BuildAndCommit, CommitResult, RootOfList
  <1>2. account \in [root: Roots, pool_lamports: Pools] /\ account # NoAccount
    BY NoAccountAssumption DEF Roots
  <1>3. TypeOK'
    BY <1>1, <1>2 DEF TypeOK
  <1>4. ASSUME NEW f \in Epochs, Committed(f)'
        PROVE  list'[f] \in Lists /\ distribution'[f].root = RootOf(list'[f])
    <2>1. CASE f = e
      BY <1>1, <2>1 DEF TypeOK
    <2>2. CASE f # e
      BY <1>1, <1>4, <2>2 DEF TypeOK, RootsOfLists, Committed
    <2> QED
      BY <2>1, <2>2
  <1>5. Committed(e)'
    BY <1>1, <1>2 DEF Committed, TypeOK
  <1> QED
    BY <1>1, <1>3, <1>4, <1>5 DEF RootsOfLists

\* A claim is paid for once.
LEMMA ClaimKeeps ==
  ASSUME TypeOK, RootsOfLists, NEW h \in Holders, NEW e \in Epochs, NEW amount \in Amounts,
         NEW proof, ClaimHolderFees(h, e, amount, proof)
  PROVE  TypeOK' /\ RootsOfLists'
  <1>1. /\ fee_vault' = fee_vault - amount /\ fee_vault >= amount
        /\ paid' = [paid EXCEPT ![<<h, e>>] = @ + amount]
        /\ claimed' = [claimed EXCEPT ![<<h, e>>] = amount]
        /\ UNCHANGED <<honest, list, distribution>>
    BY DEF ClaimHolderFees, ClaimResult, Covers
  <1>2. amount \in Nat /\ <<h, e>> \in Holders \X Epochs
    BY LamportsAssumption
  <1>3. TypeOK'
    BY <1>1, <1>2, LamportsAssumption DEF TypeOK
  <1>4. RootsOfLists'
    BY <1>1 DEF RootsOfLists, Committed
  <1> QED
    BY <1>3, <1>4

\* Every step keeps the types and the roots.
LEMMA NextKeeps == TypeOK /\ RootsOfLists /\ [Next]_vars => TypeOK' /\ RootsOfLists'
  <1> SUFFICES ASSUME TypeOK, RootsOfLists, [Next]_vars PROVE TypeOK' /\ RootsOfLists'
    OBVIOUS
  <1>1. ASSUME NEW e \in Epochs, NEW l \in Lists, NEW pool \in Pools, BuildAndCommit(e, l, pool)
        PROVE  TypeOK' /\ RootsOfLists'
    BY <1>1, CommitRecords
  <1>2. ASSUME NEW h \in Holders, NEW e \in Epochs, ClaimPublished(h, e)
        PROVE  TypeOK' /\ RootsOfLists'
    BY <1>2, ClaimsPublished, ClaimKeeps
  <1>3. ASSUME NEW h \in Holders, NEW e \in Epochs, NEW amount \in Amounts,
               ClaimByHand(h, e, amount)
        PROVE  TypeOK' /\ RootsOfLists'
    BY <1>3, ClaimsByHand, ClaimKeeps
  <1>4. ASSUME NEW n \in 1..MaxLamports, Fund(n) PROVE TypeOK' /\ RootsOfLists'
    BY <1>4, LamportsAssumption DEF Fund, TypeOK, RootsOfLists, Committed
  <1>5. CASE UNCHANGED vars
    BY <1>5 DEF vars, TypeOK, RootsOfLists, Committed
  <1> QED
    BY <1>1, <1>2, <1>3, <1>4, <1>5 DEF Next, ClaimOwn

\* In every reachable state every committed root is that of its epoch's list.
THEOREM PayoutInvariance == Spec => [](TypeOK /\ RootsOfLists)
  BY InitEstablishes, NextKeeps, PTL DEF Spec

-------------------------------------------------------------------------------
(***************************************************************************)
(* Root and proof for the set of listed leaves.  All that module           *)
(* Distribution leaves to the oracle is a choice that the lists make here. *)
(***************************************************************************)

\* No pool is above the largest.
LEMMA PoolsBounded == \A p \in Pools : p \in 0..Max(Pools)
  <1>1. Max(Pools) = CHOOSE m \in Pools : \A p \in Pools : m >= p
    BY DEF Max
  <1>2. PICK m \in Pools : \A p \in Pools : p <= m
    BY LamportsAssumption
  <1>3. \A p \in Pools : m >= p
    BY <1>2, LamportsAssumption
  <1>4. Max(Pools) \in Pools /\ \A p \in Pools : Max(Pools) >= p
    BY <1>1, <1>2, <1>3
  <1> QED
    BY <1>4, LamportsAssumption

\* Where there is an account, the abstract one names the epoch's list.
LEMMA AbstractAccounts ==
  ASSUME TypeOK, RootsOfLists, NEW e \in Epochs
  PROVE  /\ Abstract!Committed(e) <=> Committed(e)
         /\ Committed(e) => \A h, amount :
              Abstract!Provable(h, e, amount) <=>
                [holder |-> h, epoch |-> e, amount |-> amount] \in Listed(list[e])
  <1> DEFINE account == [root |-> Listed(list[e]), pool_lamports |-> distribution[e].pool_lamports]
  <1>1. CASE Committed(e)
    <2>1. account # NoAccount
      BY <1>1, NoAccountAssumption DEF TypeOK, RootsOfLists, Committed
    <2>2. account.root = Listed(list[e])
      OBVIOUS
    <2> QED
      BY <1>1, <2>1, <2>2 DEF Abstract!Committed, Abstract!Provable
  <1>2. CASE ~Committed(e)
    BY <1>2 DEF Abstract!Committed
  <1> QED
    BY <1>1, <1>2

\* The initial states are initial states there.
LEMMA InitRefined == Init => Abstract!Init
  <1> SUFFICES ASSUME Init PROVE Abstract!Init
    OBVIOUS
  <1>1. \A e \in Epochs : ~Committed(e)
    BY DEF Init, Committed
  <1>2. fee_vault \in {n \in 0..MaxLamports : Abstract!RentExempt(n)}
    BY LamportsAssumption DEF Init, Abstract!RentExempt
  <1> QED
    BY <1>1, <1>2 DEF Init, Abstract!Init

\* Committing a root is committing the leaves of its list.
LEMMA CommitRefined ==
  ASSUME TypeOK, RootsOfLists, NEW e \in Epochs, NEW l \in Lists, NEW pool \in Pools,
         BuildAndCommit(e, l, pool)
  PROVE  Abstract!CommitDistributionRoot(Oracle, e, Listed(l), pool)
  <1> DEFINE account(f) == IF Committed(f)
                             THEN [root |-> Listed(list[f]),
                                   pool_lamports |-> distribution[f].pool_lamports]
                             ELSE NoAccount
             new == [root |-> Listed(l), pool_lamports |-> pool]
  <1>1. /\ list' = [list EXCEPT ![e] = l]
        /\ distribution' =
             [distribution EXCEPT ![e] = [root |-> RootOf(l), pool_lamports |-> pool]]
        /\ UNCHANGED <<claimed, fee_vault, paid>> /\ ~Committed(e) /\ pool # 0
    BY DEF BuildAndCommit, CommitResult, RootOfList
  <1>2. Abstract!CommitResult(Oracle, e, pool) = "Ok"
    BY <1>1, AbstractAccounts DEF Abstract!CommitResult
  <1>3. account(e)' = new
    BY <1>1, CommitRecords DEF TypeOK
  <1>4. \A f \in Epochs \ {e} : account(f)' = account(f)
    BY <1>1 DEF TypeOK, Committed
  <1>5. [f \in Epochs |-> account(f)'] = [[f \in Epochs |-> account(f)] EXCEPT ![e] = new]
    <2> HIDE DEF account, new
    <2> QED
      BY <1>3, <1>4
  <1> QED
    BY <1>1, <1>2, <1>5 DEF Abstract!CommitDistributionRoot

\* An accepted claim is a claim of a listed leaf.
LEMMA ClaimRefined ==
  ASSUME TypeOK, RootsOfLists, NEW h \in Holders, NEW e \in Epochs, NEW amount \in Amounts,
         NEW proof, IsList(proof), ClaimHolderFees(h, e, amount, proof)
  PROVE  Abstract!ClaimHolderFees(h, e, amount)
  <1>1. /\ ClaimResult(h, e, amount, proof) = "Ok"
        /\ fee_vault' = fee_vault - amount
        /\ paid' = [paid EXCEPT ![<<h, e>>] = @ + amount]
        /\ claimed' = [claimed EXCEPT ![<<h, e>>] = amount]
        /\ UNCHANGED <<list, distribution>>
    BY DEF ClaimHolderFees
  <1>2. /\ Committed(e) /\ ~Opened(h, e) /\ amount # 0 /\ Covers(amount)
        /\ RentExempt(fee_vault - amount)
    BY <1>1 DEF ClaimResult
  <1>3. Abstract!Committed(e) /\ Abstract!Provable(h, e, amount)
    BY <1>2, AbstractAccounts, ClaimsAreListed
  <1>4. ~Abstract!Opened(h, e) /\ Abstract!Covers(amount) /\ Abstract!RentExempt(fee_vault - amount)
    BY <1>2 DEF Opened, Covers, RentExempt, Abstract!Opened, Abstract!Covers, Abstract!RentExempt
  <1>5. Abstract!ClaimResult(h, e, amount) = "Ok"
    BY <1>2, <1>3, <1>4 DEF Abstract!ClaimResult
  <1> QED
    BY <1>1, <1>5 DEF Abstract!ClaimHolderFees, Committed

\* Every step is a step there, or none.
LEMMA StepRefined ==
  TypeOK /\ RootsOfLists /\ [Next]_vars => [Abstract!Next]_(Abstract!vars)
  <1> SUFFICES ASSUME TypeOK, RootsOfLists, [Next]_vars
               PROVE  [Abstract!Next]_(Abstract!vars)
    OBVIOUS
  <1>1. ASSUME NEW e \in Epochs, NEW l \in Lists, NEW pool \in Pools, BuildAndCommit(e, l, pool)
        PROVE  Abstract!Next
    <2>1. Abstract!CommitDistributionRoot(Oracle, e, Listed(l), pool)
      BY <1>1, CommitRefined
    <2>2. pool \in 0..Max(Pools) /\ Listed(l) \in {Listed(m) : m \in Lists}
      BY PoolsBounded
    <2>3. Abstract!Commit
      BY <2>1, <2>2 DEF Abstract!Commit
    <2> QED
      BY <2>3 DEF Abstract!Next
  <1>2. ASSUME NEW h \in Holders, NEW e \in Epochs, NEW amount \in Amounts, NEW proof,
               IsList(proof), ClaimHolderFees(h, e, amount, proof)
        PROVE  Abstract!Next
    BY <1>2, ClaimRefined DEF Abstract!Claim, Abstract!Next
  <1>3. ASSUME NEW h \in Holders, NEW e \in Epochs, ClaimPublished(h, e)
        PROVE  Abstract!Next
    BY <1>3, <1>2, ClaimsPublished
  <1>4. ASSUME NEW h \in Holders, NEW e \in Epochs, NEW amount \in Amounts,
               ClaimByHand(h, e, amount)
        PROVE  Abstract!Next
    BY <1>4, <1>2, ClaimsByHand
  <1>5. ASSUME NEW n \in 1..MaxLamports, Fund(n) PROVE Abstract!Next
    <2>1. Abstract!Fund(n)
      BY <1>5 DEF Fund, RentExempt, Committed, Abstract!Fund, Abstract!RentExempt
    <2> QED
      BY <2>1 DEF Abstract!Next
  <1>6. CASE UNCHANGED vars
    BY <1>6 DEF vars, Committed, Abstract!vars
  <1> QED
    BY <1>1, <1>3, <1>4, <1>5, <1>6 DEF Next, ClaimOwn

\* With any oracle, any lists, and any siblings a claim is made with, the program
\* that sees roots and proofs pays as the one that sees the leaves would.
THEOREM PayoutImplementsDistribution == Spec => ImplementsDistribution
  <1>1. Spec => [](TypeOK /\ RootsOfLists)
    BY PayoutInvariance
  <1> QED
    BY <1>1, InitRefined, StepRefined, PTL DEF Spec, ImplementsDistribution, Abstract!Spec

-------------------------------------------------------------------------------
\* The proof published for a listing verifies it exactly if it fits.
LEMMA PublishedVerified ==
  ASSUME TypeOK, RootsOfLists, NEW e \in Epochs, Committed(e), NEW i \in Published(list[e])
  PROVE  VerifyMerkleProof(LeafHash(list[e][i]), PublishedProofs[list[e]][i],
                           distribution[e].root)
           <=> ProofFits(list[e], i)
  <1> DEFINE l == list[e]
  <1>1. l \in Lists /\ distribution[e].root = RootOf(l)
    BY DEF RootsOfLists
  <1>2. IsList(l) /\ i - 1 \in 0..(Len(l) - 1) /\ (i - 1) + 1 = i
        /\ PublishedProofs[l][i] = ProofFor(l, i - 1)
    BY <1>1, ListsAreLists, PublishedAreMade
  <1>3. VerifyMerkleProof(LeafHash(l[i]), ProofFor(l, i - 1), RootOf(l))
          <=> Builder = "rust" \/ NeverOdd(l, i - 1)
    <2> HIDE DEF l
    <2> QED
      BY <1>2, BuiltProofVerified
  <1> QED
    BY <1>1, <1>2, <1>3 DEF ProofFits

\* The Rust builder's proofs serve every listing, the TypeScript builder's exactly
\* those whose way to the root meets no node without a sibling.
THEOREM PayoutPublishedProofsAccepted == Spec => []PublishedProofsAccepted
  <1>1. TypeOK /\ RootsOfLists => PublishedProofsAccepted
    BY PublishedVerified DEF PublishedProofsAccepted
  <1> QED
    BY <1>1, PayoutInvariance, PTL

-------------------------------------------------------------------------------
(***************************************************************************)
(* The sum of some leaves' lamports, counted one by one.                   *)
(***************************************************************************)

Purse(l) == {l} \X (1..l.amount)

Coins(leaves) == UNION {Purse(l) : l \in leaves}

Purses(leaves) == IsFiniteSet(leaves) /\ \A l \in leaves : l.amount \in Nat

\* A leaf grants as many lamports as its amount says.
LEMMA PurseCounted ==
  ASSUME NEW l, l.amount \in Nat
  PROVE  IsFiniteSet(Purse(l)) /\ Cardinality(Purse(l)) = l.amount
  <1> DEFINE n == l.amount
  <1> HIDE DEF n
  <1>1. n \in Nat
    BY DEF n
  <1>2. IsFiniteSet(1..n) /\ Cardinality(1..n) = n
    <2>1. IsFiniteSet(1..n) /\ Cardinality(1..n) = IF 1 > n THEN 0 ELSE n - 1 + 1
      BY <1>1, FS_Interval
    <2> QED
      BY <1>1, <2>1
  <1>3. IsFiniteSet({l}) /\ Cardinality({l}) = 1
    BY FS_Singleton
  <1>4. IsFiniteSet({l} \X (1..n)) /\ Cardinality({l} \X (1..n)) = 1 * n
    BY <1>2, <1>3, FS_Product
  <1> QED
    BY <1>1, <1>4 DEF Purse, n

\* Finitely many leaves grant finitely many lamports ...
LEMMA CoinsFinite ==
  ASSUME NEW S, Purses(S)
  PROVE  IsFiniteSet(Coins(S))
  <1> DEFINE T == {Purse(l) : l \in S}
             f == [l \in S |-> Purse(l)]
  <1>1. f \in Surjection(S, T)
    BY DEF Surjection
  <1>2. IsFiniteSet(T)
    <2> HIDE DEF T, f
    <2> QED
      BY <1>1, FS_Surjection DEF Purses
  <1>3. \A P \in T : IsFiniteSet(P)
    BY PurseCounted DEF Purses
  <1>4. IsFiniteSet(UNION T)
    <2> HIDE DEF T
    <2> QED
      BY <1>2, <1>3, FS_UNION
  <1> QED
    BY <1>4 DEF Coins

\* ... and each of them its own.
LEMMA CoinsApart ==
  ASSUME NEW S, Purses(S), NEW x \in S
  PROVE  /\ Purses(S \ {x})
         /\ Cardinality(Coins(S \ {x})) \in Nat
         /\ Cardinality(Coins(S)) = x.amount + Cardinality(Coins(S \ {x}))
  <1> DEFINE R == Coins(S \ {x})
             P == Purse(x)
  <1>1. Purses(S \ {x})
    BY FS_RemoveElement DEF Purses
  <1>2. IsFiniteSet(R) /\ IsFiniteSet(P) /\ Cardinality(P) = x.amount /\ x.amount \in Nat
    BY <1>1, CoinsFinite, PurseCounted DEF Purses
  <1>3. Coins(S) = P \cup R /\ P \cap R = {}
    <2>1. Coins(S) = P \cup R
      BY DEF Coins
    <2>2. P \cap R = {}
      BY DEF Coins, Purse
    <2> QED
      BY <2>1, <2>2
  <1>4. Cardinality(Coins(S)) = Cardinality(P) + Cardinality(R) /\ Cardinality(R) \in Nat
    <2> HIDE DEF P, R
    <2>1. Cardinality(P \cup R) = Cardinality(P) + Cardinality(R) - Cardinality({})
      BY <1>2, <1>3, FS_Union
    <2>2. Cardinality({}) = 0 /\ Cardinality(P) \in Nat /\ Cardinality(R) \in Nat
      BY <1>2, FS_EmptySet, FS_CardinalityType
    <2>3. Cardinality(P \cup R) = Cardinality(P) + Cardinality(R)
      BY <2>1, <2>2
    <2> QED
      BY <1>3, <2>2, <2>3
  <1> QED
    BY <1>1, <1>2, <1>4

\* The sum of finitely many amounts is the number of their lamports.
LEMMA LamportsCounted ==
  ASSUME NEW S, Purses(S)
  PROVE  Lamports(S) = Cardinality(Coins(S)) /\ Lamports(S) \in Nat
  <1> DEFINE first(s) == CHOOSE x \in s : TRUE
             count(s) == Cardinality(Coins(s))
             Sums(iter) == iter = [s \in SUBSET S |->
                                     IF s = {} THEN 0 ELSE first(s).amount + iter[s \ {first(s)}]]
  <1>1. Lamports(S) = (CHOOSE iter : Sums(iter))[S]
    BY DEF Lamports, MapThenSumSet, MapThenFoldSet
  <1>2. count({}) = 0
    <2>1. Coins({}) = {}
      BY DEF Coins
    <2> QED
      BY <2>1, FS_EmptySet
  <1>3. \A s \in SUBSET S : Purses(s)
    BY FS_Subset DEF Purses
  <1>4. \A s \in SUBSET S : s # {} => /\ first(s) \in s
                                      /\ count(s) = first(s).amount + count(s \ {first(s)})
    <2> TAKE s \in SUBSET S
    <2> HAVE s # {}
    <2>1. first(s) \in s
      OBVIOUS
    <2> HIDE DEF first
    <2> QED
      BY <1>3, <2>1, CoinsApart
  <1>5. \E iter : Sums(iter)
    <2> DEFINE counted == [s \in SUBSET S |-> count(s)]
    <2>1. ASSUME NEW s \in SUBSET S
          PROVE  counted[s] = IF s = {} THEN 0 ELSE first(s).amount + counted[s \ {first(s)}]
      <3> HIDE DEF count, first
      <3> QED
        BY <1>2, <1>4
    <2>2. Sums(counted)
      <3> HIDE DEF count, first
      <3> QED
        BY <2>1
    <2> QED
      BY <2>2
  <1>6. ASSUME NEW iter, Sums(iter)
        PROVE  \A s \in SUBSET S : iter[s] = count(s)
    <2> DEFINE U == {n \in Nat : \A s \in SUBSET S : Cardinality(s) = n => iter[s] = count(s)}
    <2> HIDE DEF count, first
    <2>1. \A s \in SUBSET S : IsFiniteSet(s) /\ Cardinality(s) \in Nat
      BY FS_Subset, FS_CardinalityType DEF Purses
    <2>2. \A s \in SUBSET S :
            iter[s] = IF s = {} THEN 0 ELSE first(s).amount + iter[s \ {first(s)}]
      BY <1>6
    <2> HIDE DEF Sums
    <2>3. 0 \in U
      <3>1. \A s \in SUBSET S : Cardinality(s) = 0 => s = {}
        BY <2>1, FS_EmptySet
      <3> QED
        BY <1>2, <2>2, <3>1
    <2>4. ASSUME NEW n \in Nat, n \in U PROVE n + 1 \in U
      <3>1. ASSUME NEW s \in SUBSET S, Cardinality(s) = n + 1
            PROVE  iter[s] = count(s)
        <4> DEFINE r == s \ {first(s)}
        <4>1. s # {}
          <5>1. n + 1 # 0
            BY <2>4
          <5> QED
            BY <3>1, <5>1, FS_EmptySet
        <4>2. first(s) \in s /\ count(s) = first(s).amount + count(r)
          BY <1>4, <4>1
        <4>3. Cardinality(r) = Cardinality(s) - 1
          BY <2>1, <4>2, FS_RemoveElement
        <4>4. Cardinality(r) = n
          BY <3>1, <4>3, <2>4
        <4>5. iter[r] = count(r)
          BY <2>4, <4>4
        <4> QED
          BY <2>2, <4>1, <4>2, <4>5
      <3> QED
        BY <3>1, <2>4
    <2>5. Nat \subseteq U
      <3> HIDE DEF U
      <3> QED
        BY <2>3, <2>4, InductionSet
    <2> QED
      BY <2>1, <2>5
  <1>7. Lamports(S) = count(S)
    <2> HIDE DEF Sums, count
    <2>1. Sums(CHOOSE iter : Sums(iter))
      BY <1>5
    <2> QED
      BY <1>1, <1>6, <2>1
  <1>8. count(S) \in Nat
    BY CoinsFinite, FS_CardinalityType
  <1> QED
    BY <1>7, <1>8

\* A leaf's amount is its part of the sum.
LEMMA LamportsWithout ==
  ASSUME NEW S, Purses(S), NEW x \in S
  PROVE  /\ Lamports(S) \in Nat /\ Lamports(S \ {x}) \in Nat /\ x.amount \in Nat
         /\ Lamports(S) = x.amount + Lamports(S \ {x})
  <1>1. Purses(S \ {x}) /\ Cardinality(Coins(S)) = x.amount + Cardinality(Coins(S \ {x}))
    BY CoinsApart
  <1> QED
    BY <1>1, LamportsCounted DEF Purses

\* Fewer leaves grant no more ...
LEMMA LamportsOfFewer ==
  ASSUME NEW S, Purses(S), NEW T \in SUBSET S
  PROVE  /\ Purses(T) /\ Lamports(T) \in Nat /\ Lamports(S) \in Nat
         /\ Lamports(T) <= Lamports(S)
  <1>1. Purses(T)
    BY FS_Subset DEF Purses
  <1>2. Coins(T) \in SUBSET Coins(S)
    BY DEF Coins
  <1>3. Cardinality(Coins(T)) <= Cardinality(Coins(S))
    BY <1>2, CoinsFinite, FS_Subset
  <1> QED
    BY <1>1, <1>3, LamportsCounted

\* ... and two lots together no more than both.
LEMMA LamportsOfBoth ==
  ASSUME NEW S, Purses(S), NEW T, Purses(T)
  PROVE  /\ Purses(S \cup T)
         /\ Lamports(S \cup T) <= Lamports(S) + Lamports(T)
         /\ Lamports(S \cup T) \in Nat /\ Lamports(S) \in Nat /\ Lamports(T) \in Nat
  <1> DEFINE A == Coins(S)
             B == Coins(T)
  <1>1. Purses(S \cup T)
    BY FS_Union DEF Purses
  <1>2. Coins(S \cup T) = A \cup B
    BY DEF Coins
  <1>3. IsFiniteSet(A) /\ IsFiniteSet(B)
    BY CoinsFinite
  <1>4. Cardinality(A \cup B) <= Cardinality(A) + Cardinality(B)
    <2> HIDE DEF A, B
    <2>1. Cardinality(A \cup B) = Cardinality(A) + Cardinality(B) - Cardinality(A \cap B)
      BY <1>3, FS_Union
    <2>2. Cardinality(A) \in Nat /\ Cardinality(B) \in Nat /\ Cardinality(A \cap B) \in Nat
      BY <1>3, FS_CardinalityType, FS_Intersection
    <2> QED
      BY <2>1, <2>2
  <1>5. /\ Lamports(S \cup T) = Cardinality(A \cup B) /\ Lamports(S \cup T) \in Nat
        /\ Lamports(S) = Cardinality(A) /\ Lamports(S) \in Nat
        /\ Lamports(T) = Cardinality(B) /\ Lamports(T) \in Nat
    BY <1>1, <1>2, LamportsCounted
  <1> QED
    BY <1>1, <1>4, <1>5

-------------------------------------------------------------------------------
(***************************************************************************)
(* What an honest oracle adds.                                             *)
(***************************************************************************)

\* An honest oracle's trees list a holder once, for their own epoch ...
HonestLists ==
  honest =>
    \A e \in Epochs : Committed(e) =>
      /\ \A l \in Listed(list[e]) : l.epoch = e
      /\ \A l, m \in Listed(list[e]) : l.holder = m.holder => l = m

\* ... and the vault holds what is still owed.
Solvent == honest => Lamports(Unclaimed) <= fee_vault

\* A listed leaf is a leaf.
LEMMA ListedAreLeaves == \A l \in Lists : Listed(l) \subseteq Abstract!Leaf
  <1> TAKE l \in Lists
  <1>1. \A i \in DOMAIN l : l[i] \in Holders \X Epochs \X Amounts
    BY ListsAreLists
  <1> QED
    BY <1>1 DEF Listed, Abstract!Leaf

\* Only so many leaves can be written down.
LEMMA LeavesCanBeCounted == \A S \in SUBSET Abstract!Leaf : Purses(S)
  <1> DEFINE Triples == (Holders \X Epochs) \X Amounts
             leaf(t) == [holder |-> t[1][1], epoch |-> t[1][2], amount |-> t[2]]
             f == [t \in Triples |-> leaf(t)]
  <1>1. IsFiniteSet(Triples)
    BY WordsAssumption, FS_Product
  <1>2. f \in Surjection(Triples, Abstract!Leaf)
    <2>1. \A t \in Triples : leaf(t) \in Abstract!Leaf
      BY DEF Abstract!Leaf
    <2>2. ASSUME NEW l \in Abstract!Leaf PROVE \E t \in Triples : f[t] = l
      <3> DEFINE t == <<<<l.holder, l.epoch>>, l.amount>>
      <3>1. t \in Triples /\ leaf(t) = l
        BY DEF Abstract!Leaf
      <3> HIDE DEF t, Triples, leaf
      <3> QED
        BY <3>1
    <2> HIDE DEF Triples, leaf
    <2> QED
      BY <2>1, <2>2 DEF Surjection
  <1>3. IsFiniteSet(Abstract!Leaf)
    <2> HIDE DEF Triples, f
    <2> QED
      BY <1>1, <1>2, FS_Surjection
  <1>4. \A l \in Abstract!Leaf : l.amount \in Nat
    BY LamportsAssumption DEF Abstract!Leaf
  <1> QED
    BY <1>3, <1>4, FS_Subset DEF Purses

\* What is still to be claimed is what some epoch's list holds.
LEMMA UnclaimedAreListed ==
  ASSUME TypeOK, RootsOfLists, NEW x
  PROVE  x \in Unclaimed <=> /\ x \in Abstract!Leaf
                             /\ Committed(x.epoch) /\ x \in Listed(list[x.epoch])
                             /\ ~Opened(x.holder, x.epoch)
  <1> SUFFICES ASSUME x \in Abstract!Leaf
               PROVE  Committed(x.epoch) =>
                        (Abstract!Provable(x.holder, x.epoch, x.amount) <=>
                           x \in Listed(list[x.epoch]))
    BY DEF Unclaimed
  <1>1. x = [holder |-> x.holder, epoch |-> x.epoch, amount |-> x.amount] /\ x.epoch \in Epochs
    BY DEF Abstract!Leaf
  <1> QED
    BY <1>1, AbstractAccounts

\* A commit adds no more than the leaves of its list to what can be claimed.
LEMMA CommitOwes ==
  ASSUME TypeOK, RootsOfLists, NEW e \in Epochs, NEW l \in Lists, NEW pool \in Pools,
         BuildAndCommit(e, l, pool)
  PROVE  Unclaimed' \subseteq Unclaimed \cup Listed(l)
  <1>1. /\ list' = [list EXCEPT ![e] = l] /\ UNCHANGED claimed
        /\ distribution' =
             [distribution EXCEPT ![e] = [root |-> RootOf(l), pool_lamports |-> pool]]
    BY DEF BuildAndCommit, RootOfList
  <1> SUFFICES ASSUME NEW x \in Unclaimed' PROVE x \in Unclaimed \cup Listed(l)
    OBVIOUS
  <1>2. /\ x \in Abstract!Leaf /\ Committed(x.epoch)' /\ ~Opened(x.holder, x.epoch)'
        /\ Abstract!Provable(x.holder, x.epoch, x.amount)'
    BY DEF Unclaimed
  <1>3. x = [holder |-> x.holder, epoch |-> x.epoch, amount |-> x.amount] /\ x.epoch \in Epochs
    BY <1>2 DEF Abstract!Leaf
  <1>4. x \in Listed(list'[x.epoch])
    BY <1>2, <1>3 DEF Abstract!Provable
  <1>5. CASE x.epoch = e
    BY <1>1, <1>4, <1>5 DEF TypeOK
  <1>6. CASE x.epoch # e
    <2>1. list'[x.epoch] = list[x.epoch] /\ Committed(x.epoch) /\ ~Opened(x.holder, x.epoch)
      BY <1>1, <1>2, <1>3, <1>6 DEF TypeOK, Committed, Opened
    <2> QED
      BY <1>2, <1>4, <2>1, UnclaimedAreListed
  <1> QED
    BY <1>5, <1>6

\* A claim settles one of the leaves that could be claimed.
LEMMA ClaimSettles ==
  ASSUME TypeOK, RootsOfLists, NEW h \in Holders, NEW e \in Epochs, NEW amount \in Amounts,
         NEW proof, IsList(proof), ClaimHolderFees(h, e, amount, proof)
  PROVE  LET leaf == [holder |-> h, epoch |-> e, amount |-> amount]
         IN leaf \in Unclaimed /\ Unclaimed' \subseteq Unclaimed \ {leaf}
  <1> DEFINE leaf == [holder |-> h, epoch |-> e, amount |-> amount]
  <1>1. /\ Committed(e) /\ ~Opened(h, e) /\ UNCHANGED <<list, distribution>>
        /\ claimed' = [claimed EXCEPT ![<<h, e>>] = amount]
    BY DEF ClaimHolderFees, ClaimResult
  <1>2. leaf \in Unclaimed
    BY <1>1, ClaimsAreListed, UnclaimedAreListed DEF Abstract!Leaf
  <1>3. Opened(h, e)' /\ \A g, f : <<g, f>> \in Holders \X Epochs /\ Opened(g, f) => Opened(g, f)'
    BY <1>1, NoAccountAssumption DEF TypeOK, Opened
  <1>4. ASSUME NEW x \in Unclaimed' PROVE x \in Unclaimed \ {leaf}
    <2>1. /\ x \in Abstract!Leaf /\ Committed(x.epoch) /\ ~Opened(x.holder, x.epoch)'
          /\ Abstract!Provable(x.holder, x.epoch, x.amount)'
      BY <1>1 DEF Unclaimed, Committed
    <2>2. <<x.holder, x.epoch>> \in Holders \X Epochs
      BY <2>1 DEF Abstract!Leaf
    <2>3. ~Opened(x.holder, x.epoch) /\ x # leaf
      BY <1>3, <2>1, <2>2
    <2>4. Abstract!Provable(x.holder, x.epoch, x.amount)
      BY <1>1, <2>1 DEF Abstract!Provable, Committed
    <2> QED
      BY <2>1, <2>3, <2>4 DEF Unclaimed
  <1> QED
    BY <1>2, <1>4

Honesty == TypeOK /\ RootsOfLists /\ HonestLists /\ Solvent

\* With nothing committed nothing is owed.
LEMMA InitHonest == Init => Honesty
  <1> SUFFICES ASSUME Init PROVE HonestLists /\ Solvent
    BY InitEstablishes DEF Honesty
  <1>1. TypeOK /\ RootsOfLists /\ \A e \in Epochs : ~Committed(e)
    BY InitEstablishes DEF Init, Committed
  <1>2. Unclaimed = {}
    BY <1>1, UnclaimedAreListed DEF Abstract!Leaf
  <1>3. Lamports({}) = 0
    <2>1. Purses({}) /\ Coins({}) = {} /\ Cardinality({}) = 0
      BY FS_EmptySet DEF Purses, Coins
    <2> QED
      BY <2>1, LamportsCounted
  <1>4. fee_vault = 0
    BY DEF Init
  <1> QED
    BY <1>1, <1>2, <1>3, <1>4 DEF HonestLists, Solvent

\* The oracle that keeps the rules deposits before it commits.
LEMMA CommitHonest ==
  ASSUME Honesty, NEW e \in Epochs, NEW l \in Lists, NEW pool \in Pools,
         BuildAndCommit(e, l, pool)
  PROVE  HonestLists' /\ Solvent'
  <1>1. /\ TypeOK /\ RootsOfLists /\ HonestLists /\ Solvent
        /\ list' = [list EXCEPT ![e] = l] /\ UNCHANGED <<honest, fee_vault>>
        /\ distribution' =
             [distribution EXCEPT ![e] = [root |-> RootOf(l), pool_lamports |-> pool]]
    BY DEF Honesty, BuildAndCommit, RootOfList
  <1> SUFFICES ASSUME honest PROVE HonestLists' /\ Solvent'
    BY <1>1 DEF HonestLists, Solvent
  <1>2. KeepsTheRules(e, Listed(l), pool)
    BY DEF BuildAndCommit
  <1>3. HonestLists'
    <2> SUFFICES ASSUME NEW f \in Epochs, Committed(f)'
                 PROVE  /\ \A x \in Listed(list'[f]) : x.epoch = f
                        /\ \A x, y \in Listed(list'[f]) : x.holder = y.holder => x = y
      BY DEF HonestLists
    <2>1. CASE f = e
      <3>1. list'[f] = l
        BY <1>1, <2>1 DEF TypeOK
      <3> QED
        BY <1>2, <2>1, <3>1 DEF KeepsTheRules
    <2>2. CASE f # e
      <3>1. list'[f] = list[f] /\ Committed(f)
        BY <1>1, <2>2 DEF TypeOK, Committed
      <3> QED
        BY <1>1, <3>1 DEF HonestLists
    <2> QED
      BY <2>1, <2>2
  <1>4. Lamports(Unclaimed') <= fee_vault
    <2> DEFINE before == Unclaimed
               after == Unclaimed'
               root == Listed(l)
    <2>1. after \subseteq before \cup root
      BY <1>1, CommitOwes
    <2>2. Purses(before) /\ Purses(root)
      <3>1. Unclaimed \subseteq Abstract!Leaf /\ root \subseteq Abstract!Leaf
        BY ListedAreLeaves DEF Unclaimed
      <3> QED
        BY <3>1, LeavesCanBeCounted
    <2>3. Lamports(root) <= pool /\ Lamports(before) + pool <= fee_vault
      BY <1>2 DEF KeepsTheRules
    <2>4. pool \in Nat /\ fee_vault \in Nat
      BY <1>1, LamportsAssumption DEF TypeOK
    <2> HIDE DEF before, after, root
    <2> DEFINE both == Lamports(before \cup root)
               owed == Lamports(before)
               new == Lamports(root)
               left == Lamports(after)
    <2>5. /\ Purses(before \cup root) /\ both <= owed + new
          /\ both \in Nat /\ owed \in Nat /\ new \in Nat
      BY <2>2, LamportsOfBoth
    <2>6. left \in Nat /\ left <= both
      BY <2>1, <2>5, LamportsOfFewer
    <2>7. left <= fee_vault
      <3> HIDE DEF both, owed, new, left
      <3>1. new <= pool /\ owed + pool <= fee_vault
        BY <2>3 DEF owed, new
      <3> QED
        BY <2>4, <2>5, <2>6, <3>1
    <2> QED
      BY <2>7 DEF after
  <1> QED
    BY <1>1, <1>3, <1>4 DEF Solvent

\* A claim takes from the vault what it takes from the debt.
LEMMA ClaimHonest ==
  ASSUME Honesty, NEW h \in Holders, NEW e \in Epochs, NEW amount \in Amounts,
         NEW proof, IsList(proof), ClaimHolderFees(h, e, amount, proof)
  PROVE  HonestLists' /\ Solvent'
  <1> DEFINE leaf == [holder |-> h, epoch |-> e, amount |-> amount]
             before == Unclaimed
             after == Unclaimed'
  <1>1. /\ TypeOK /\ RootsOfLists /\ HonestLists /\ Solvent
        /\ fee_vault' = fee_vault - amount /\ UNCHANGED <<honest, list, distribution>>
    BY DEF Honesty, ClaimHolderFees
  <1>2. HonestLists'
    BY <1>1 DEF HonestLists, Committed
  <1> SUFFICES ASSUME honest PROVE Lamports(after) <= fee_vault - amount
    BY <1>1, <1>2 DEF Solvent
  <1>3. leaf \in before /\ after \subseteq before \ {leaf} /\ leaf.amount = amount
    BY <1>1, ClaimSettles
  <1>4. Purses(before)
    BY LeavesCanBeCounted DEF Unclaimed
  <1>5. Lamports(before) <= fee_vault
    BY <1>1 DEF Solvent
  <1>6. fee_vault \in Nat
    BY <1>1, LamportsAssumption DEF TypeOK
  <1> HIDE DEF before, after, leaf
  <1> DEFINE owed == Lamports(before)
             rest == Lamports(before \ {leaf})
             left == Lamports(after)
  <1>7. owed \in Nat /\ rest \in Nat /\ amount \in Nat /\ owed = amount + rest
    BY <1>3, <1>4, LamportsWithout
  <1>8. left \in Nat /\ left <= rest
    <2>1. Purses(before \ {leaf})
      BY <1>3, <1>4, CoinsApart
    <2> QED
      BY <1>3, <2>1, LamportsOfFewer
  <1>9. owed <= fee_vault
    BY <1>5
  <1> HIDE DEF owed, rest, left
  <1>10. left <= fee_vault - amount
    BY <1>6, <1>7, <1>8, <1>9
  <1> QED
    BY <1>10 DEF left

\* Every step keeps the oracle's lists in order and the vault good for them.
LEMMA NextHonest == Honesty /\ [Next]_vars => Honesty'
  <1> SUFFICES ASSUME Honesty, [Next]_vars PROVE HonestLists' /\ Solvent'
    BY NextKeeps DEF Honesty
  <1>1. TypeOK /\ RootsOfLists /\ HonestLists /\ Solvent
    BY DEF Honesty
  <1>2. ASSUME NEW e \in Epochs, NEW l \in Lists, NEW pool \in Pools, BuildAndCommit(e, l, pool)
        PROVE  HonestLists' /\ Solvent'
    BY <1>2, CommitHonest
  <1>3. ASSUME NEW h \in Holders, NEW e \in Epochs, ClaimPublished(h, e)
        PROVE  HonestLists' /\ Solvent'
    BY <1>1, <1>3, ClaimsPublished, ClaimHonest
  <1>4. ASSUME NEW h \in Holders, NEW e \in Epochs, NEW amount \in Amounts,
               ClaimByHand(h, e, amount)
        PROVE  HonestLists' /\ Solvent'
    BY <1>1, <1>4, ClaimsByHand, ClaimHonest
  <1>5. ASSUME NEW n \in 1..MaxLamports, Fund(n) PROVE HonestLists' /\ Solvent'
    <2>1. /\ fee_vault' = fee_vault + n
          /\ UNCHANGED <<honest, list, distribution, claimed, paid>>
      BY <1>5 DEF Fund
    <2>2. Unclaimed' = Unclaimed
      BY <2>1 DEF Unclaimed, Committed, Opened, Abstract!Provable
    <2>3. HonestLists'
      BY <1>1, <2>1 DEF HonestLists, Committed
    <2>4. Lamports(Unclaimed) \in Nat
      <3>1. Purses(Unclaimed)
        BY LeavesCanBeCounted DEF Unclaimed
      <3> QED
        BY <3>1, LamportsCounted
    <2>5. honest => Lamports(Unclaimed) <= fee_vault + n
      <3> DEFINE owed == Lamports(Unclaimed)
      <3>1. fee_vault \in Nat /\ n \in Nat /\ owed \in Nat /\ (honest => owed <= fee_vault)
        BY <1>1, <2>4, LamportsAssumption DEF TypeOK, Solvent
      <3> HIDE DEF owed
      <3>2. honest => owed <= fee_vault + n
        BY <3>1
      <3> QED
        BY <3>2 DEF owed
    <2> QED
      BY <2>1, <2>2, <2>3, <2>5 DEF Solvent
  <1>6. CASE UNCHANGED vars
    BY <1>1, <1>6 DEF vars, HonestLists, Solvent, Unclaimed, Committed, Opened, Abstract!Provable
  <1> QED
    BY <1>2, <1>3, <1>4, <1>5, <1>6 DEF Next, ClaimOwn

\* An honest oracle's lists are in order and its debts covered in every reachable state.
THEOREM PayoutHonesty == Spec => []Honesty
  BY InitHonest, NextHonest, PTL DEF Spec

\* An honest oracle's listing that has no receipt yet is one that can be claimed.
LEMMA PublishedAreUnclaimed ==
  ASSUME Honesty, honest, NEW e \in Epochs, Committed(e), NEW i \in Published(list[e]),
         ~Opened(list[e][i][1], e)
  PROVE  /\ list[e][i] = <<list[e][i][1], e, list[e][i][3]>>
         /\ [holder |-> list[e][i][1], epoch |-> e, amount |-> list[e][i][3]] \in Unclaimed
  <1> DEFINE l == list[e]
             leaf == [holder |-> l[i][1], epoch |-> l[i][2], amount |-> l[i][3]]
  <1>1. TypeOK /\ RootsOfLists /\ HonestLists
    BY DEF Honesty
  <1>2. l \in Lists
    BY <1>1 DEF RootsOfLists
  <1>3. i \in DOMAIN l /\ l[i] \in Holders \X Epochs \X Amounts
    BY <1>2, PublishedAreMade, ListsAreLists
  <1>4. leaf \in Listed(l) /\ leaf \in Abstract!Leaf
    BY <1>3 DEF Listed, Abstract!Leaf
  <1>5. l[i][2] = e
    BY <1>1, <1>4 DEF HonestLists
  <1>6. leaf = [holder |-> l[i][1], epoch |-> e, amount |-> l[i][3]]
    BY <1>5
  <1>7. leaf \in Unclaimed
    BY <1>1, <1>4, <1>5, UnclaimedAreListed
  <1>8. l[i] = <<l[i][1], l[i][2], l[i][3]>>
    BY <1>3
  <1> QED
    BY <1>5, <1>6, <1>7, <1>8

\* With an honest oracle nothing but the rent minimum stands between a listed
\* holder and its lamports: with the Rust builder for every listing, with the
\* TypeScript builder for every one whose proof fits.
THEOREM PayoutListedCanClaim == Spec => []ListedCanClaim
  <1>1. Honesty => ListedCanClaim
    <2> SUFFICES ASSUME Honesty, honest, NEW e \in Epochs, Committed(e),
                        NEW i \in Published(list[e]), list[e][i][3] > 0,
                        ~Opened(list[e][i][1], e), ProofFits(list[e], i),
                        fee_vault - list[e][i][3] \notin 1..RentMinimum - 1
                 PROVE  ClaimResult(list[e][i][1], e, list[e][i][3],
                                    PublishedProofs[list[e]][i]) = "Ok"
      BY DEF ListedCanClaim
    <2> DEFINE h == list[e][i][1]
               amount == list[e][i][3]
               leaf == [holder |-> h, epoch |-> e, amount |-> amount]
               proof == PublishedProofs[list[e]][i]
    <2>1. TypeOK /\ RootsOfLists /\ Solvent
      BY DEF Honesty
    <2>2. list[e][i] = <<h, e, amount>> /\ leaf \in Unclaimed /\ leaf.amount = amount
      BY PublishedAreUnclaimed
    <2>3. VerifyMerkleProof(LeafHash(<<h, e, amount>>), proof, distribution[e].root)
      BY <2>1, <2>2, PublishedVerified
    <2>4. ~Opened(h, e) /\ amount > 0 /\ fee_vault - amount \notin 1..RentMinimum - 1
      OBVIOUS
    <2> HIDE DEF h, amount, leaf, proof
    <2>5. amount \in Nat /\ amount <= fee_vault /\ fee_vault \in Nat
      <3> DEFINE owed == Lamports(Unclaimed)
                 rest == Lamports(Unclaimed \ {leaf})
      <3>1. Purses(Unclaimed)
        BY LeavesCanBeCounted DEF Unclaimed
      <3>2. owed \in Nat /\ rest \in Nat /\ amount \in Nat /\ owed = amount + rest
        BY <2>2, <3>1, LamportsWithout
      <3>3. owed <= fee_vault /\ fee_vault \in Nat
        BY <2>1, LamportsAssumption DEF Solvent, TypeOK
      <3> HIDE DEF owed, rest
      <3> QED
        BY <3>2, <3>3
    <2>6. Covers(amount) /\ RentExempt(fee_vault - amount)
      BY <2>4, <2>5, LamportsAssumption DEF Covers, RentExempt
    <2>7. amount # 0
      BY <2>4, <2>5
    <2>8. ClaimResult(h, e, amount, proof) = "Ok"
      BY <2>3, <2>4, <2>6, <2>7 DEF ClaimResult
    <2> QED
      BY <2>8 DEF h, amount, proof
  <1> QED
    BY <1>1, PayoutHonesty, PTL
===============================================================================
