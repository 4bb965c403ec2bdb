-------------------------- MODULE DistributionProofs --------------------------
(***************************************************************************)
(* For every set of holders, epochs, trees and amounts, and whether or not *)
(* the oracle keeps its rules: payouts are made once, of what was proven,  *)
(* and the instructions keep the promise of DistributionPromise.           *)
(***************************************************************************)
EXTENDS DistributionRefinement, TLAPS

\* PaidOnceWhatWasProven needs nothing but the types to be inductive: a receipt is
\* only ever opened under a committed root, and no committed root changes.
IInv == TypeOK /\ PaidOnceWhatWasProven

USE DEF DistributionAccount

-------------------------------------------------------------------------------
\* A commit concerns one epoch that had no root before.
LEMMA CommitWrites ==
  ASSUME TypeOK, NEW signer, NEW e \in Epochs, NEW root \in Trees,
         NEW pool \in 0..MaxPool,
         CommitDistributionRoot(signer, e, root, pool)
  PROVE  /\ distribution[e] = NoAccount
         /\ distribution' = [distribution EXCEPT ![e] =
                               [root |-> root, pool_lamports |-> pool]]
         /\ distribution' \in [Epochs -> DistributionAccount \cup {NoAccount}]
         /\ UNCHANGED <<claimed, fee_vault, paid>>
  <1>1. CommitResult(signer, e, pool) = "Ok"
    BY DEF CommitDistributionRoot
  <1>2. distribution[e] = NoAccount
    BY <1>1, Zenon DEF CommitResult, Committed
  <1>3. QED
    BY <1>2 DEF CommitDistributionRoot, TypeOK

\* What holds of a claim that goes through.
LEMMA ClaimWrites ==
  ASSUME TypeOK, NEW h \in Holders, NEW e \in Epochs, NEW amount \in Amounts,
         ClaimHolderFees(h, e, amount)
  PROVE  /\ amount \in Nat /\ amount > 0
         /\ Committed(e) /\ ~Opened(h, e) /\ Provable(h, e, amount)
         /\ fee_vault' = fee_vault - amount
         /\ fee_vault' \in 0..MaxLamports
         /\ fee_vault' < fee_vault
         /\ paid' = [paid EXCEPT ![<<h, e>>] = @ + amount]
         /\ claimed' = [claimed EXCEPT ![<<h, e>>] = amount]
         /\ claimed' \in [Holders \X Epochs -> Amounts \cup {NoAccount}]
         /\ claimed'[<<h, e>>] = amount
         /\ distribution' = distribution
  <1>1. ClaimResult(h, e, amount) = "Ok"
    BY DEF ClaimHolderFees
  <1>2. Committed(e) /\ ~Opened(h, e) /\ amount # 0 /\ Provable(h, e, amount)
        /\ Covers(amount)
    BY <1>1, Zenon DEF ClaimResult
  <1>3. amount \in Nat /\ MaxLamports \in Nat
    BY AmountsAssumption
  <1>4. fee_vault \in 0..MaxLamports /\ fee_vault >= amount
    BY <1>2 DEF TypeOK, Covers
  <1>5. <<h, e>> \in Holders \X Epochs
    OBVIOUS
  <1>6. claimed' = [claimed EXCEPT ![<<h, e>>] = amount]
        /\ claimed \in [Holders \X Epochs -> Amounts \cup {NoAccount}]
    BY DEF ClaimHolderFees, TypeOK
  <1>7. claimed' \in [Holders \X Epochs -> Amounts \cup {NoAccount}]
        /\ claimed'[<<h, e>>] = amount
    BY <1>5, <1>6
  <1>8. fee_vault' = fee_vault - amount
    BY DEF ClaimHolderFees
  <1>9. fee_vault' \in 0..MaxLamports /\ fee_vault' < fee_vault /\ amount > 0
    BY <1>2, <1>3, <1>4, <1>8
  <1>10. QED
    BY <1>2, <1>3, <1>6, <1>7, <1>8, <1>9 DEF ClaimHolderFees

-------------------------------------------------------------------------------
\* A fresh program has paid nothing.
LEMMA InitEstablishes == Init => IInv
  <1> SUFFICES ASSUME Init PROVE IInv
    OBVIOUS
  <1>1. TypeOK
    BY AmountsAssumption DEF Init, TypeOK
  <1>2. PaidOnceWhatWasProven
    BY DEF Init, PaidOnceWhatWasProven, Opened
  <1>3. QED
    BY <1>1, <1>2 DEF IInv

\* A commit disturbs no receipt: the epochs it does not concern keep their root,
\* and the one it concerns had no receipt yet.
LEMMA CommitKeeps == IInv /\ Commit => IInv'
  <1> SUFFICES ASSUME IInv, Commit PROVE IInv'
    OBVIOUS
  <1> USE DEF IInv
  <1>1. PICK signer \in Holders \cup {Oracle}, e \in Epochs, root \in Trees,
             pool \in 0..MaxPool : CommitDistributionRoot(signer, e, root, pool)
    BY DEF Commit
  <1>2. /\ distribution[e] = NoAccount
        /\ distribution' = [distribution EXCEPT ![e] =
                              [root |-> root, pool_lamports |-> pool]]
        /\ distribution' \in [Epochs -> DistributionAccount \cup {NoAccount}]
        /\ UNCHANGED <<claimed, fee_vault, paid>>
    BY <1>1, CommitWrites
  <1>3. TypeOK'
    BY <1>2 DEF TypeOK
  <1>4. ASSUME NEW h \in Holders, NEW f \in Epochs
        PROVE  (IF Opened(h, f)
                  THEN /\ paid[<<h, f>>] = claimed[<<h, f>>]
                       /\ Committed(f)
                       /\ Provable(h, f, claimed[<<h, f>>])
                  ELSE paid[<<h, f>>] = 0)'
    <2>1. CASE f = e
      BY <1>2, <2>1 DEF PaidOnceWhatWasProven, Opened, Committed
    <2>2. CASE f # e
      <3>1. distribution'[f] = distribution[f]
        BY <1>2, <2>2 DEF TypeOK
      <3>2. QED
        BY <1>2, <3>1 DEF PaidOnceWhatWasProven, Opened, Committed, Provable
    <2>3. QED
      BY <2>1, <2>2
  <1>5. PaidOnceWhatWasProven'
    BY <1>4 DEF PaidOnceWhatWasProven
  <1>6. QED
    BY <1>3, <1>5

\* A claim opens the one receipt that was missing, for what it pays.
LEMMA ClaimKeeps ==
  ASSUME IInv, NEW h \in Holders, Claim(h) PROVE IInv'
  <1> USE DEF IInv
  <1>1. PICK e \in Epochs, amount \in Amounts : ClaimHolderFees(h, e, amount)
    BY DEF Claim
  <1>2. /\ amount \in Nat /\ amount > 0
        /\ Committed(e) /\ ~Opened(h, e) /\ Provable(h, e, amount)
        /\ fee_vault' = fee_vault - amount
        /\ fee_vault' \in 0..MaxLamports
        /\ fee_vault' < fee_vault
        /\ paid' = [paid EXCEPT ![<<h, e>>] = @ + amount]
        /\ claimed' = [claimed EXCEPT ![<<h, e>>] = amount]
        /\ claimed' \in [Holders \X Epochs -> Amounts \cup {NoAccount}]
        /\ claimed'[<<h, e>>] = amount
        /\ distribution' = distribution
    BY <1>1, ClaimWrites
  <1>3. <<h, e>> \in Holders \X Epochs /\ paid \in [Holders \X Epochs -> Nat]
        /\ claimed \in [Holders \X Epochs -> Amounts \cup {NoAccount}]
    BY DEF TypeOK
  <1>4. paid[<<h, e>>] = 0
    BY <1>2 DEF PaidOnceWhatWasProven
  <1>5. paid' \in [Holders \X Epochs -> Nat] /\ paid'[<<h, e>>] = amount
    BY <1>2, <1>3, <1>4
  <1>6. TypeOK'
    BY <1>2, <1>5 DEF TypeOK
  <1>7. ASSUME NEW g \in Holders, NEW f \in Epochs
        PROVE  (IF Opened(g, f)
                  THEN /\ paid[<<g, f>>] = claimed[<<g, f>>]
                       /\ Committed(f)
                       /\ Provable(g, f, claimed[<<g, f>>])
                  ELSE paid[<<g, f>>] = 0)'
    <2>1. CASE g = h /\ f = e
      BY <1>2, <1>5, <2>1, NoAccountAssumption DEF Opened, Committed, Provable
    <2>2. CASE ~(g = h /\ f = e)
      <3>1. paid'[<<g, f>>] = paid[<<g, f>>] /\ claimed'[<<g, f>>] = claimed[<<g, f>>]
        BY <1>2, <1>3, <2>2
      <3>2. QED
        BY <1>2, <3>1 DEF PaidOnceWhatWasProven, Opened, Committed, Provable
    <2>3. QED
      BY <2>1, <2>2
  <1>8. PaidOnceWhatWasProven'
    BY <1>7 DEF PaidOnceWhatWasProven
  <1>9. QED
    BY <1>6, <1>8

\* Money that reaches the vault, and steps of others, change no account.
LEMMA FundKeeps ==
  ASSUME IInv, NEW n \in 1..MaxLamports, Fund(n) PROVE IInv'
  <1>1. TypeOK'
    BY AmountsAssumption DEF IInv, TypeOK, Fund
  <1>2. PaidOnceWhatWasProven'
    BY DEF IInv, PaidOnceWhatWasProven, Fund, Opened, Committed, Provable
  <1>3. QED
    BY <1>1, <1>2 DEF IInv

\* IInv is inductive.
LEMMA NextKeeps == IInv /\ [Next]_vars => IInv'
  <1> SUFFICES ASSUME IInv, [Next]_vars PROVE IInv'
    OBVIOUS
  <1>1. CASE Commit
    BY <1>1, CommitKeeps
  <1>2. ASSUME NEW h \in Holders, Claim(h) PROVE IInv'
    BY <1>2, ClaimKeeps
  <1>3. ASSUME NEW n \in 1..MaxLamports, Fund(n) PROVE IInv'
    BY <1>3, FundKeeps
  <1>4. CASE UNCHANGED vars
    BY <1>4 DEF IInv, TypeOK, PaidOnceWhatWasProven, vars, Opened, Committed,
                Provable
  <1>5. QED
    BY <1>1, <1>2, <1>3, <1>4 DEF Next

\* The inductive invariant holds throughout.
THEOREM DistributionInvariance == Spec => []IInv
  BY InitEstablishes, NextKeeps, PTL DEF Spec

\* No balance, receipt or root leaves its type: in particular no claim drives the
\* vault below zero.
THEOREM DistributionTypeCorrect == Spec => []TypeOK
  <1>1. IInv => TypeOK
    BY DEF IInv
  <1>2. QED
    BY <1>1, DistributionInvariance, PTL

\* A holder gets, for an epoch, what its receipt records and no more, and that
\* amount is proven under the epoch's own root.
THEOREM DistributionPaysOnce == Spec => []PaidOnceWhatWasProven
  <1>1. IInv => PaidOnceWhatWasProven
    BY DEF IInv
  <1>2. QED
    BY <1>1, DistributionInvariance, PTL

-------------------------------------------------------------------------------
\* The only step that takes lamports out of the vault is a claim, and it hands them
\* to a listed holder with its first receipt for that epoch.
THEOREM DistributionVaultPaysOnlyListed == Spec => VaultPaysOnlyListed
  <1> DEFINE Pays ==
        fee_vault' < fee_vault =>
          \E h \in Holders, e \in Epochs :
            /\ ~Opened(h, e) /\ Opened(h, e)'
            /\ Provable(h, e, fee_vault - fee_vault')
            /\ paid' = [paid EXCEPT ![<<h, e>>] = fee_vault - fee_vault']
  <1>1. ASSUME IInv, [Next]_vars PROVE Pays \/ UNCHANGED vars
    <2> SUFFICES ASSUME Next, fee_vault' < fee_vault PROVE Pays
      BY <1>1
    <2>1. fee_vault \in Nat
      BY <1>1, AmountsAssumption DEF IInv, TypeOK
    <2>2. CASE Commit
      BY <2>1, <2>2 DEF Commit, CommitDistributionRoot
    <2>3. ASSUME NEW h \in Holders, Claim(h) PROVE Pays
      <3>1. PICK e \in Epochs, amount \in Amounts : ClaimHolderFees(h, e, amount)
        BY <2>3 DEF Claim
      <3>2. /\ amount \in Nat /\ amount > 0
            /\ Committed(e) /\ ~Opened(h, e) /\ Provable(h, e, amount)
            /\ fee_vault' = fee_vault - amount
            /\ fee_vault' \in 0..MaxLamports
            /\ fee_vault' < fee_vault
            /\ paid' = [paid EXCEPT ![<<h, e>>] = @ + amount]
            /\ claimed' = [claimed EXCEPT ![<<h, e>>] = amount]
            /\ claimed' \in [Holders \X Epochs -> Amounts \cup {NoAccount}]
            /\ claimed'[<<h, e>>] = amount
            /\ distribution' = distribution
        BY <1>1, <3>1, ClaimWrites DEF IInv
      <3>3. fee_vault - fee_vault' = amount
        BY <2>1, <3>2
      <3>4. paid[<<h, e>>] = 0 /\ paid \in [Holders \X Epochs -> Nat]
        BY <1>1, <3>2 DEF IInv, TypeOK, PaidOnceWhatWasProven
      <3>5. paid' = [paid EXCEPT ![<<h, e>>] = amount]
        BY <3>2, <3>4
      <3>6. Opened(h, e)'
        BY <3>2, NoAccountAssumption DEF Opened
      <3>7. /\ Provable(h, e, fee_vault - fee_vault')
            /\ paid' = [paid EXCEPT ![<<h, e>>] = fee_vault - fee_vault']
        BY <3>2, <3>3, <3>5
      <3>8. QED
        BY <3>2, <3>6, <3>7, Zenon
    <2>4. ASSUME NEW n \in 1..MaxLamports, Fund(n) PROVE Pays
      BY <2>1, <2>4 DEF Fund
    <2>5. QED
      BY <2>2, <2>3, <2>4 DEF Next
  <1>2. QED
    BY <1>1, DistributionInvariance, PTL DEF Spec, VaultPaysOnlyListed

-------------------------------------------------------------------------------
\* A commit makes one promise and leaves the others alone.
LEMMA CommitPromises ==
  ASSUME IInv, NEW signer, NEW e \in Epochs, NEW root \in Trees,
         NEW pool \in 0..MaxPool,
         CommitDistributionRoot(signer, e, root, pool)
  PROVE  Promises!Next
  <1>1. /\ distribution[e] = NoAccount
        /\ distribution' = [distribution EXCEPT ![e] =
                              [root |-> root, pool_lamports |-> pool]]
        /\ distribution' \in [Epochs -> DistributionAccount \cup {NoAccount}]
        /\ UNCHANGED <<claimed, fee_vault, paid>>
    BY CommitWrites DEF IInv
  <1>2. distribution \in [Epochs -> DistributionAccount \cup {NoAccount}]
    BY DEF IInv, TypeOK
  <1>3. PromisedBy(e)' \in SUBSET (Holders \X Amounts)
    <2>1. distribution'[e] = [root |-> root, pool_lamports |-> pool]
      BY <1>1, <1>2
    <2>2. distribution'[e] # NoAccount
      BY <2>1, NoAccountAssumption
    <2>3. QED
      BY <2>2, Zenon DEF PromisedBy, Committed
  <1>4. ASSUME NEW f \in Epochs, f # e PROVE PromisedBy(f)' = PromisedBy(f)
    <2>1. distribution'[f] = distribution[f]
      BY <1>1, <1>2, <1>4
    <2>2. QED
      BY <2>1 DEF PromisedBy, Committed, Provable
  <1>5. [f \in Epochs |-> PromisedBy(f)]' =
          [[f \in Epochs |-> PromisedBy(f)] EXCEPT ![e] = PromisedBy(e)']
    BY <1>4
  <1>6. [f \in Epochs |-> PromisedBy(f)][e] = NoAccount
    BY <1>1 DEF PromisedBy, Committed
  <1>7. Promises!Promise(e, PromisedBy(e)')
    BY <1>1, <1>5, <1>6 DEF Promises!Promise
  <1>8. QED
    BY <1>3, <1>7 DEF Promises!Next

\* A claim takes what was promised.
LEMMA ClaimTakes ==
  ASSUME IInv, NEW h \in Holders, NEW e \in Epochs, NEW amount \in Amounts,
         ClaimHolderFees(h, e, amount)
  PROVE  Promises!Next
  <1>1. /\ amount \in Nat /\ amount > 0
        /\ Committed(e) /\ ~Opened(h, e) /\ Provable(h, e, amount)
        /\ fee_vault' = fee_vault - amount
        /\ fee_vault' \in 0..MaxLamports
        /\ fee_vault' < fee_vault
        /\ paid' = [paid EXCEPT ![<<h, e>>] = @ + amount]
        /\ claimed' = [claimed EXCEPT ![<<h, e>>] = amount]
        /\ claimed' \in [Holders \X Epochs -> Amounts \cup {NoAccount}]
        /\ claimed'[<<h, e>>] = amount
        /\ distribution' = distribution
    BY ClaimWrites DEF IInv
  <1>2. <<h, amount>> \in [f \in Epochs |-> PromisedBy(f)][e]
    BY <1>1 DEF PromisedBy
  <1>3. [f \in Epochs |-> PromisedBy(f)][e] # NoAccount
    <2>1. PromisedBy(e) \in SUBSET (Holders \X Amounts)
      BY <1>1 DEF PromisedBy
    <2>2. QED
      BY <2>1, NoPromiseAssumption
  <1>4. UNCHANGED [f \in Epochs |-> PromisedBy(f)]
    BY <1>1 DEF PromisedBy, Committed, Provable
  <1>5. QED
    BY <1>1, <1>2, <1>3, <1>4 DEF Promises!Next, Promises!Take, Opened

\* The two instructions implement the abstract promise: Init is its initial state,
\* a commit promises, a claim takes, and funding the vault is a stutter.
THEOREM DistributionKeepsPromise == Spec => KeepsPromise
  <1>1. Init => Promises!Init
    <2> SUFFICES ASSUME Init PROVE Promises!Init
      OBVIOUS
    <2>1. \A e \in Epochs : PromisedBy(e) = NoAccount
      BY DEF Init, PromisedBy, Committed
    <2>2. QED
      BY <2>1 DEF Init, Promises!Init
  <1>2. IInv /\ [Next]_vars => [Promises!Next]_Promises!vars
    <2> SUFFICES ASSUME IInv, [Next]_vars PROVE [Promises!Next]_Promises!vars
      OBVIOUS
    <2>1. CASE Commit
      <3>1. PICK signer \in Holders \cup {Oracle}, e \in Epochs, root \in Trees,
                 pool \in 0..MaxPool : CommitDistributionRoot(signer, e, root, pool)
        BY <2>1 DEF Commit
      <3>2. QED
        BY <3>1, CommitPromises
    <2>2. ASSUME NEW h \in Holders, Claim(h) PROVE [Promises!Next]_Promises!vars
      <3>1. PICK e \in Epochs, amount \in Amounts : ClaimHolderFees(h, e, amount)
        BY <2>2 DEF Claim
      <3>2. QED
        BY <3>1, ClaimTakes
    <2>3. ASSUME UNCHANGED <<distribution, claimed>> PROVE UNCHANGED Promises!vars
      BY <2>3 DEF Promises!vars, PromisedBy, Committed, Provable
    <2>4. ASSUME NEW n \in 1..MaxLamports, Fund(n) PROVE UNCHANGED Promises!vars
      BY <2>3, <2>4 DEF Fund
    <2>5. CASE UNCHANGED vars
      BY <2>3, <2>5 DEF vars
    <2>6. QED
      BY <2>1, <2>2, <2>4, <2>5 DEF Next
  <1>3. QED
    BY <1>1, <1>2, DistributionInvariance, PTL DEF Spec, KeepsPromise, Promises!Spec
===============================================================================
