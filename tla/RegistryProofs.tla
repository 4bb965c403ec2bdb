---------------------------- MODULE RegistryProofs ----------------------------
(***************************************************************************)
(* Proofs about the registry, for any keys, names, coins and mints.        *)
(***************************************************************************)
EXTENDS Registry, TLAPS

-------------------------------------------------------------------------------
(***************************************************************************)
(* The inductive invariant.                                                *)
(***************************************************************************)

\* Every account is stored at the address that its own fields lead to.
AtTheirSeeds ==
  \A p \in Pets :
    /\ pets[p] # NoAccount => pets[p].owner = p.owner /\ pets[p].kol_name = p.name
    /\ launches[p] # NoAccount => launches[p].pet = p

\* Nothing is bound before there is an oracle.
BoundByOracle == \A p \in Pets : launches[p] # NoAccount => config # NoAccount

\* No pet is stamped with a slot that is still to come, its launch bound or not.
StampedInThePast == \A p \in Pets : pets[p] # NoAccount => pets[p].bonded_at <= slot

IInv ==
  /\ TypeOK
  /\ StampedInThePast
  /\ AtTheirSeeds
  /\ BoundByOracle
  /\ OneNftPerThrone
  /\ ThroneHasRealCoin
  /\ PetNoYoungerThanLaunch

-------------------------------------------------------------------------------
(***************************************************************************)
(* What the helpers return.                                                *)
(***************************************************************************)

\* A pet's address is made of its owner and its name and of nothing else.
LEMMA PetIsItsSeeds ==
  ASSUME NEW p \in Pets
  PROVE  p = [owner |-> p.owner, name |-> p.name] /\ p.owner \in Keys /\ p.name \in Names
  BY DEF Pets

\* Binding leaves an account at the pet's address, filed under its own seeds; a pet
\* that was there with a proper owner is left alone, and any other is stamped now.
LEMMA BoundPetFacts ==
  ASSUME TypeOK, AtTheirSeeds, NEW p \in Pets, NEW signer
  PROVE  /\ BoundPet(signer, p) \in PetAccount
         /\ BoundPet(signer, p) # NoAccount
         /\ BoundPet(signer, p).owner = p.owner
         /\ BoundPet(signer, p).kol_name = p.name
         /\ BoundPet(signer, p).bonded_at = slot \/ BoundPet(signer, p) = pets[p]
         /\ pets[p] # NoAccount /\ pets[p].owner # Zero => BoundPet(signer, p) = pets[p]
  <1>1. CASE Uninitialized(p)
    <2>1. BoundPet(signer, p) = [owner |-> p.owner, kol_name |-> p.name, bonded_at |-> slot]
      BY <1>1 DEF BoundPet
    <2>2. BoundPet(signer, p) \in PetAccount
      BY <2>1, PetIsItsSeeds DEF PetAccount, TypeOK
    <2> QED
      BY <1>1, <2>1, <2>2, NoAccountAssumption DEF Uninitialized
  <1>2. CASE ~Uninitialized(p)
    <2>1. BoundPet(signer, p) = pets[p] /\ pets[p] # NoAccount
      BY <1>2 DEF BoundPet, Uninitialized
    <2> QED
      BY <2>1 DEF TypeOK, AtTheirSeeds
  <1> QED
    BY <1>1, <1>2

\* Binding leaves a launch of the pet, stamped now; it is bound to the given coin if
\* it was not bound before, and to the coin it was bound to otherwise.
LEMMA BoundLaunchFacts ==
  ASSUME TypeOK, AtTheirSeeds, NEW p \in Pets, NEW coin \in PumpMints
  PROVE  /\ BoundLaunch(p, coin) \in LaunchAccount
         /\ BoundLaunch(p, coin) # NoAccount
         /\ BoundLaunch(p, coin).pet = p
         /\ BoundLaunch(p, coin).bonded_slot = slot
         /\ launches[p] # NoAccount => BoundLaunch(p, coin).pump_mint = launches[p].pump_mint
  <1>1. CASE launches[p] = NoAccount
    <2>1. BoundLaunch(p, coin) = [pet |-> p, pump_mint |-> coin, bonded_slot |-> slot]
      BY <1>1 DEF BoundLaunch
    <2> QED
      BY <1>1, <2>1, NoAccountAssumption DEF LaunchAccount, TypeOK
  <1>2. CASE launches[p] # NoAccount
    <2>1. BoundLaunch(p, coin) = [launches[p] EXCEPT !.bonded_slot = slot]
      BY <1>2 DEF BoundLaunch
    <2>2. launches[p] \in LaunchAccount /\ launches[p].pet = p
      BY <1>2 DEF TypeOK, AtTheirSeeds
    <2>3. slot \in 0..MaxSlot
      BY DEF TypeOK
    <2>4. BoundLaunch(p, coin) \in LaunchAccount
      BY <2>1, <2>2, <2>3 DEF LaunchAccount
    <2>5. /\ BoundLaunch(p, coin).pet = launches[p].pet
          /\ BoundLaunch(p, coin).pump_mint = launches[p].pump_mint
          /\ BoundLaunch(p, coin).bonded_slot = slot
      BY <2>1, <2>2 DEF LaunchAccount
    <2> QED
      BY <2>2, <2>4, <2>5, NoAccountAssumption
  <1> QED
    BY <1>1, <1>2

\* A mint that succeeds finds a bound pet with a real coin, and neither a king nor
\* anything at the mint's address.
LEMMA MintNeeds ==
  ASSUME NEW signer, NEW p, NEW m, NEW fits, MintResult(signer, p, m, fits) = "Ok"
  PROVE  /\ config # NoAccount /\ pets[p] # NoAccount
         /\ launches[p] # NoAccount /\ launches[p].pet = p /\ launches[p].pump_mint # Zero
         /\ kings[p] = NoAccount /\ mints[m] = NoAccount
  <1>1. SignedByOracle(signer) /\ MintAccountsFit(p, m) /\ launches[p].pump_mint # Zero
    BY Zenon DEF MintResult
  <1> QED
    BY <1>1 DEF SignedByOracle, MintAccountsFit

-------------------------------------------------------------------------------
(***************************************************************************)
(* The invariant holds initially and is kept by every step.                *)
(***************************************************************************)

\* A freshly deployed program satisfies the invariant.
LEMMA InitEstablishes == Init => IInv
  <1> SUFFICES ASSUME Init PROVE IInv
    OBVIOUS
  <1>1. TypeOK
    BY NumbersAssumption DEF Init, TypeOK
  <1> QED
    BY <1>1 DEF Init, IInv, StampedInThePast, AtTheirSeeds, BoundByOracle, OneNftPerThrone,
                ThroneHasRealCoin, PetNoYoungerThanLaunch

\* init_config opens the Config and touches nothing else.
LEMMA InitConfigPreserves ==
  ASSUME IInv, NEW signer \in Wallets, NEW oracle \in Keys, NEW fee \in FeeChoices,
         InitConfig(signer, oracle, fee)
  PROVE  IInv'
  <1>1. config = NoAccount /\ ~(fee > MaxFeeBps)
    BY Zenon DEF InitConfig, InitConfigResult
  <1>2. config' = [admin |-> signer, oracle |-> oracle, fee_basis_points |-> fee]
    BY DEF InitConfig
  <1>3. fee \in 0..MaxFeeBps
    BY <1>1, NumbersAssumption DEF MaxFeeBps
  <1>4. config' \in ConfigAccount /\ config' # NoAccount
    BY <1>2, <1>3, NoAccountAssumption DEF ConfigAccount
  <1>5. UNCHANGED <<pets, launches, kings, mints, slot>>
    BY DEF InitConfig
  <1>6. TypeOK'
    BY <1>4, <1>5 DEF IInv, TypeOK
  <1> QED
    BY <1>4, <1>5, <1>6 DEF IInv, StampedInThePast, AtTheirSeeds, BoundByOracle,
                            OneNftPerThrone, ThroneHasRealCoin, PetNoYoungerThanLaunch

\* Binding touches one pet and its launch; a throne it may already have keeps its
\* coin, since the call names the coin the launch is bound to.
LEMMA BindPreserves ==
  ASSUME IInv, NEW signer \in Wallets, NEW p \in Pets, NEW coin \in PumpMints,
         OracleBindPumpfunLaunch(signer, p, coin)
  PROVE  IInv'
  <1> USE DEF IInv
  <1>1. config # NoAccount
    BY Zenon DEF OracleBindPumpfunLaunch, BindResult, SignedByOracle
  <1>2. /\ pets' = [pets EXCEPT ![p] = BoundPet(signer, p)]
        /\ launches' = [launches EXCEPT ![p] = BoundLaunch(p, coin)]
        /\ UNCHANGED <<config, kings, mints, slot>>
    BY DEF OracleBindPumpfunLaunch
  <1>3. /\ pets'[p] = BoundPet(signer, p)
        /\ launches'[p] = BoundLaunch(p, coin)
        /\ \A q \in Pets : q # p => pets'[q] = pets[q] /\ launches'[q] = launches[q]
    BY <1>2 DEF TypeOK
  <1>4. /\ pets'[p] \in PetAccount /\ pets'[p] # NoAccount
        /\ pets'[p].owner = p.owner /\ pets'[p].kol_name = p.name
        /\ pets'[p].bonded_at = slot \/ pets'[p] = pets[p]
    BY <1>3, BoundPetFacts
  <1>5. /\ launches'[p] \in LaunchAccount /\ launches'[p] # NoAccount
        /\ launches'[p].pet = p /\ launches'[p].bonded_slot = slot
        /\ launches[p] # NoAccount => launches'[p].pump_mint = launches[p].pump_mint
    BY <1>3, BoundLaunchFacts
  <1>6. TypeOK'
    BY <1>2, <1>4, <1>5, <1>3 DEF TypeOK
  <1>7. AtTheirSeeds'
    BY <1>3, <1>4, <1>5 DEF AtTheirSeeds
  <1>12. StampedInThePast'
    BY <1>2, <1>3, <1>4, NumbersAssumption DEF StampedInThePast, TypeOK
  <1>8. BoundByOracle'
    BY <1>1, <1>2 DEF BoundByOracle
  <1>9. OneNftPerThrone'
    BY <1>2 DEF OneNftPerThrone
  <1>10. ThroneHasRealCoin'
    BY <1>2, <1>3, <1>4, <1>5 DEF ThroneHasRealCoin
  <1>11. PetNoYoungerThanLaunch'
    <2> SUFFICES ASSUME NEW q \in Pets, launches'[q] # NoAccount
                 PROVE  /\ pets'[q] # NoAccount
                        /\ pets'[q].bonded_at <= launches'[q].bonded_slot
                        /\ launches'[q].bonded_slot <= slot'
      BY DEF PetNoYoungerThanLaunch
    <2>1. CASE q # p
      BY <2>1, <1>2, <1>3 DEF PetNoYoungerThanLaunch
    <2>2. CASE q = p
      <3>1. slot \in Nat
        BY NumbersAssumption DEF TypeOK
      <3>2. pets'[p].bonded_at <= slot
        <4>1. CASE pets'[p].bonded_at = slot
          BY <4>1, <3>1
        <4>2. CASE pets'[p] = pets[p]
          BY <4>2, <1>4, <1>4 DEF StampedInThePast
        <4> QED
          BY <4>1, <4>2, <1>4
      <3> QED
        BY <2>2, <3>1, <3>2, <1>2, <1>4, <1>5
    <2> QED
      BY <2>1, <2>2
  <1> QED
    BY <1>6, <1>7, <1>8, <1>9, <1>10, <1>11, <1>12

\* Minting opens a king and a mint where there was neither.
LEMMA MintPreserves ==
  ASSUME IInv, NEW signer \in Wallets, NEW p \in Pets, NEW m \in NftMints,
         NEW fits \in BOOLEAN, MintKolNft(signer, p, m, fits)
  PROVE  IInv'
  <1> USE DEF IInv
  <1>1. /\ config # NoAccount /\ pets[p] # NoAccount
        /\ launches[p] # NoAccount /\ launches[p].pet = p /\ launches[p].pump_mint # Zero
        /\ kings[p] = NoAccount /\ mints[m] = NoAccount
    <2>1. MintResult(signer, p, m, fits) = "Ok"
      BY DEF MintKolNft
    <2> QED
      BY <2>1, MintNeeds
  <1>2. /\ kings' = [kings EXCEPT ![p] = [pet |-> p, nft_mint |-> m]]
        /\ mints' = [mints EXCEPT ![m] = [authority |-> p, supply |-> 1]]
        /\ UNCHANGED <<config, pets, launches, slot>>
    BY DEF MintKolNft
  <1>3. /\ kings'[p] = [pet |-> p, nft_mint |-> m]
        /\ mints'[m] = [authority |-> p, supply |-> 1]
        /\ \A q \in Pets : q # p => kings'[q] = kings[q]
        /\ \A n \in NftMints : n # m => mints'[n] = mints[n]
    BY <1>2 DEF TypeOK
  <1>4. kings'[p] \in KingAccount /\ mints'[m] \in MintAccount
    BY <1>3 DEF KingAccount, MintAccount
  <1>5. kings'[p] # NoAccount /\ mints'[m] # NoAccount
    BY <1>4, NoAccountAssumption
  <1>6. TypeOK'
    BY <1>2, <1>3, <1>4 DEF TypeOK
  <1>7. OneNftPerThrone'
    <2>1. ASSUME NEW q \in Pets, kings'[q] # NoAccount
          PROVE  mints'[kings'[q].nft_mint] = [authority |-> q, supply |-> 1]
      <3>1. CASE q = p
        BY <3>1, <1>3
      <3>2. CASE q # p
        <4>1. kings'[q] = kings[q] /\ kings[q] # NoAccount
          BY <3>2, <2>1, <1>3
        <4>2. kings[q].nft_mint \in NftMints
          BY <4>1 DEF TypeOK, KingAccount
        <4>3. mints[kings[q].nft_mint] = [authority |-> q, supply |-> 1]
          BY <4>1 DEF OneNftPerThrone
        <4>4. [authority |-> q, supply |-> 1] # NoAccount
          BY NoAccountAssumption DEF MintAccount
        <4>5. kings[q].nft_mint # m
          BY <4>3, <4>4, <1>1
        <4> QED
          BY <4>1, <4>2, <4>3, <4>5, <1>3
      <3> QED
        BY <3>1, <3>2
    <2>2. ASSUME NEW n \in NftMints, mints'[n] # NoAccount
          PROVE  \E q \in Pets :
                   mints'[n].authority = q /\ kings'[q] # NoAccount /\ kings'[q].nft_mint = n
      <3>1. CASE n = m
        BY <3>1, <1>3, <1>5
      <3>2. CASE n # m
        <4>1. mints'[n] = mints[n] /\ mints[n] # NoAccount
          BY <3>2, <2>2, <1>3
        <4>2. PICK q \in Pets :
                mints[n].authority = q /\ kings[q] # NoAccount /\ kings[q].nft_mint = n
          BY <4>1 DEF OneNftPerThrone
        <4>3. q # p
          BY <4>2, <1>1
        <4> QED
          BY <4>1, <4>2, <4>3, <1>3
      <3> QED
        BY <3>1, <3>2
    <2> QED
      BY <2>1, <2>2 DEF OneNftPerThrone
  <1>8. ThroneHasRealCoin'
    BY <1>1, <1>2, <1>3 DEF ThroneHasRealCoin
  <1>9. StampedInThePast' /\ AtTheirSeeds' /\ BoundByOracle' /\ PetNoYoungerThanLaunch'
    BY <1>2 DEF StampedInThePast, AtTheirSeeds, BoundByOracle, PetNoYoungerThanLaunch
  <1> QED
    BY <1>6, <1>7, <1>8, <1>9

\* Time only makes the stamps older.
LEMMA TickPreserves ==
  ASSUME IInv, Tick
  PROVE  IInv'
  <1>1. slot' = slot + 1 /\ slot \in Nat /\ slot' \in 0..MaxSlot
    BY NumbersAssumption DEF Tick, IInv, TypeOK
  <1>2. UNCHANGED <<config, pets, launches, kings, mints>>
    BY DEF Tick
  <1>3. TypeOK' /\ AtTheirSeeds' /\ BoundByOracle' /\ OneNftPerThrone' /\ ThroneHasRealCoin'
    BY <1>1, <1>2 DEF IInv, TypeOK, AtTheirSeeds, BoundByOracle, OneNftPerThrone,
                      ThroneHasRealCoin
  <1>4. ASSUME NEW p \in Pets, pets[p] # NoAccount PROVE pets[p].bonded_at \in Nat
    BY <1>4 DEF IInv, TypeOK, PetAccount
  <1>5. ASSUME NEW p \in Pets, launches[p] # NoAccount PROVE launches[p].bonded_slot \in Nat
    BY <1>5 DEF IInv, TypeOK, LaunchAccount
  <1>6. StampedInThePast'
    BY <1>1, <1>2, <1>4 DEF IInv, StampedInThePast
  <1>7. PetNoYoungerThanLaunch'
    BY <1>1, <1>2, <1>5 DEF IInv, PetNoYoungerThanLaunch
  <1> QED
    BY <1>3, <1>6, <1>7 DEF IInv

\* Every step keeps the invariant.
LEMMA StepPreserves == IInv /\ [Next]_vars => IInv'
  <1> SUFFICES ASSUME IInv, [Next]_vars PROVE IInv'
    OBVIOUS
  <1>1. CASE \E signer \in Wallets, oracle \in Keys, fee \in FeeChoices :
               InitConfig(signer, oracle, fee)
    BY <1>1, InitConfigPreserves
  <1>2. CASE \E signer \in Wallets, p \in Pets, coin \in PumpMints :
               OracleBindPumpfunLaunch(signer, p, coin)
    BY <1>2, BindPreserves
  <1>3. CASE \E signer \in Wallets, p \in Pets, m \in NftMints, fits \in BOOLEAN :
               MintKolNft(signer, p, m, fits)
    BY <1>3, MintPreserves
  <1>4. CASE Tick
    BY <1>4, TickPreserves
  <1>5. CASE UNCHANGED vars
    BY <1>5 DEF vars, IInv, TypeOK, StampedInThePast, AtTheirSeeds, BoundByOracle,
                OneNftPerThrone, ThroneHasRealCoin, PetNoYoungerThanLaunch
  <1> QED
    BY <1>1, <1>2, <1>3, <1>4, <1>5 DEF Next

\* The invariant holds in every reachable state.
THEOREM RegistryInvariance == Spec => []IInv
  BY InitEstablishes, StepPreserves, PTL DEF Spec

-------------------------------------------------------------------------------
(***************************************************************************)
(* The properties.                                                         *)
(***************************************************************************)

\* Every variable holds what its account can hold.
THEOREM RegistryTypeCorrect == Spec => []TypeOK
  <1>1. IInv => TypeOK
    BY DEF IInv
  <1> QED
    BY <1>1, RegistryInvariance, PTL

\* Every throne has one NFT of its own, and every NFT its throne, whatever calls of
\* mint_kol_nft are retried.
THEOREM RegistryOneNft == Spec => []OneNftPerThrone
  <1>1. IInv => OneNftPerThrone
    BY DEF IInv
  <1> QED
    BY <1>1, RegistryInvariance, PTL

\* Every throne is that of a pet bound to a real coin.
THEOREM RegistryRealCoin == Spec => []ThroneHasRealCoin
  <1>1. IInv => ThroneHasRealCoin
    BY DEF IInv
  <1> QED
    BY <1>1, RegistryInvariance, PTL

\* A pet was there no later than its launch was last bound.
THEOREM RegistryStampsOrdered == Spec => []PetNoYoungerThanLaunch
  <1>1. IInv => PetNoYoungerThanLaunch
    BY DEF IInv
  <1> QED
    BY <1>1, RegistryInvariance, PTL

\* No order of calls leaves a bound pet without a way to its throne.
THEOREM RegistryStaysMintable == Spec => []BoundPetMintable
  <1>1. IInv => BoundPetMintable
    <2> SUFFICES ASSUME IInv, NEW p \in Pets, NEW m \in NftMints,
                        launches[p] # NoAccount, launches[p].pump_mint # Zero,
                        kings[p] = NoAccount, mints[m] = NoAccount
                 PROVE  MintResult(config.oracle, p, m, TRUE) = "Ok"
      BY DEF BoundPetMintable
    <2>1. SignedByOracle(config.oracle)
      BY DEF IInv, BoundByOracle, SignedByOracle
    <2>2. pets[p] # NoAccount
      BY DEF IInv, PetNoYoungerThanLaunch
    <2>3. [owner |-> pets[p].owner, name |-> pets[p].kol_name] = p
      BY <2>2, PetIsItsSeeds DEF IInv, AtTheirSeeds
    <2>4. launches[p].pet = p
      BY DEF IInv, AtTheirSeeds
    <2>5. MintAccountsFit(p, m)
      BY <2>2, <2>3, <2>4 DEF MintAccountsFit
    <2> QED
      BY <2>1, <2>5, Zenon DEF MintResult
  <1> QED
    BY <1>1, RegistryInvariance, PTL

\* The Config, and the oracle in it, is written once.
THEOREM RegistryOneOracle == Spec => OneOracleForever
  <1>1. [Next]_vars => [config # NoAccount => config' = config]_vars
    <2> SUFFICES ASSUME Next, config # NoAccount PROVE config' = config
      OBVIOUS
    <2>1. ASSUME NEW signer \in Wallets, NEW oracle \in Keys, NEW fee \in FeeChoices,
                 InitConfig(signer, oracle, fee)
          PROVE  FALSE
      BY <2>1, Zenon DEF InitConfig, InitConfigResult
    <2> QED
      BY <2>1 DEF Next, OracleBindPumpfunLaunch, MintKolNft, Tick
  <1> QED
    BY <1>1, PTL DEF Spec, OneOracleForever

\* What binding again leaves as it was: the coin of a launch and the pet of a KOL.
LEMMA BindingAgain ==
  ASSUME IInv, [Next]_vars, NEW p \in Pets
  PROVE  /\ launches[p] # NoAccount =>
              launches'[p] # NoAccount /\ launches'[p].pump_mint = launches[p].pump_mint
         /\ pets[p] # NoAccount /\ pets[p].owner # Zero => pets'[p] = pets[p]
  <1>1. ASSUME NEW signer \in Wallets, NEW q \in Pets, NEW coin \in PumpMints,
               OracleBindPumpfunLaunch(signer, q, coin)
        PROVE  /\ launches[p] # NoAccount =>
                    launches'[p] # NoAccount /\ launches'[p].pump_mint = launches[p].pump_mint
               /\ pets[p] # NoAccount /\ pets[p].owner # Zero => pets'[p] = pets[p]
    <2>1. /\ pets' = [pets EXCEPT ![q] = BoundPet(signer, q)]
          /\ launches' = [launches EXCEPT ![q] = BoundLaunch(q, coin)]
      BY <1>1 DEF OracleBindPumpfunLaunch
    <2>2. CASE p # q
      BY <2>1, <2>2 DEF IInv, TypeOK
    <2>3. CASE p = q
      <3>1. pets'[p] = BoundPet(signer, p) /\ launches'[p] = BoundLaunch(p, coin)
        BY <2>1, <2>3 DEF IInv, TypeOK
      <3> QED
        BY <3>1, BoundPetFacts, BoundLaunchFacts DEF IInv
    <2> QED
      BY <2>2, <2>3
  <1> QED
    BY <1>1 DEF Next, vars, InitConfig, MintKolNft, Tick

\* The coin a pet is bound to never changes.
THEOREM RegistryCoinStaysBound == Spec => CoinStaysBound
  <1>1. IInv /\ [Next]_vars =>
          [ \A p \in Pets :
              launches[p] # NoAccount =>
                launches'[p] # NoAccount /\ launches'[p].pump_mint = launches[p].pump_mint ]_vars
    BY BindingAgain
  <1> QED
    BY <1>1, RegistryInvariance, PTL DEF Spec, CoinStaysBound

\* A KOL's pet is stamped once.
THEOREM RegistryPetStampedOnce == Spec => PetStampedOnce
  <1>1. IInv /\ [Next]_vars =>
          [ \A p \in Pets :
              pets[p] # NoAccount /\ pets[p].owner # Zero => pets'[p] = pets[p] ]_vars
    BY BindingAgain
  <1> QED
    BY <1>1, RegistryInvariance, PTL DEF Spec, PetStampedOnce
===============================================================================
