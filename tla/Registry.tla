------------------------------- MODULE Registry -------------------------------
(***************************************************************************)
(* What the protocol is set up from: the `init_config`,                    *)
(* `oracle_bind_pumpfun_launch` and `mint_kol_nft` instructions of         *)
(* programs/cols, and the Config, Pet, Launch and KingOfHill accounts they *)
(* open.  A behaviour starts with a freshly deployed program.              *)
(*                                                                         *)
(* An account derived from seeds is known by its seeds: a pet by its KOL   *)
(* and name, a launch and a king by their pet.  Any key may sign; a call   *)
(* sent twice, or retried after its answer was lost, is the same action    *)
(* taken again.  A rejected call leaves every account as it was.           *)
(***************************************************************************)
EXTENDS Naturals

CONSTANTS
  Wallets,      \* keys that somebody can sign with
  Zero,         \* Pubkey::default(), the address of the system program
  Names,        \* KOL names, as 32 bytes
  Coins,        \* memecoin mints of pump.fun
  NftMints,     \* fresh keypairs that a mint can be created at
  FeeChoices,   \* the fee_basis_points that init_config is called with
  MaxSlot,      \* slots are counted up to here
  NoAccount     \* an address where no account has been opened

MaxFeeBps == 10000

Keys == Wallets \cup {Zero}
PumpMints == Coins \cup {Zero}
Pets == [owner: Keys, name: Names]

ConfigAccount == [admin: Wallets, oracle: Keys, fee_basis_points: 0..MaxFeeBps]
PetAccount == [owner: Keys, kol_name: Names, bonded_at: 0..MaxSlot]
LaunchAccount == [pet: Pets, pump_mint: PumpMints, bonded_slot: 0..MaxSlot]
KingAccount == [pet: Pets, nft_mint: NftMints]
MintAccount == [authority: Pets, supply: 0..1]

ASSUME ZeroAssumption == Zero \notin Wallets /\ Zero \notin Coins

ASSUME NumbersAssumption == FeeChoices \subseteq Nat /\ MaxSlot \in Nat

ASSUME NoAccountAssumption ==
  /\ NoAccount \notin ConfigAccount
  /\ NoAccount \notin PetAccount
  /\ NoAccount \notin LaunchAccount
  /\ NoAccount \notin KingAccount
  /\ NoAccount \notin MintAccount

VARIABLES
  config,    \* the Config account
  pets,      \* pets[p]: the Pet account at p's address
  launches,  \* launches[p]: the Launch account of pet p
  kings,     \* kings[p]: the KingOfHill account of pet p
  mints,     \* mints[m]: the SPL mint at m
  slot       \* the runtime's clock

vars == <<config, pets, launches, kings, mints, slot>>

-------------------------------------------------------------------------------
(***************************************************************************)
(* The instructions.  Slips are what a plausible mistake would make of the *)
(* definition that follows them; the specification does not use them.      *)
(***************************************************************************)

InitConfigResult_AnyFee(fee) ==
  IF config # NoAccount THEN "AlreadyInUse" ELSE "Ok"

\* Anchor opens the account (`init`) before the handler looks at the fee.
InitConfigResult(fee) ==
  IF config # NoAccount THEN "AlreadyInUse"
  ELSE IF fee > MaxFeeBps THEN "FeeTooHigh"
  ELSE "Ok"

InitConfig(signer, oracle, fee) ==
  /\ InitConfigResult(fee) = "Ok"
  /\ config' = [admin |-> signer, oracle |-> oracle, fee_basis_points |-> fee]
  /\ UNCHANGED <<pets, launches, kings, mints, slot>>

SignedByOracle(signer) == config # NoAccount /\ config.oracle = signer

Uninitialized(p) == pets[p] = NoAccount \/ pets[p].owner = Zero

BoundPet_OwnedByOracle(signer, p) ==
  IF Uninitialized(p)
    THEN [owner |-> signer, kol_name |-> p.name, bonded_at |-> slot]
    ELSE pets[p]

\* A pet whose owner is the default key passes for one that was just opened.
BoundPet(signer, p) ==
  IF Uninitialized(p)
    THEN [owner |-> p.owner, kol_name |-> p.name, bonded_at |-> slot]
    ELSE pets[p]

BoundLaunch_Rebound(p, coin) ==
  [pet |-> p, pump_mint |-> coin, bonded_slot |-> slot]

BoundLaunch(p, coin) ==
  IF launches[p] = NoAccount
    THEN [pet |-> p, pump_mint |-> coin, bonded_slot |-> slot]
    ELSE [launches[p] EXCEPT !.bonded_slot = slot]

BindResult_AnyMint(signer, p, coin) ==
  IF ~SignedByOracle(signer) THEN "OracleMismatch"
  ELSE IF ~Uninitialized(p) /\ pets[p].owner # p.owner THEN "Unauthorized"
  ELSE IF ~Uninitialized(p) /\ pets[p].kol_name # p.name THEN "NameTooLong"
  ELSE IF launches[p] # NoAccount /\ launches[p].pet # p THEN "PetMismatch"
  ELSE "Ok"

BindResult(signer, p, coin) ==
  IF ~SignedByOracle(signer) THEN "OracleMismatch"
  ELSE IF ~Uninitialized(p) /\ pets[p].owner # p.owner THEN "Unauthorized"
  ELSE IF ~Uninitialized(p) /\ pets[p].kol_name # p.name THEN "NameTooLong"
  ELSE IF launches[p] # NoAccount /\ launches[p].pet # p THEN "PetMismatch"
  ELSE IF launches[p] # NoAccount /\ launches[p].pump_mint # coin THEN "MintMismatch"
  ELSE "Ok"

OracleBindPumpfunLaunch_AsIfNew(signer, p, coin) ==
  /\ BindResult_AnyMint(signer, p, coin) = "Ok"
  /\ pets' = [pets EXCEPT ![p] = BoundPet(signer, p)]
  /\ launches' = [launches EXCEPT ![p] = BoundLaunch_Rebound(p, coin)]
  /\ UNCHANGED <<config, kings, mints, slot>>

OracleBindPumpfunLaunch(signer, p, coin) ==
  /\ BindResult(signer, p, coin) = "Ok"
  /\ pets' = [pets EXCEPT ![p] = BoundPet(signer, p)]
  /\ launches' = [launches EXCEPT ![p] = BoundLaunch(p, coin)]
  /\ UNCHANGED <<config, kings, mints, slot>>

\* The accounts of the call satisfy the constraints of `MintKolNft`: the pet and
\* its launch are the ones their stored seeds lead to, and the king and the mint
\* are not there yet.
MintAccountsFit_KingReused(p, m) ==
  /\ pets[p] # NoAccount
  /\ [owner |-> pets[p].owner, name |-> pets[p].kol_name] = p
  /\ launches[p] # NoAccount
  /\ launches[p].pet = p
  /\ mints[m] = NoAccount

MintAccountsFit(p, m) ==
  /\ pets[p] # NoAccount
  /\ [owner |-> pets[p].owner, name |-> pets[p].kol_name] = p
  /\ launches[p] # NoAccount
  /\ launches[p].pet = p
  /\ kings[p] = NoAccount
  /\ mints[m] = NoAccount

MintResult_AnyLaunch(signer, p, m, fits) ==
  IF ~SignedByOracle(signer) THEN "OracleMismatch"
  ELSE IF ~MintAccountsFit(p, m) THEN "ConstraintViolated"
  ELSE IF ~fits THEN "MetadataTooLong"
  ELSE "Ok"

\* `fits`: name, symbol and URI keep within Metaplex's limits, and the metadata
\* address passed is the mint's.
MintResult(signer, p, m, fits) ==
  IF ~SignedByOracle(signer) THEN "OracleMismatch"
  ELSE IF ~MintAccountsFit(p, m) THEN "ConstraintViolated"
  ELSE IF ~fits THEN "MetadataTooLong"
  ELSE IF launches[p].pump_mint = Zero THEN "BondingCurveNotInitialized"
  ELSE "Ok"

MintKolNft(signer, p, m, fits) ==
  /\ MintResult(signer, p, m, fits) = "Ok"
  /\ kings' = [kings EXCEPT ![p] = [pet |-> p, nft_mint |-> m]]
  /\ mints' = [mints EXCEPT ![m] = [authority |-> p, supply |-> 1]]
  /\ UNCHANGED <<config, pets, launches, slot>>

Tick ==
  /\ slot < MaxSlot
  /\ slot' = slot + 1
  /\ UNCHANGED <<config, pets, launches, kings, mints>>

-------------------------------------------------------------------------------
Init ==
  /\ config = NoAccount
  /\ pets = [p \in Pets |-> NoAccount]
  /\ launches = [p \in Pets |-> NoAccount]
  /\ kings = [p \in Pets |-> NoAccount]
  /\ mints = [m \in NftMints |-> NoAccount]
  /\ slot = 0

Next ==
  \/ \E signer \in Wallets, oracle \in Keys, fee \in FeeChoices :
       InitConfig(signer, oracle, fee)
  \/ \E signer \in Wallets, p \in Pets, coin \in PumpMints :
       OracleBindPumpfunLaunch(signer, p, coin)
  \/ \E signer \in Wallets, p \in Pets, m \in NftMints, fits \in BOOLEAN :
       MintKolNft(signer, p, m, fits)
  \/ Tick

Spec == Init /\ [][Next]_vars

-------------------------------------------------------------------------------
(***************************************************************************)
(* What the registry promises.                                             *)
(***************************************************************************)

\* Every variable holds what its account can hold; the fee is at most 100 %.
TypeOK ==
  /\ config \in ConfigAccount \cup {NoAccount}
  /\ pets \in [Pets -> PetAccount \cup {NoAccount}]
  /\ launches \in [Pets -> LaunchAccount \cup {NoAccount}]
  /\ kings \in [Pets -> KingAccount \cup {NoAccount}]
  /\ mints \in [NftMints -> MintAccount \cup {NoAccount}]
  /\ slot \in 0..MaxSlot

\* Once there is a Config, its oracle stays the only key that ever opens or
\* changes a pet, a launch or a king, and the admin cannot name another.
OneOracleForever ==
  [][config # NoAccount => config' = config]_vars

\* One throne, one NFT, whatever is retried: every king has a mint of its own, and
\* a mint that the program created is some king's, so no second token of a throne
\* is ever minted and none is minted without a throne.
OneNftPerThrone ==
  /\ \A p \in Pets :
       kings[p] # NoAccount => mints[kings[p].nft_mint] = [authority |-> p, supply |-> 1]
  /\ \A m \in NftMints :
       mints[m] # NoAccount =>
         \E p \in Pets :
           mints[m].authority = p /\ kings[p] # NoAccount /\ kings[p].nft_mint = m

\* A throne is only ever minted for a pet that is bound to a real coin, and the
\* launch that take_throne reads the coin from is there.
ThroneHasRealCoin ==
  \A p \in Pets :
    kings[p] # NoAccount =>
      /\ pets[p] # NoAccount
      /\ launches[p] # NoAccount
      /\ launches[p].pet = p
      /\ launches[p].pump_mint # Zero

\* The coin a pet is bound to never changes, however often the oracle binds it
\* again: reigning balances of one throne are always amounts of one coin.
CoinStaysBound ==
  [][ \A p \in Pets :
        launches[p] # NoAccount =>
          launches'[p] # NoAccount /\ launches'[p].pump_mint = launches[p].pump_mint ]_vars

\* A pet was there no later than its launch was last bound, and neither is stamped
\* with a slot that is still to come.
PetNoYoungerThanLaunch ==
  \A p \in Pets :
    launches[p] # NoAccount =>
      /\ pets[p] # NoAccount
      /\ pets[p].bonded_at <= launches[p].bonded_slot
      /\ launches[p].bonded_slot <= slot

\* A KOL's pet is stamped once: binding it again keeps the slot it was bonded at.
PetStampedOnce ==
  [][ \A p \in Pets :
        pets[p] # NoAccount /\ pets[p].owner # Zero => pets'[p] = pets[p] ]_vars

\* No order of calls leaves a bound pet without a way to its throne: as long as it
\* has none, the oracle can mint it with any fresh mint -- unless it was bound to
\* the default key in place of a coin.
BoundPetMintable ==
  \A p \in Pets :
    launches[p] # NoAccount /\ launches[p].pump_mint # Zero /\ kings[p] = NoAccount =>
      \A m \in NftMints :
        mints[m] = NoAccount => MintResult(config.oracle, p, m, TRUE) = "Ok"
===============================================================================
