------------------------------- MODULE Interface -------------------------------
(***************************************************************************)
(* What the on-chain program and its clients have written down, each for   *)
(* itself, about the form of an instruction's account list and of an       *)
(* account's data.  Nothing ties these tables together: the CLI            *)
(* (cli/src/cmd), the SDK (sdk/src/instructions) and the checked-in IDL    *)
(* (idl/cols.json) list accounts by hand, in the order in which the        *)
(* program's `#[derive(Accounts)]` structs are supposed to name them.      *)
(*                                                                         *)
(* There is one pet and one account in each role, and the role stands for  *)
(* the account's address.  The throne has been captured before, by         *)
(* somebody else than the challenger.                                      *)
(***************************************************************************)
EXTENDS Naturals, Sequences

Instructions == {"init_config", "oracle_bind_pumpfun_launch", "mint_kol_nft",
                 "take_throne", "settle_throne", "commit_distribution_root",
                 "claim_holder_fees"}

-------------------------------------------------------------------------------
(***************************************************************************)
(* A field of an accounts struct: the role it is meant for, the Anchor     *)
(* type it is declared with, whether it is `mut`, and how its address is   *)
(* tied down.  A tied field admits one address, computed from the accounts *)
(* in `from`: by `seeds`, by a `constraint` or `associated_token`.         *)
(***************************************************************************)
Field(role, type, mut, tied, from) ==
  [role |-> role, type |-> type, mut |-> mut, tied |-> tied, from |-> from]

Signs(role)             == Field(role, "Signer", TRUE, FALSE, {})
Calls(role)             == Field(role, "Program", FALSE, FALSE, {})
Opens(role, from)       == Field(role, "Init", TRUE, TRUE, from)
OpensSigned(role)       == Field(role, "InitSigned", TRUE, FALSE, {})
Reads(role, type, from) == Field(role, type, FALSE, TRUE, from)
Moves(role, type, from) == Field(role, type, TRUE, TRUE, from)
Takes(role, type)       == Field(role, type, FALSE, FALSE, {})
TakesMut(role, type)    == Field(role, type, TRUE, FALSE, {})

InitConfig ==
  <<Signs("admin"), Opens("config", {}), Moves("fee_vault", "Unchecked", {}),
    Calls("system_program")>>

\* The pet and the launch are `init_if_needed`.
OracleBindPumpfunLaunch ==
  <<Signs("oracle"), Takes("kol_owner", "Unchecked"), Takes("pump_mint", "Unchecked"),
    Opens("pet", {"kol_owner"}), Opens("launch", {"pet"}),
    Reads("config", "Config", {"oracle"}), Calls("system_program")>>

MintKolNft ==
  <<Signs("oracle"), Reads("config", "Config", {"oracle"}), Reads("pet", "Pet", {}),
    Reads("launch", "Launch", {"pet"}), Opens("king", {"pet"}), OpensSigned("nft_mint"),
    Reads("escrow_owner", "Unchecked", {"king"}),
    Opens("escrow_vault", {"escrow_owner", "nft_mint"}),
    TakesMut("metadata", "Unchecked"), Calls("token_program"),
    Calls("associated_token_program"), Calls("token_metadata_program"),
    Calls("system_program"), Calls("rent")>>

TakeThrone ==
  <<Signs("challenger"), Reads("config", "Config", {}), Reads("pet", "Pet", {}),
    Reads("launch", "Launch", {"pet"}), Moves("king", "KingOfHill", {"pet"}),
    Reads("pump_mint", "Mint", {"launch"}),
    Reads("challenger_pump_ata", "TokenAccount", {"challenger", "pump_mint"}),
    Reads("nft_mint", "Mint", {"king"}), Moves("escrow_vault", "TokenAccount", {"king"}),
    Reads("escrow_owner", "Unchecked", {"king"}),
    Moves("challenger_nft_ata", "TokenAccount", {"challenger", "nft_mint"}),
    TakesMut("champion_nft_ata", "TokenAccount"), Calls("token_program")>>

SettleThrone ==
  <<Signs("oracle"), Reads("config", "Config", {"oracle"}), Reads("pet", "Pet", {}),
    Moves("king", "KingOfHill", {"pet"}),
    Moves("champion_nft_ata", "TokenAccount", {"king"}),
    Takes("nft_mint", "Mint"), Calls("token_program")>>

CommitDistributionRoot ==
  <<Signs("oracle"), Reads("config", "Config", {"oracle"}), Opens("distribution", {}),
    Calls("system_program")>>

ClaimHolderFees_NoConfig ==
  <<Signs("holder"), Reads("distribution", "Distribution", {}),
    Opens("holder_claim", {"holder"}), Moves("fee_vault", "Unchecked", {}),
    Calls("system_program")>>

ClaimHolderFees ==
  <<Signs("holder"), Reads("config", "Config", {}),
    Reads("distribution", "Distribution", {}), Opens("holder_claim", {"holder"}),
    Moves("fee_vault", "Unchecked", {}), Calls("system_program")>>

Context ==
  [init_config |-> InitConfig, oracle_bind_pumpfun_launch |-> OracleBindPumpfunLaunch,
   mint_kol_nft |-> MintKolNft, take_throne |-> TakeThrone,
   settle_throne |-> SettleThrone, commit_distribution_root |-> CommitDistributionRoot,
   claim_holder_fees |-> ClaimHolderFees]

-------------------------------------------------------------------------------
(***************************************************************************)
(* An entry of a client's list: an account with the rights it is given.    *)
(***************************************************************************)
Meta(account, signer, writable) ==
  [account |-> account, signer |-> signer, writable |-> writable]

Sig(account) == Meta(account, TRUE, TRUE)
Wr(account)  == Meta(account, FALSE, TRUE)
Ro(account)  == Meta(account, FALSE, FALSE)

\* cli/src/cmd.  Its escrow address has other seeds than the program's.
CliInit   == <<Wr("config"), Sig("admin"), Ro("system_program")>>
CliBind   == <<Sig("oracle"), Ro("config"), Ro("kol_owner"), Ro("pump_mint"), Wr("pet"),
               Wr("launch"), Ro("system_program")>>
CliMint   == <<Sig("oracle"), Ro("config"), Ro("pet"), Wr("king"), Sig("nft_mint"),
               Wr("cli_nft_vault"), Wr("metadata"), Ro("token_metadata_program"),
               Ro("token_program"), Ro("associated_token_program"),
               Ro("system_program"), Ro("rent")>>
CliTake   == <<Sig("challenger"), Ro("config"), Ro("pet"), Wr("king"), Ro("nft_mint"),
               Wr("cli_nft_vault"), Wr("champion_nft_ata"), Wr("challenger_nft_ata"),
               Ro("pump_mint"), Ro("challenger_pump_ata"), Ro("token_program"),
               Ro("associated_token_program"), Ro("system_program")>>
CliSettle == <<Sig("oracle"), Ro("config"), Ro("pet"), Wr("king"),
               Wr("champion_nft_ata"), Ro("champion"), Ro("nft_mint"),
               Ro("token_program")>>
CliCommit == <<Sig("oracle"), Ro("config"), Wr("distribution"), Wr("fee_vault"),
               Ro("system_program")>>
CliClaim  == <<Sig("holder"), Ro("distribution"), Wr("holder_claim"), Wr("fee_vault"),
               Ro("system_program")>>

Cli ==
  [init_config |-> CliInit, oracle_bind_pumpfun_launch |-> CliBind,
   mint_kol_nft |-> CliMint, take_throne |-> CliTake, settle_throne |-> CliSettle,
   commit_distribution_root |-> CliCommit, claim_holder_fees |-> CliClaim]

\* sdk/src/instructions.  A third pair of seeds for the escrow.
SdkInit   == <<Wr("config"), Sig("admin"), Ro("system_program")>>
SdkBind   == <<Ro("config"), Sig("oracle"), Ro("kol_owner"), Ro("pump_mint"), Wr("pet"),
               Wr("launch"), Ro("system_program")>>
SdkMint   == <<Sig("oracle"), Ro("pet"), Wr("king"), Sig("nft_mint"),
               Ro("sdk_vault_authority"), Wr("sdk_escrow_ata"), Wr("metadata"),
               Wr("master_edition"), Ro("token_metadata_program"), Ro("token_program"),
               Ro("associated_token_program"), Ro("system_program"), Ro("rent")>>
SdkTake   == <<Sig("challenger"), Ro("pet"), Ro("launch"), Wr("king"), Ro("nft_mint"),
               Ro("sdk_vault_authority"), Wr("sdk_escrow_ata"),
               Wr("challenger_pump_ata"), Wr("challenger_nft_ata"), Ro("champion"),
               Wr("champion_pump_ata"), Wr("champion_nft_ata"), Ro("token_program")>>
SdkSettle == <<Ro("config"), Meta("oracle", TRUE, FALSE), Ro("pet"), Wr("king"),
               Ro("champion"), Wr("champion_nft_ata"), Ro("token_program")>>
SdkCommit == <<Ro("config"), Sig("oracle"), Wr("distribution"), Ro("system_program")>>
SdkClaim  == <<Sig("holder"), Ro("distribution"), Wr("holder_claim"), Wr("fee_vault"),
               Ro("system_program")>>

Sdk ==
  [init_config |-> SdkInit, oracle_bind_pumpfun_launch |-> SdkBind,
   mint_kol_nft |-> SdkMint, take_throne |-> SdkTake, settle_throne |-> SdkSettle,
   commit_distribution_root |-> SdkCommit, claim_holder_fees |-> SdkClaim]

\* idl/cols.json
IdlInit   == <<Sig("admin"), Wr("config"), Wr("fee_vault"), Ro("system_program")>>
IdlBind   == <<Sig("oracle"), Ro("kol_owner"), Ro("pump_mint"), Wr("pet"), Wr("launch"),
               Ro("config"), Ro("system_program")>>
IdlMint   == <<Sig("oracle"), Ro("config"), Ro("pet"), Ro("launch"), Wr("king"),
               Sig("nft_mint"), Ro("escrow_owner"), Wr("escrow_vault"), Wr("metadata"),
               Ro("token_program"), Ro("associated_token_program"),
               Ro("token_metadata_program"), Ro("system_program"), Ro("rent")>>
IdlTake   == <<Sig("challenger"), Ro("config"), Ro("pet"), Ro("launch"), Wr("king"),
               Ro("pump_mint"), Ro("challenger_pump_ata"), Ro("nft_mint"),
               Wr("escrow_vault"), Ro("escrow_owner"), Wr("challenger_nft_ata"),
               Wr("champion_nft_ata"), Ro("token_program")>>
IdlSettle == <<Sig("oracle"), Ro("config"), Ro("pet"), Wr("king"),
               Wr("champion_nft_ata"), Ro("nft_mint"), Ro("token_program")>>
IdlCommit == <<Sig("oracle"), Ro("config"), Wr("distribution"), Ro("system_program")>>
IdlClaim  == <<Sig("holder"), Ro("config"), Ro("distribution"), Wr("holder_claim"),
               Wr("fee_vault"), Ro("system_program")>>

Idl ==
  [init_config |-> IdlInit, oracle_bind_pumpfun_launch |-> IdlBind,
   mint_kol_nft |-> IdlMint, take_throne |-> IdlTake, settle_throne |-> IdlSettle,
   commit_distribution_root |-> IdlCommit, claim_holder_fees |-> IdlClaim]

AccountList == [cli |-> Cli, sdk |-> Sdk, idl |-> Idl]

-------------------------------------------------------------------------------
(***************************************************************************)
(* The data of an account after its discriminator: borsh writes the fields *)
(* one after another, each with a fixed width.                             *)
(***************************************************************************)
Kinds == {"Config", "Pet", "Launch", "KingOfHill", "Distribution", "HolderClaim"}

Key(name)   == [name |-> name, width |-> 32]
U64(name)   == [name |-> name, width |-> 8]
U32(name)   == [name |-> name, width |-> 4]
Byte(name)  == [name |-> name, width |-> 1]
Padding(n)  == [name |-> "_reserved", width |-> n]

ConfigState ==
  <<Key("admin"), Key("oracle"), U32("fee_basis_points"), Byte("bump"), Padding(3)>>
PetState ==
  <<Key("owner"), Key("kol_name"), U64("bonded_at"), Byte("bump"), Padding(7)>>
LaunchState ==
  <<Key("pet"), Key("pump_mint"), U64("bonded_slot"), U64("real_sol_reserve"),
    U64("real_token_reserve"), U64("creator_fees_lamports"),
    U64("total_volume_lamports"), Byte("graduated"), Byte("bump"), Padding(6)>>

\* Slips, here and in Wire: what a plausible mistake would make of the definition
\* that follows.  The specification does not use them; each breaks a property.
KingState_SettlesAtEarly ==
  <<Key("pet"), Key("nft_mint"), Key("nft_escrow_vault"), Key("current_champion"),
    U64("champion_balance"), U64("last_captured_slot"), U64("settles_at_slot"),
    U32("take_overs"), Byte("bump"), Byte("nft_escrow_vault_bump"), Byte("settled"),
    Padding(5)>>

KingState ==
  <<Key("pet"), Key("nft_mint"), Key("nft_escrow_vault"), Key("current_champion"),
    U64("champion_balance"), U64("last_captured_slot"), U32("take_overs"), Byte("bump"),
    Byte("nft_escrow_vault_bump"), U64("settles_at_slot"), Byte("settled"), Padding(5)>>
DistributionState ==
  <<U64("epoch"), Key("root"), U64("pool_lamports"), U64("committed_at"), Byte("bump"),
    Padding(7)>>
HolderClaimState ==
  <<Key("holder"), U64("epoch"), U64("amount_claimed"), U64("claimed_at_slot"),
    Byte("bump"), Padding(7)>>

Written ==
  [Config |-> ConfigState, Pet |-> PetState, Launch |-> LaunchState,
   KingOfHill |-> KingState, Distribution |-> DistributionState,
   HolderClaim |-> HolderClaimState]

\* SIZE of each struct, without the discriminator.  Launch::SIZE counts six u64
\* where the struct has five; what no field fills stays zero.
Space ==
  [Config |-> 72, Pet |-> 80, Launch |-> 120, KingOfHill |-> 164,
   Distribution |-> 64, HolderClaim |-> 64]

\* The structs of cli/src/borsh_codec.rs.
CliRead ==
  [Config |-> <<Key("admin"), Key("oracle"), U32("fee_basis_points"), Byte("bump")>>,
   Pet |-> <<Key("owner"), Key("kol_name"), U64("bonded_at"), Byte("bump")>>,
   Launch |->
     <<Key("pet"), Key("pump_mint"), U64("bonded_slot"), U64("real_sol_reserve"),
       U64("real_token_reserve"), U64("creator_fees_lamports"),
       U64("total_volume_lamports"), Byte("graduated"), Byte("bump")>>,
   KingOfHill |->
     <<Key("pet"), Key("nft_mint"), Key("nft_escrow_vault"), Key("current_champion"),
       U64("champion_balance"), U64("last_captured_slot"), U32("take_overs"),
       Byte("bump"), Byte("nft_escrow_vault_bump"), U64("settles_at_slot"),
       Byte("settled")>>,
   Distribution |->
     <<U64("epoch"), Key("root"), U64("pool_lamports"), U64("committed_at"),
       Byte("bump")>>,
   HolderClaim |->
     <<Key("holder"), U64("epoch"), U64("amount_claimed"), U64("claimed_at_slot"),
       Byte("bump")>>]

\* The calls of the reader in sdk/src/decoder.ts, in the program's names.
SdkRead ==
  [Config |-> <<Key("admin"), Key("oracle"), U32("fee_basis_points"), Byte("bump")>>,
   Pet |-> <<Key("owner"), Key("kol_name"), U64("bonded_at"), Byte("bump")>>,
   Launch |->
     <<Key("pet"), Key("pump_mint"), U64("bonded_slot"), U64("real_sol_reserve"),
       U64("real_token_reserve"), U64("creator_fees_lamports"),
       U64("total_volume_lamports"), Byte("graduated"), Byte("bump")>>,
   KingOfHill |->
     <<Key("pet"), Key("nft_mint"), Key("nft_escrow_vault"), Key("current_champion"),
       U64("champion_balance"), U64("last_captured_slot"), U32("take_overs"),
       Byte("bump"), Byte("nft_escrow_vault_bump"), U64("settles_at_slot"),
       Byte("settled")>>,
   Distribution |->
     <<U64("epoch"), Key("root"), U64("pool_lamports"), U64("committed_at"),
       Byte("bump")>>,
   HolderClaim |->
     <<Key("holder"), U64("epoch"), U64("amount_claimed"), U64("claimed_at_slot"),
       Byte("bump")>>]
===============================================================================
