# TLA+ models of COLS

COLS is a Solana program (`programs/cols`, Anchor) with a TypeScript SDK
(`sdk`) and a Rust command line (`cli`). For every key opinion leader (KOL) it
keeps a *pet* bound to one pump.fun memecoin and a *throne*: a 1/1 NFT that
goes to whoever shows a larger balance of that coin than the reigning champion
did, until a deadline; and it pays holders from a fee vault, epoch by epoch,
against merkle roots that an oracle commits.

This directory holds TLA+ modules translated from that code, TLC
configurations that check them on small instances, and TLAPS proofs of what
holds for every instance. `PROJECT.json` says which lines each definition
translates, which run checks which property, and which plausible mistake of the
code each property catches: a definition `Name_Slip` is what that mistake would
make of `Name`, and no specification uses it.

    tlasany Throne.tla                                            # parse
    tlc -workers 2 -config Throne_meddlers.cfg MCThrone.tla       # model-check
    tlapm ThroneProofs.tla                                        # check the proofs

## The system

| Part | State | Operations | What is hard about it |
| --- | --- | --- | --- |
| throne (`take_throne.rs`, `settle_throne.rs`, `king.rs`) | `KingOfHill`: champion, recorded balance, last capture, counter, deadline, settled; the SPL token accounts of the king NFT | `take_throne`, `settle_throne` | owners of token accounts act behind the program; the balance is read once; capture and settlement meet at the deadline; the pull depends on an approval of an earlier transaction |
| distributions (`commit_distribution_root.rs`, `claim_holder_fees.rs`) | `Distribution` per epoch, `HolderClaim` per holder and epoch, one fee vault | commit, claim | repeated calls; one vault for all epochs; the oracle is trusted for what the program does not check; the runtime's rent rule |
| merkle tree (`utils.rs`, `sdk/src/merkle.ts`) | none; loops over levels and proofs | build, prove, verify | odd levels; two builders and one verifier; proofs of any length |
| registry (`init_config.rs`, `bind_launch.rs`, `mint_kol_nft.rs`) | `Config`, `Pet`, `Launch`, `KingOfHill`, the NFT mints | init, bind, mint | `init` and `init_if_needed`, default keys as "not there", retries with other accounts |
| CLI grinder (`cmd/grind.rs`) | an atomic flag, a counter, a mutex, threads | `grind` | relaxed loads, a second match after the first, joins |
| CLI transaction commands, SDK client and builders | none of their own; what was read of an account before the call is put together | one per instruction | stale reads, hand-written account lists |
| CLI and SDK codecs, the IDL | none | encode, decode, derive addresses | widths, padding, seeds, lists in a prescribed order |
| off-chain oracle (watcher, launcher, aggregator) | not in the repository | signs the oracle-only instructions | trusted; modelled as an environment |

How they interact. Clients build transactions; a transaction is one atomic step
of the program: it commits every change or none. The instructions of the
program share accounts: `init_config` opens the `Config` whose oracle every
oracle-only instruction asks for; `oracle_bind_pumpfun_launch` opens the `Pet`
and the `Launch` that `mint_kol_nft` needs; that one opens the `KingOfHill` and
puts the NFT into the vault that the first `take_throne` empties. The program
calls the SPL Token program, which holds the NFT's accounts and obeys their
owners too. The distributions share the fee vault and the oracle with the rest
and nothing else.

What makes each part correct:

* throne: the three signs of "nobody yet" agree; captures cost; the deadline is
  set once; after it the champion is final; only the champion or the vault
  loses the NFT; a throne stays playable unless its champion breaks it; a call
  put together from an outdated read takes the throne or does nothing.
* distributions: paid once, what was proven, from this epoch's root; roots and
  receipts are for good; with an honest oracle nobody whose proof fits goes
  unpaid.
* merkle tree: the Rust builder's proofs are accepted for every listed leaf, the
  TypeScript builder's for exactly the leaves no odd node is above, and nothing
  that is not listed is accepted.
* registry: one oracle, one coin per pet, one NFT per throne, no order of calls
  that leaves a bound pet without a way to its throne.
* grinder: one winner, never replaced, always reported.
* clients: an account list the program accepts has every account in its role;
  what is read is what was written.

`PROJECT.json` lists under `hazards` each place where this could go wrong
unnoticed by a test, with the property that watches it.

## The modules

    ThroneGame <- Throne                                 (ThroneRefinement)
    DistributionPromise <- Distribution <- Payout        (DistributionRefinement)
    MerkleTree -> Merkle (the loops), Payout (the trees)
    Interface  -> Wire
    Registry, Grinder

On the left of `<-` is what the right implements, with the module that maps one
to the other in brackets (`Payout` has the mapping to `Distribution` itself);
`X -> Y` reads "X is used by Y". `MCx.tla` instantiates a module for TLC,
`xProofs.tla` holds its theorems, `xClaims.tla` sentences of the documentation
that fail.

### Throne

`Throne.tla` starts when `mint_kol_nft` has succeeded. `king` is the
`KingOfHill` account (addresses and bumps left out, they are fixed), `token` the
SPL accounts of the NFT's mint (amount, delegate, delegated amount), `coins` the
wallets' balances of the memecoin, `slot` the clock. `TakeThroneResult` and
`SettleThroneResult` return what the caller gets, with the tests in the order
in which the program makes them (account constraints, then the handler, then
the token program); `TakeThrone` and `SettleThrone` are enabled when that is
"Ok" and do everything the handler does. In both a caller may name any token
account of the mint in any role.

Around them: `Meddle`, a wallet that uses the token program directly (transfer,
approve, revoke, burn, as owner or as delegate); `Trade`, the market; `Tick`.
The token operations follow the SPL Token program: a delegate spends its
allowance and is cleared when it is used up, an owner's transfer leaves the
delegate in place, a transfer of an account to itself changes nothing.
`DelegateMayRevoke` is the one open point: the SPL Token program wants the
owner's signature for `Revoke`, `settle_throne` signs with the delegate. With
FALSE, the token program as it is, no throne ever settles: that is what
`Throne_settle_claim` shows, and nothing is claimed about a throne being settled
in the end. `Throne_meddlers` has TRUE, so that what it says of settled thrones
(nothing changes, the champion is final) is about states that are reached, and
the rest of what the handler does on the king account is checked as well; its
other properties do not depend on it, and the proofs hold for both.

`ThroneGame.tla` is the abstract throne, four phases and a bar; 
`ThroneRefinement.tla` maps the program to it and states `ImplementsGame`.
`ThroneClaims.tla` holds statements of the documentation that fail.

### Distribution

`Distribution.tla` starts when `init_config` has succeeded. `distribution[e]`
and `claimed[<<h, e>>]` are the accounts at the addresses derived from the
epoch, and from holder and epoch; `NoAccount` says none is open there.
`fee_vault` is the vault's lamports, `paid` what each holder got from it. A root
is the set of leaves that can be proven under it; `Merkle.tla` says why that is
sound. `CommitResult` and `ClaimResult` list the failures in order, Anchor's
included: an `init` account that exists makes the call fail before the handler
runs. `RentExempt` is the runtime's rule that no account may be left with a
balance above zero and below the rent minimum.

The oracle is arbitrary here: any tree for any epoch, mixed epochs, a holder
listed twice, zero amounts. `Payout` adds what depends on an honest one.

`DistributionPromise.tla` is the abstract payout; `DistributionRefinement.tla`
maps the program to it (`KeepsPromise`).

### Merkle

`MerkleTree.tla` has the hashes and one turn of each loop of the tree code
(`NextLevel`, `PushSibling`, `HashPair`), and whole loops as recursive functions
(`LevelsUp`, `WayUp`, `SiblingsUp`, `RunningHash`, one value per turn) with what
they return (`Levels`, `RootOf`, `ProofFor`, `VerifyMerkleProof`). `Merkle.tla`
runs the loops one turn per step (`BuildLevel`, `StartProof`, `ProofStep`,
`VerifyStep`), which is how the code does it; `Payout.tla` needs the results
only and uses the functions. The lemma `LoopsDone` of `MerkleProofs` shows that
the two forms compute the same tree, proof and answer.

`Builder` chooses between the Rust builder, which promotes an odd node, and the
TypeScript one, which hashes it with itself, as docs/distributions.md:67 has it;
the proof loops and verifiers of the two are the same, so the TypeScript
builder's proofs fit exactly the leaves whose way up has no odd node
(`NeverOdd`). `PresentForeign` and `VerifyForeignStep` present any leaf with any
siblings. keccak256 is ideal: a hash is a term, so different inputs have
different hashes and a 48-byte leaf never hashes like a 64-byte pair; sorting a
pair before hashing makes it a set.

### Registry

`Registry.tla` starts with a freshly deployed program. Accounts at derived
addresses are indexed by what they are derived from: pets by key and name,
launches and kings by pet. The default key (the system program's address)
belongs to the keys that may be named, as owner of a pet, as a coin and as the
oracle, because the code tells new accounts from old ones by it. Everybody may
sign; results are in the program's order. `fits` stands for the length limits
of the metadata and for the address that Metaplex checks.

### Grinder

`Grinder.tla` models `cols grind`: each thread's `pc` walks through the loop
(load the flag, draw, count, lock, claim, publish, unlock), the main thread
spawns, joins in order, takes the winner and writes the file. The flag is
Relaxed, so `GoOn` may read FALSE after the store; the mutex orders everything
else. A thread may panic in `Keypair::new`, where it holds nothing, so the mutex
is never poisoned. The counter wraps at `Width`. `drawn` is an auxiliary
variable, the keys drawn, modulo the same, which the counter is compared with.

### Payout

`Payout.tla` is the distribution from end to end: the service builds a tree from
a `list` and commits the root (`BuildAndCommit`); holders claim with what they
find published (`ClaimPublished`), or put together any siblings from the nodes
of any committed tree, for any amount (`ClaimByHand`). The program checks roots
and proofs here, where `Distribution` has the set of listed leaves; `Abstract`
maps one to the other. `honest`, chosen once, says whether the oracle keeps the
duties of `docs/distributions.md` (`KeepsTheRules`).

Tree and proofs come from the same builder, the Rust one or the TypeScript one:
the run has the second, where proofs may be replaced or refused, the theorems
have both. They differ in two things. The Rust code makes a proof for any
position; the SDK's map has one per holder, so that a holder's last listing
replaces the earlier ones (`Published`). And a proof of the SDK misses a sibling
for every node that was hashed with itself, and is refused: `ProofFits` says
which are not. A holder whose proof is refused could still claim by hand, with
its own hash put in as the missing sibling; `ListedCanClaim` and
`ListedLeadsToPaid` promise it nothing.

Claims have the account list of the program's own interface, as callers
generated from the IDL make them; those of the CLI and of the SDK are refused
before the handler runs, which is the business of `Wire`. The CLI refuses an
empty proof besides, the right one for a tree of one leaf
(cli/src/cmd/claim.rs:75).

### Interface and Wire

`Interface.tla` is tables: the `#[derive(Accounts)]` structs of the seven
instructions (role, type, `mut`, and from which accounts the address follows),
the account lists of `cli/src/cmd`, `sdk/src/instructions` and `idl/cols.json`,
the layouts of the six accounts as `state/*.rs` write them and as
`borsh_codec.rs` and `decoder.ts` read them.

`Wire.tla` runs one task at a time over these tables. A call (`Submit`,
`TakeAccount`, `OpenAccount`, `CheckAccount`): Anchor takes one entry per field
and checks its type, then opens the `init` fields, then checks the constraints.
A read (`Fetch`, `Identify`, `ReadField`, `Finish`): owner, discriminator, one
field after the other, and the CLI's demand that no byte be left. A name
(`PackName`, `UnpackName`).

There is one account per role, standing for its address; the champion is not
the challenger and the throne has been taken before. The arguments of the
instructions and their discriminators agree between the program and both
clients, so a call is its account list. `Mistaken` adds account lists that no
client has: in the run every list one mistake away from the IDL's (two entries
swapped, one left out, one replaced, one without its rights), in the proof any
list at all. The IDL's lists stand for the clients that are
generated from it; no other list of the repository passes the program's account
structs.

## What is checked

| Run | Instance | Shows |
| --- | --- | --- |
| `Throne_meddlers` | 2 wallets that meddle, an account each and the vault, window 2, slots 0..4, balances to 3 | bookkeeping, deadline, final champion, what locks the throne; that it implements the abstract game (756,560 states) |
| `Throne_honest` | 2 wallets that leave their accounts alone, one with two of them, window 2, slots 0..4, balances to 3, `DelegateMayRevoke` FALSE | the NFT stays pullable; a capture put together from an outdated read dethrones whoever holds the NFT or does nothing (4,832 states) |
| `Distribution_any` | 2 holders, 2 epochs, arbitrary oracle, six kinds of tree, rent minimum 2 | paid once what was proven; the promise |
| `Payout` | the TypeScript builder; 3 holders, 2 epochs, nine lists, proofs by hand of up to 2 siblings, vault to 8, rent minimum 2 | it implements `Distribution`; a published proof is accepted exactly if no node on its way was odd; with an honest oracle every open claim is covered and the holders of such proofs are paid, but for rent (20,576 states) |
| `Merkle_rust` | trees of 1 to 9 leaves and two with a repeated leaf; proofs of up to 3 siblings that were not built for the claim; a leaf outside | built proofs are accepted, nothing else is (566,139 states) |
| `Registry_any` | 2 keys and the default key, 2 coins, 2 mints, 3 fees, 3 slots | one coin per pet, one NFT per throne, a bound pet stays mintable |
| `Grinder_race` | 3 threads, 2 matching keys of 3, counter modulo 4 | one winner, never replaced, always reported; complete count; the command ends once there is a winner |
| `Wire` | all lists of IDL, CLI and SDK and all one mistake from the IDL's; all kinds and readers; names of up to 4 letters in a field of 3 | an accepted list has everything in its role; the IDL is accepted; what is read is what was written; names come back (22,437 states) |

Why the bounds are enough. Throne: two wallets give a champion, a challenger
and, with delegations to each other, a third party; `MaxTakeOvers = 2` lets the
counter saturate while captures go on (balances reach 3); `MaxSlot = 4` with any
initial slot reaches the overflow of the deadline, captures on both sides of it
and settlement after it. A wallet with two accounts can capture the throne from
itself, into the account it holds it in or into the other. Distribution, Payout:
two epochs and two holders are what it takes for one claim to eat another's
share; a third leaf makes an odd level, so there are published proofs of no, one
and two siblings, and one that misses a sibling; there are lists that name a
holder twice, a leaf of the wrong epoch and a leaf of zero. Merkle: nine leaves
give odd levels at the bottom, in the middle and in a row. Registry: two coins
and two mints are a retry with something else. Grinder: three threads give two
matches waiting at the lock and one that still draws. Wire: the tables are
complete, `NameLen = 3` has names that are empty, shorter than the field, fill
it and do not fit.

Properties of these modules that say little beyond a guard or follow from a
refinement are proved and not run: `BarRises` and `SettledAfterWindow` (the
game), `VaultPaysOnlyListed`, `OneOracleForever`, `PetStampedOnce`,
`PetNoYoungerThanLaunch`, `OneInside`; and so is `ShortProofsRefused`, which
`Payout` checks as a part of `PublishedProofsAccepted`.

`CHECK_DEADLOCK FALSE` stands where a run really stops: every leaf paid and the
vault full; the proof read; every account opened and the clock at its bound; the
command ended; the task done. The throne never stops, the market goes on.

### Fairness

* `Payout`: weak fairness of `ClaimOwn(h)`: a holder keeps claiming, with the
  published proofs. The oracle and the funding need none. `ListedLeadsToPaid`
  leaves out a holder whose claim the runtime refuses because of the balance it
  would leave (nobody is obliged to top the vault up), and one whose proof
  misses a sibling.
* `Grinder`: weak fairness of every thread and of the main thread (the
  operating system runs them), strong fairness of `Stop`: a Relaxed store
  becomes visible in finite time to a thread that keeps loading, which is what
  the memory model asks of implementations.

### Disagreements with the documentation and tests

Runs that end in a violation state a sentence of the documentation, or of a
test, and show the code does otherwise:

* `Throne_settle_claim`: "any oracle call to `settle_throne` succeeds"
  (docs/throne.md:54). The `Revoke` is signed by the delegate, and the SPL Token
  program wants the owner.
* `Throne_escape_claim`: the NFT "cannot leave the chain of champions"
  (docs/security.md:68). An approval takes nothing from the owner.
* `Merkle_sdk_claim`: the SDK's tree of five leaves gives everybody a valid
  proof (sdk/test/merkle.test.ts:56). The fifth leaf's proof is refused.
* `Wire_order_claim`: the SDK's list for `init_config` is "in order, mirroring
  the on-chain context" (sdk/src/instructions/init_config.ts:26). It has
  `config` where the program wants the admin, and no fee vault.

Others follow from the definitions and have no run of their own.

* Throne: a champion who revoked cannot re-take the throne, as
  docs/throne.md:119 has it, because the pull comes before the new approval
  (`TakeableIffPullable` says so for every challenger, the champion included).
  docs/instructions.md:192-218 and docs/throne.md:135 show `take_throne`
  refusing a settled throne only, and docs/faq.md:57 lets captures go on while
  there is no oracle to settle it; the code refuses from the deadline on,
  settled or not (`InWindow`,
  programs/cols/src/instructions/take_throne.rs:116). The deadline's sum is
  checked and not saturating, as docs/instructions.md:202 has it: close to the
  largest slot the first capture fails.
* Distribution: a second claim is not mapped to `AlreadyClaimed`
  (docs/distributions.md:99) and an epoch without an account not to
  `EpochNotCommitted` (docs/distributions.md:146), see the order of tests in
  `ClaimResult`. `pool_lamports` is not an upper bound that the program uses
  (docs/security.md:62): `ClaimResult` does not read it. An odd node is hashed
  with itself according to docs/distributions.md:67, as the TypeScript builder
  does; the Rust builder promotes it, and only then is every proof accepted.
* Registry: the admin cannot reissue `init_config` (docs/deployment.md:128),
  the account is `init`. `bonded_slot` is not the slot of creation
  (docs/glossary.md:11), see `BoundLaunch`. docs/instructions.md:76-92 shows
  `oracle_bind_pumpfun_launch` writing pet and launch unconditionally; the code
  sets each up only if it is new, refuses another coin for a bound pet and
  otherwise refreshes the slot.
  "Supply of one" is as minted: an owner may burn the NFT later, which `Throne`
  has and `Registry` does not.
* Account lists: none of the fourteen lists of CLI and SDK is accepted by the
  program, those of the IDL all are. The escrow's address has other seeds in the
  program (`king_escrow`), the CLI (`nft_vault`) and the SDK
  (`nft_escrow_vault`), where sdk/src/constants.ts:41 says "mirror the on-chain
  program seeds 1:1".
* Decoding: `try_from_slice` refuses every account, because the CLI's structs
  end where the padding begins (`RefusesOnlyPadding`). `kol_name_to_string` says
  "stripping trailing zeros" (cli/src/borsh_codec.rs:145) and cuts at the first
  one; the two differ only for names with a zero byte inside.
* Outside of the models: of the IDL's fourteen discriminators two are the hash
  prefix that Anchor computes; `slotsToSeconds` is called the inverse of
  `secondsToSlots` (sdk/src/util.ts:46), and both round down; the SDK's error
  codes end before the program's last six. The sizes of the accounts are in
  three places other than in the code: docs/architecture.md:88-95 and
  docs/deployment.md:100-106 have 80, 80, 120, 160, 80 and 80 bytes for
  `Config`, `Pet`, `Launch`, `KingOfHill`, `Distribution` and `HolderClaim`;
  programs/cols/README.md:21-26 has the same but 96 for the first, and says
  without discriminator; `SIZE` is 80, 88, 128, 172, 72 and 72 with it.

## What is proved

The proofs hold for every value of the constants that satisfies the assumptions
named in the modules: any number of wallets, accounts, epochs, leaves, pets and
threads, any window, any width. The assumptions say that special values (nobody,
the PDAs, `NoAccount`, `NoKey`) are different from ordinary ones and that bounds
are naturals; for `Payout` also that keys, epochs and amounts are finitely many,
as machine words are, and that lists are not empty, because `build_tree` makes
no level, and so no root, of an empty one; for the trees that keccak256 is
ideal, which is how hashes are defined there.

* `ThroneProofs.tla` proves every property of `Throne_meddlers` and of
  `Throne_honest`. The invariant `IInv` joins `TypeOK` and four other
  state properties with `AtMostOneNft`: an account with two NFTs would be out of
  type, and it is because there is only one that no other account can send to
  the vault before the first capture. `VaultUntilCapture` needs a positive
  window: a deadline that is set must not be zero. `ThroneTakeableIffPullable`
  follows from the invariant without a step: it unfolds what `take_throne`
  answers. `ThroneImplementsGame` maps each action to a step of the game or a
  stutter; a tick over the deadline is the close.
  `ThroneFollowsTheNft` joins `HonestThroneStaysPullable` with `AtMostOneNft`: the
  NFT is in one account only and that one is pullable, so a call succeeds for
  that account and for no other.
* `DistributionProofs.tla` proves the properties of `Distribution_any` and
  `VaultPaysOnlyListed`; `PaidOnceWhatWasProven` needs no strengthening beyond
  types.
* `MerkleTreeProofs.tla` proves what the tree code computes, as facts about the
  recursive functions. `BuiltProofVerified`: a built proof leads to the root
  with the Rust builder for every leaf of every list, with the TypeScript one
  exactly if no node on the way was odd; the refusal rests on
  `ShortProofRefused`, a proof with fewer siblings than there are levels to
  climb ends below the root. `OnlyListedVerified`: with either builder whatever
  leads to the root of a list is one of its leaves. These are inductions over
  levels and siblings. The library's induction principle takes an operator,
  which the provers cannot instantiate; `InductionSet` says the same of a set of
  naturals ("it holds 0 and is closed under +1"), and follows from the library's
  theorem that `<` is well-founded on `Nat`. Likewise each recursive function is
  unfolded once (`LevelsUpUnfolds` and its like), by showing that it exists.
  `LevelsAreLayered` has the loop's end: levels of more than one node get
  narrower, so the top is reached before the leaves run out.
* `MerkleProofs.tla` proves the properties of `Merkle_rust`, and
  `ShortProofsRefused`, for trees of every size and proofs of every length. The
  invariant says at each turn which value of the functions the loop has
  computed: `Building`, `Climbing`, `Following` for builder, proof maker and
  verifier, and `Outside`: the running hash of a claim that is not listed is on
  no level of the tree. `LoopsDone` is that invariant at the end of the loops:
  tree, proof and answer are what the functions return. From there,
  `MerkleBuiltProofsAccepted` (for `Builder = "rust"`; `Merkle_sdk_claim` is its
  counterexample for the other) and `MerkleShortProofsRefused` are
  `BuiltProofVerified`, and `MerkleOnlyListedAccepted` is `OnlyListedVerified`.
* `PayoutProofs.tla` proves every safety property of `Payout`, with either
  builder. `PayoutImplementsDistribution` is the refinement, with
  `OnlyListedVerified` for the step in which any holder presents any proof: it
  needs no honesty, so what `DistributionProofs` says of sets of leaves holds of
  roots and proofs. `PayoutPublishedProofsAccepted` is `BuiltProofVerified` at
  the positions whose proofs are published. `PayoutListedCanClaim` needs to know
  besides that the vault covers what is unclaimed. The invariant `Honesty` says
  so: with an honest oracle every committed list keeps the rules, and the
  lamports listed and not yet claimed in all committed epochs together are at
  most those in the vault (`Solvent`). A sum over a set is a fold, of which the
  prover knows nothing; `LamportsCounted` shows that it is the cardinality of a
  set with one element per lamport, and that a leaf more or less changes it by
  its amount follows from the library's facts about cardinality.
* `RegistryProofs.tla` proves every property of `Registry_any`, and three more.
  The strengthening: accounts hold the seeds of their own address, a launch
  comes with its pet and a config, stamps are not in the future.
* `GrinderProofs.tla` proves every safety property of `Grinder_race`. The
  invariant: whoever is past the lock holds it, whoever has passed the suffix
  test holds a matching key, the flag is set only with a winner, and a thread
  that is done leaves a winner behind. For `AttemptsComplete` it is joined by
  `BehindByUncounted`: the counter is behind the keys drawn, modulo `Width`, by
  the threads between draw and count; at success all are joined and none is
  there.
* `WireProofs.tla` proves every property of `Wire`: `AcceptedAsMeant` for any
  set of lists, with however many mistakes in them, `NamesComeBack` for every
  width and alphabet, and the other three for the tables as they are. For the
  first, the invariant says that the fields before `pos` have passed the stage
  the call is in and all fields the stages before; the lemma `AllPinned` goes
  through the seven structs and finds for each field what ties it down: its own
  address, a program's id, another field's address computed from it, or its
  being the only signer. `IdlAccepted` goes the other way: `IdlMatches` compares
  the IDL's lists with the structs, and no part of the call then has anything to
  refuse. For `ReadAsWritten` and `RefusesOnlyPadding`, what has been read
  before `pos` is the first fields of the account, at the offsets where the
  program puts them. For the names, a packed name's last byte that is not zero
  is the last byte of the text.

Only model-checked: the two liveness properties (`ListedLeadsToPaid`,
`WinnerLeadsToEnd`; the prover has no fairness and no ENABLED), and the
documentation's sentences that fail. Every other property of a passing run is
stated by a theorem.

## What is not modelled

* Log lines, events, error texts, output formats, argument parsing: the CLI's
  `main.rs`, `output.rs` and `error.rs` hold no state.
* Bumps and derived addresses: an account is known by its seeds, or in `Wire` by
  its role.
* The writers of borsh and the arguments of instructions: opaque in `Wire`.
* Types, events and errors of the IDL; the SDK's error table, hooks and HTTP
  base.
* The cached curve figures in `Launch`: no instruction writes them.
* Metaplex's metadata account: created in the same transaction as the NFT and
  read by nothing.
* The payer's balance: a call that cannot pay for an account fails and changes
  nothing.
* The oracle service, which is described and not in the repository; its duties
  are `KeepsTheRules`, its retries are calls that may be repeated at any time.
* How the CLI's transaction commands and the SDK send, wait, report and retry:
  `Wire` shows that the program accepts none of their account lists, and the CLI
  does not get beyond decoding the king account (cli/src/cmd/take_throne.rs:94,
  cli/src/cmd/settle.rs:70). What an outdated read does to a call is modelled at
  the program (`LateCallsFollowTheNft`, the repeated and changed calls of
  `Registry_any`), for whoever puts the call together.
* Tests and examples: they use the program, they are not part of it.

## Plan

Written so far, in the order of importance: Throne, Distribution, Merkle,
Registry, Grinder; Payout over Distribution and MerkleTree, Interface and Wire.
What could follow:

1. `Protocol`: the registry, several thrones and the distributions together: one
   oracle, one clock, an NFT per pet. The instructions share no account but the
   config, which never changes (`RegistryOneOracle`), so each component's
   properties should carry over by refinement.
2. The payout's own promise as a theorem about `Payout`: `KeepsPromise` through
   both refinements.
3. The clients as processes (read, send, wait, retry), once there are clients
   whose account lists the program accepts and whose decoders read its accounts.
