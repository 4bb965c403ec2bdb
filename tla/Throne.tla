-------------------------------- MODULE Throne --------------------------------
(***************************************************************************)
(* The king-of-the-hill throne of one pet: the `take_throne` and           *)
(* `settle_throne` instructions of programs/cols, the `KingOfHill` account *)
(* they keep, and the SPL token accounts of the 1/1 king NFT they move.    *)
(*                                                                         *)
(* A behaviour starts right after `mint_kol_nft` has succeeded.  Every     *)
(* instruction is one transaction, so one step: it commits all of its      *)
(* changes, or it returns an error and leaves no trace.  What it returns   *)
(* is the operator <Instruction>Result, whose tests stand in the order in  *)
(* which the program makes them; the action is enabled when it is "Ok".    *)
(*                                                                         *)
(* The owners of the NFT's token accounts do not have to go through the    *)
(* program: `Meddlers` are the wallets that also call the SPL token        *)
(* program directly.                                                       *)
(***************************************************************************)
EXTENDS Naturals

CONSTANTS
  Wallets,           \* wallets that hold the memecoin and may challenge
  Meddlers,          \* the wallets that also use the token program directly
  Oracle,            \* config.oracle, the only signer settle_throne accepts
  Nobody,            \* the system program id: "no champion", "no delegate"
  KingPda,           \* address of the KingOfHill account, a program signer
  EscrowPda,         \* owner of the escrow vault, a program signer
  Accounts,          \* the token accounts of the NFT's mint
  Vault,             \* the one among them that is king.nft_escrow_vault
  AccountOwner,      \* who owns each of them
  Window,            \* THRONE_SETTLEMENT_SLOTS
  MaxSlot,           \* the largest slot number, u64::MAX
  MaxCoins,          \* the memecoin's supply: no balance exceeds it
  MaxTakeOvers,      \* u32::MAX, where take_overs saturates
  MaxAllowance,      \* the largest amount an owner delegates
  DelegateMayRevoke  \* whether the token program takes a Revoke signed by
                     \* the delegate; the SPL Token program does not

ASSUME IdentitiesAssumption ==
  /\ Meddlers \subseteq Wallets
  /\ Nobody \notin Wallets \cup {KingPda, EscrowPda}
  /\ KingPda \notin Wallets \cup {EscrowPda}
  /\ EscrowPda \notin Wallets

ASSUME AccountsAssumption ==
  /\ Vault \in Accounts
  /\ AccountOwner \in [Accounts -> Wallets \cup {EscrowPda}]
  /\ \A a \in Accounts : AccountOwner[a] = EscrowPda <=> a = Vault

ASSUME BoundsAssumption ==
  /\ Window \in Nat \ {0}
  /\ MaxSlot \in Nat
  /\ MaxCoins \in Nat
  /\ MaxTakeOvers \in Nat \ {0}
  /\ MaxAllowance \in Nat \ {0}
  /\ DelegateMayRevoke \in BOOLEAN

VARIABLES
  slot,    \* Clock::get()?.slot
  coins,   \* coins[w]: memecoin balance of wallet w
  token,   \* token[a]: the SPL token account a of the NFT's mint
  king     \* the KingOfHill account

vars == <<slot, coins, token, king>>

Delegates == Wallets \cup {KingPda}

TokenAccount ==
  [amount: 0..1, delegate: Delegates \cup {Nobody}, delegated: 0..MaxAllowance]

KingOfHill ==
  [current_champion: Wallets \cup {Nobody},
   champion_balance: 0..MaxCoins,
   last_captured_slot: 0..MaxSlot,
   take_overs: 0..MaxTakeOvers,
   settles_at_slot: 0..MaxSlot,
   settled: BOOLEAN]

-------------------------------------------------------------------------------
(***************************************************************************)
(* The SPL token program, as the instructions and the owners use it.       *)
(***************************************************************************)

\* A delegate spends its allowance, even when it is not the owner's choice any
\* longer that it does; every other authority has to be the owner.
MayTransfer(from, authority) ==
  /\ token[from].amount >= 1
  /\ IF authority = token[from].delegate
       THEN token[from].delegated >= 1
       ELSE authority = AccountOwner[from]

MayRevoke(a, authority) ==
  \/ authority = AccountOwner[a]
  \/ DelegateMayRevoke /\ authority = token[a].delegate

\* An account one unit poorer.  An exhausted allowance clears the delegate; a
\* transfer by the owner leaves the delegate where it is.
Debited(account, authority) ==
  IF authority # account.delegate
    THEN [account EXCEPT !.amount = @ - 1]
    ELSE [amount    |-> account.amount - 1,
          delegate  |-> IF account.delegated = 1 THEN Nobody ELSE account.delegate,
          delegated |-> account.delegated - 1]

\* A transfer of an account to itself is accepted and changes nothing.
Transferred(from, to, authority) ==
  IF from = to
    THEN token
    ELSE [token EXCEPT ![from] = Debited(@, authority), ![to].amount = @ + 1]

Approved(accounts, a, delegate, n) ==
  [accounts EXCEPT ![a] = [@ EXCEPT !.delegate = delegate, !.delegated = n]]

-------------------------------------------------------------------------------
IsUnclaimed == king.current_champion = Nobody /\ king.take_overs = 0

\* Slips, here and below: what a plausible mistake would make of the definition
\* that follows.  The specification does not use them; each breaks a property.
DeadlinePassed_Late == king.settles_at_slot # 0 /\ slot > king.settles_at_slot
DeadlinePassed_Forgotten == FALSE

DeadlinePassed == king.settles_at_slot # 0 /\ slot >= king.settles_at_slot

BeatsChampion_Tie(c) == coins[c] >= king.champion_balance

\* The comparison with zero that follows in the code adds nothing: balances
\* are unsigned.
BeatsChampion(c) == coins[c] > king.champion_balance

DeadlineOverflows_Unchecked == FALSE

\* checked_add(THRONE_SETTLEMENT_SLOTS)
DeadlineOverflows == slot + Window > MaxSlot

SettlesAt_NeverSet == king.settles_at_slot
SettlesAt_EveryCapture == slot + Window

SettlesAt ==
  IF IsUnclaimed THEN slot + Window ELSE king.settles_at_slot

Saturated(n) == IF n > MaxTakeOvers THEN MaxTakeOvers ELSE n

SourceAuthority_AlwaysEscrow == EscrowPda

\* Where the NFT is pulled from and who signs for it.
Source(prev) == IF IsUnclaimed THEN Vault ELSE prev
SourceAuthority == IF IsUnclaimed THEN EscrowPda ELSE KingPda

PrevChampionResult_AnyOwner(prev) ==
  IF prev = Vault \/ token[prev].amount = 0 THEN "MissingPrevChampionAta" ELSE "Ok"

\* What `prev_champion_nft_ata` has to satisfy after the first capture.
PrevChampionResult(prev) ==
  IF prev = Vault THEN "MissingPrevChampionAta"
  ELSE IF AccountOwner[prev] # king.current_champion THEN "AtaOwnerMismatch"
  ELSE IF token[prev].amount = 0 THEN "MissingPrevChampionAta"
  ELSE "Ok"

\* What challenger c gets back when it names `nft` as its own token account and
\* `prev` as the previous champion's.
TakeThroneResult(c, nft, prev) ==
  IF AccountOwner[nft] # c THEN "AtaOwnerMismatch"
  ELSE IF king.settled \/ DeadlinePassed THEN "SettlementPeriodEnded"
  ELSE IF ~BeatsChampion(c) THEN "NotTopHolder"
  ELSE IF ~IsUnclaimed /\ PrevChampionResult(prev) # "Ok"
         THEN PrevChampionResult(prev)
  ELSE IF ~MayTransfer(Source(prev), SourceAuthority) THEN "TokenError"
  ELSE IF IsUnclaimed /\ DeadlineOverflows THEN "SettlementNotReady"
  ELSE "Ok"

Capture(c) ==
  [king EXCEPT !.current_champion = c,
               !.champion_balance = coins[c],
               !.last_captured_slot = slot,
               !.take_overs = Saturated(@ + 1),
               !.settles_at_slot = SettlesAt]

TakeThrone_NoApprove(c, nft, prev) ==
  /\ TakeThroneResult(c, nft, prev) = "Ok"
  /\ token' = Transferred(Source(prev), nft, SourceAuthority)
  /\ king' = Capture(c)
  /\ UNCHANGED <<slot, coins>>

TakeThrone_ApprovesPrevious(c, nft, prev) ==
  /\ TakeThroneResult(c, nft, prev) = "Ok"
  /\ token' = Approved(Transferred(Source(prev), nft, SourceAuthority),
                       Source(prev), KingPda, 1)
  /\ king' = Capture(c)
  /\ UNCHANGED <<slot, coins>>

TakeThrone(c, nft, prev) ==
  /\ TakeThroneResult(c, nft, prev) = "Ok"
  /\ token' = Approved(Transferred(Source(prev), nft, SourceAuthority),
                       nft, KingPda, 1)
  /\ king' = Capture(c)
  /\ UNCHANGED <<slot, coins>>

SettlementReady == king.settles_at_slot # 0 /\ slot >= king.settles_at_slot

\* What `signer` gets back when it names `a` as the final champion's account.
SettleThroneResult(signer, a) ==
  IF signer # Oracle THEN "OracleMismatch"
  ELSE IF AccountOwner[a] # king.current_champion THEN "AtaOwnerMismatch"
  ELSE IF king.settled THEN "AlreadySettled"
  ELSE IF ~SettlementReady THEN "SettlementNotReady"
  ELSE IF ~MayRevoke(a, KingPda) THEN "TokenError"
  ELSE "Ok"

SettleThrone(signer, a) ==
  /\ SettleThroneResult(signer, a) = "Ok"
  /\ token' = Approved(token, a, Nobody, 0)
  /\ king' = [king EXCEPT !.settled = TRUE]
  /\ UNCHANGED <<slot, coins>>

-------------------------------------------------------------------------------
(***************************************************************************)
(* The world around the program.                                           *)
(***************************************************************************)

SplTransfer(w, from, to) ==
  /\ from # to
  /\ MayTransfer(from, w)
  /\ token' = Transferred(from, to, w)
  /\ UNCHANGED <<slot, coins, king>>

SplApprove(w, a, delegate, n) ==
  /\ AccountOwner[a] = w
  /\ token' = Approved(token, a, delegate, n)
  /\ UNCHANGED <<slot, coins, king>>

SplRevoke(w, a) ==
  /\ MayRevoke(a, w)
  /\ token' = Approved(token, a, Nobody, 0)
  /\ UNCHANGED <<slot, coins, king>>

SplBurn(w, a) ==
  /\ MayTransfer(a, w)
  /\ token' = [token EXCEPT ![a] = Debited(@, w)]
  /\ UNCHANGED <<slot, coins, king>>

Meddle(w) ==
  \E a \in Accounts :
    \/ \E to \in Accounts : SplTransfer(w, a, to)
    \/ \E d \in Delegates, n \in 0..MaxAllowance : SplApprove(w, a, d, n)
    \/ SplRevoke(w, a)
    \/ SplBurn(w, a)

\* The market moves a wallet's balance at will.
Trade(w, n) ==
  /\ coins' = [coins EXCEPT ![w] = n]
  /\ UNCHANGED <<slot, token, king>>

Tick ==
  /\ slot < MaxSlot
  /\ slot' = slot + 1
  /\ UNCHANGED <<coins, token, king>>

-------------------------------------------------------------------------------
\* KingOfHill::initialize
FreshKing ==
  [current_champion |-> Nobody, champion_balance |-> 0, last_captured_slot |-> 0,
   take_overs |-> 0, settles_at_slot |-> 0, settled |-> FALSE]

\* mint_kol_nft has put the one NFT into the escrow vault.
Init ==
  /\ slot \in 0..MaxSlot
  /\ coins \in [Wallets -> 0..MaxCoins]
  /\ token = [a \in Accounts |-> [amount    |-> IF a = Vault THEN 1 ELSE 0,
                                  delegate  |-> Nobody,
                                  delegated |-> 0]]
  /\ king = FreshKing

TakeSomeThrone ==
  \E c \in Wallets, nft \in Accounts, prev \in Accounts : TakeThrone(c, nft, prev)

Settle == \E signer \in Wallets \cup {Oracle}, a \in Accounts : SettleThrone(signer, a)

Next ==
  \/ TakeSomeThrone
  \/ Settle
  \/ \E w \in Meddlers : Meddle(w)
  \/ \E w \in Wallets, n \in 0..MaxCoins : Trade(w, n)
  \/ Tick

Spec == Init /\ [][Next]_vars

-------------------------------------------------------------------------------
(***************************************************************************)
(* What the throne promises.                                               *)
(***************************************************************************)

\* Every variable stays within the width of its field.
TypeOK ==
  /\ slot \in 0..MaxSlot
  /\ coins \in [Wallets -> 0..MaxCoins]
  /\ token \in [Accounts -> TokenAccount]
  /\ king \in KingOfHill

\* The king NFT is never in two places: no interleaving of captures with what
\* owners do behind the program's back duplicates it.  (An owner may burn it.)
AtMostOneNft ==
  \A a, b \in Accounts : token[a].amount = 1 /\ token[b].amount = 1 => a = b

\* The three ways the account says "not captured yet" never disagree -- the
\* sentinel champion, the zero counter and the zero deadline, each of which a
\* different test in the code relies on -- and until then nobody but the
\* program can have touched the NFT in the escrow vault.
VaultUntilCapture ==
  /\ (king.current_champion = Nobody) <=> (king.take_overs = 0)
  /\ (king.current_champion = Nobody) <=> (king.settles_at_slot = 0)
  /\ king.current_champion = Nobody =>
       /\ king.champion_balance = 0
       /\ token[Vault].amount = 1
       /\ token[Vault].delegate = Nobody

\* Every capture costs the challenger at least one more unit of the coin, so the
\* throne cannot change hands more often than the recorded balance allows.
TakeOversBounded == king.take_overs <= king.champion_balance

\* A recorded capture lies inside the one settlement window that the first
\* capture opened, and not in the future.
CaptureInsideWindow ==
  king.current_champion # Nobody =>
    /\ king.last_captured_slot <= slot
    /\ king.last_captured_slot < king.settles_at_slot
    /\ king.settles_at_slot <= king.last_captured_slot + Window

\* settle_throne cannot close a throne nobody took, nor close it early.
SettledAfterWindow ==
  king.settled => king.current_champion # Nobody /\ slot >= king.settles_at_slot

\* The settlement window is open, said without the program's own test for it.
InWindow == slot < king.settles_at_slot /\ ~king.settled

\* The account `a` lets the king PDA pull the NFT away from the champion.
Pullable(a) ==
  /\ AccountOwner[a] = king.current_champion
  /\ token[a].amount = 1
  /\ token[a].delegate = KingPda
  /\ token[a].delegated >= 1

CanTake(c) ==
  \E nft \in Accounts, prev \in Accounts : TakeThroneResult(c, nft, prev) = "Ok"

\* Inside the window a richer challenger with a token account of its own can
\* take a claimed throne exactly while some account of the champion's holds the
\* NFT and still delegates it to the king PDA.  Left to right: the champion who
\* revokes, moves or burns the NFT has locked the throne for everybody, itself
\* included.  Right to left: nothing else can lock it.
TakeableIffPullable ==
  king.current_champion # Nobody /\ InWindow =>
    \A c \in Wallets :
      (BeatsChampion(c) /\ \E a \in Accounts : AccountOwner[a] = c) =>
        (CanTake(c) <=> \E a \in Accounts : Pullable(a))

\* When owners leave their token accounts alone, the program alone keeps the
\* NFT with the champion and pullable until the throne settles.
HonestThroneStaysPullable ==
  Meddlers = {} =>
    (king.current_champion # Nobody /\ ~king.settled =>
       \E a \in Accounts : Pullable(a))

\* ... and then a call to take_throne is answered by the rules and by where the NFT
\* is now.  A challenger names the previous champion's account from what it read,
\* which others may have outdated before its transaction lands: one that names the
\* account of a dethroned champion does nothing, one that names the account the NFT
\* is in dethrones whoever holds it, and no state of token accounts, captures into
\* a second account of the same owner included, refuses it for another reason.
LateCallsFollowTheNft ==
  Meddlers = {} =>
    \A c \in Wallets, nft \in Accounts, prev \in Accounts :
      AccountOwner[nft] = c =>
        (TakeThroneResult(c, nft, prev) = "Ok" <=>
           /\ coins[c] > king.champion_balance
           /\ IF king.current_champion = Nobody
                THEN slot + Window <= MaxSlot
                ELSE InWindow /\ token[prev].amount = 1)

\* A step in which take_throne records a capture.
Captured ==
  \/ king'.take_overs # king.take_overs
  \/ king'.current_champion # king.current_champion

\* The bar only rises, and a capture raises it strictly, whatever the champion
\* has sold since: it is the recorded balance that has to be beaten.
BarRises ==
  [][ /\ king'.champion_balance >= king.champion_balance
      /\ Captured => king'.champion_balance > king.champion_balance ]_king

\* The deadline is set by the first capture and no later one extends it.
DeadlineNeverMoves ==
  [][ king.settles_at_slot # 0 => king'.settles_at_slot = king.settles_at_slot ]_king

\* Nobody becomes champion at or after the deadline, or once settled; the
\* settled account never changes again.
ChampionFinalAtDeadline ==
  [][ /\ king.current_champion # Nobody /\ ~InWindow =>
           king'.current_champion = king.current_champion
      /\ king.settled => king' = king ]_king

\* A capture takes the NFT from the vault or from the recorded champion and from
\* nobody else, and leaves it with the new champion, delegated to the king PDA.
CaptureMovesNft ==
  [][ Captured =>
        /\ \A a \in Accounts : token'[a].amount < token[a].amount =>
             AccountOwner[a] = IF IsUnclaimed THEN EscrowPda ELSE king.current_champion
        /\ \E a \in Accounts : Pullable(a)' ]_vars
===============================================================================
