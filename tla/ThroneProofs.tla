----------------------------- MODULE ThroneProofs -----------------------------
(***************************************************************************)
(* Proofs about the throne, for every set of wallets and accounts, every   *)
(* window, slot width and coin supply, both revoke rules of the token      *)
(* program, and any set of meddling owners.                                *)
(***************************************************************************)
EXTENDS ThroneRefinement, TLAPS

\* The inductive invariant.  That the NFT is in one place at most is what keeps
\* the vault full until the first capture: no other account can send to it.
IInv ==
  /\ TypeOK
  /\ AtMostOneNft
  /\ VaultUntilCapture
  /\ TakeOversBounded
  /\ CaptureInsideWindow
  /\ SettledAfterWindow

-------------------------------------------------------------------------------
(***************************************************************************)
(* What the token program does to the accounts.                            *)
(***************************************************************************)

\* A debit keeps an account well typed and takes one unit from it.
LEMMA DebitedType ==
  ASSUME NEW account \in TokenAccount, NEW authority,
         account.amount >= 1,
         authority = account.delegate => account.delegated >= 1
  PROVE  /\ Debited(account, authority) \in TokenAccount
         /\ Debited(account, authority).amount = 0
<1> USE BoundsAssumption DEF TokenAccount
<1>1. CASE authority # account.delegate
  BY <1>1 DEF Debited
<1>2. CASE authority = account.delegate
  BY <1>2 DEF Debited
<1>3. QED
  BY <1>1, <1>2

\* A permitted transfer to another account leaves the source empty and the target
\* with the NFT, touches no third account and keeps the delegation of the target.
LEMMA TransferMoves ==
  ASSUME TypeOK, AtMostOneNft,
         NEW from \in Accounts, NEW to \in Accounts, NEW authority,
         MayTransfer(from, authority), from # to
  PROVE  /\ Transferred(from, to, authority) \in [Accounts -> TokenAccount]
         /\ Transferred(from, to, authority)[from].amount = 0
         /\ Transferred(from, to, authority)[to] = [token[to] EXCEPT !.amount = 1]
         /\ \A a \in Accounts \ {from, to} :
              Transferred(from, to, authority)[a] = token[a] /\ token[a].amount = 0
<1> DEFINE d == Debited(token[from], authority)
<1>1. token[from] \in TokenAccount /\ token[to] \in TokenAccount
  BY DEF TypeOK
<1>2. token[from].amount = 1
  BY <1>1 DEF MayTransfer, TokenAccount
<1>3. d \in TokenAccount /\ d.amount = 0
  <2>1. token[from].amount >= 1
    BY DEF MayTransfer
  <2>2. authority = token[from].delegate => token[from].delegated >= 1
    BY DEF MayTransfer
  <2>3. QED
    BY <1>1, <2>1, <2>2, DebitedType
<1>4. \A a \in Accounts \ {from} : token[a].amount = 0
  BY <1>2 DEF AtMostOneNft, TypeOK, TokenAccount
<1>5. token[to].amount + 1 = 1
  BY <1>4
<1>6. [token[to] EXCEPT !.amount = 1] \in TokenAccount
  BY <1>1 DEF TokenAccount
<1>7. Transferred(from, to, authority) =
        [token EXCEPT ![from] = d, ![to] = [token[to] EXCEPT !.amount = 1]]
  BY <1>5 DEF Transferred, TypeOK
<1> HIDE DEF d
<1>8. QED
  BY <1>3, <1>4, <1>6, <1>7 DEF TypeOK

\* An approval changes the delegation of one account and no amount.
LEMMA ApproveKeepsAmounts ==
  ASSUME NEW t \in [Accounts -> TokenAccount], NEW a \in Accounts,
         NEW d \in Delegates \cup {Nobody}, NEW n \in 0..MaxAllowance
  PROVE  /\ Approved(t, a, d, n) \in [Accounts -> TokenAccount]
         /\ \A b \in Accounts : Approved(t, a, d, n)[b].amount = t[b].amount
         /\ \A b \in Accounts \ {a} : Approved(t, a, d, n)[b] = t[b]
         /\ Approved(t, a, d, n)[a].delegate = d
         /\ Approved(t, a, d, n)[a].delegated = n
<1> DEFINE approved == [t[a] EXCEPT !.delegate = d, !.delegated = n]
<1>1. t[a] \in TokenAccount
  OBVIOUS
<1>2. /\ approved \in TokenAccount
      /\ approved.amount = t[a].amount
      /\ approved.delegate = d
      /\ approved.delegated = n
  BY <1>1 DEF TokenAccount
<1>3. Approved(t, a, d, n) = [t EXCEPT ![a] = approved]
  BY DEF Approved
<1> HIDE DEF approved
<1>4. QED
  BY <1>2, <1>3

-------------------------------------------------------------------------------
(***************************************************************************)
(* The invariant holds initially and every step keeps it.                  *)
(***************************************************************************)

\* A throne as mint_kol_nft leaves it satisfies the invariant.
LEMMA InitEstablishes == Init => IInv
<1> SUFFICES ASSUME Init PROVE IInv
  OBVIOUS
<1> USE IdentitiesAssumption, AccountsAssumption, BoundsAssumption DEF Init, FreshKing
<1>1. TypeOK
  BY DEF TypeOK, TokenAccount, KingOfHill
<1>2. AtMostOneNft
  BY DEF AtMostOneNft
<1>3. VaultUntilCapture
  BY DEF VaultUntilCapture
<1>4. TakeOversBounded /\ CaptureInsideWindow /\ SettledAfterWindow
  BY DEF TakeOversBounded, CaptureInsideWindow, SettledAfterWindow
<1>5. QED
  BY <1>1, <1>2, <1>3, <1>4 DEF IInv

\* What a successful take_throne has checked.
LEMMA TakeThroneGuards ==
  ASSUME NEW c \in Wallets, NEW nft \in Accounts, NEW prev \in Accounts,
         TakeThroneResult(c, nft, prev) = "Ok"
  PROVE  /\ AccountOwner[nft] = c
         /\ ~king.settled
         /\ ~DeadlinePassed
         /\ BeatsChampion(c)
         /\ ~IsUnclaimed => /\ prev # Vault
                            /\ AccountOwner[prev] = king.current_champion
                            /\ token[prev].amount # 0
         /\ MayTransfer(Source(prev), SourceAuthority)
         /\ IsUnclaimed => ~DeadlineOverflows
<1>1. /\ AccountOwner[nft] = c /\ ~king.settled /\ ~DeadlinePassed /\ BeatsChampion(c)
      /\ ~(~IsUnclaimed /\ PrevChampionResult(prev) # "Ok")
      /\ MayTransfer(Source(prev), SourceAuthority)
      /\ IsUnclaimed => ~DeadlineOverflows
  BY Zenon DEF TakeThroneResult
<1>2. PrevChampionResult(prev) = "Ok" =>
        /\ prev # Vault
        /\ AccountOwner[prev] = king.current_champion
        /\ token[prev].amount # 0
  BY DEF PrevChampionResult
<1>3. QED
  BY <1>1, <1>2

\* A capture leaves the NFT with the challenger's account and delegated to the
\* king PDA, and empties every other account.
LEMMA CaptureDelivers ==
  ASSUME IInv, NEW c \in Wallets, NEW nft \in Accounts, NEW prev \in Accounts,
         TakeThrone(c, nft, prev)
  PROVE  /\ token' \in [Accounts -> TokenAccount]
         /\ AccountOwner[nft] = c
         /\ token'[nft].amount = 1
         /\ token'[nft].delegate = KingPda
         /\ token'[nft].delegated = 1
         /\ \A a \in Accounts \ {nft} : token'[a].amount = 0
<1> DEFINE moved == Transferred(Source(prev), nft, SourceAuthority)
<1> USE AccountsAssumption
<1>1. /\ AccountOwner[nft] = c
      /\ MayTransfer(Source(prev), SourceAuthority)
      /\ token' = Approved(moved, nft, KingPda, 1)
  BY TakeThroneGuards DEF TakeThrone
<1>2. Source(prev) \in Accounts
  BY DEF Source
<1>3. /\ moved \in [Accounts -> TokenAccount]
      /\ moved[nft].amount = 1
      /\ \A a \in Accounts \ {nft} : moved[a].amount = 0
  <2>1. CASE Source(prev) = nft
    <3>1. moved = token
      BY <2>1 DEF Transferred
    <3>2. token[nft].amount = 1
      BY <1>1, <2>1 DEF MayTransfer, IInv, TypeOK, TokenAccount
    <3>3. QED
      BY <3>1, <3>2 DEF IInv, TypeOK, TokenAccount, AtMostOneNft
  <2>2. CASE Source(prev) # nft
    <3>1. TypeOK /\ AtMostOneNft
      BY DEF IInv
    <3>2. /\ moved \in [Accounts -> TokenAccount]
          /\ moved[Source(prev)].amount = 0
          /\ moved[nft] = [token[nft] EXCEPT !.amount = 1]
          /\ \A a \in Accounts \ {Source(prev), nft} :
               moved[a] = token[a] /\ token[a].amount = 0
      BY <1>1, <1>2, <2>2, <3>1, TransferMoves
    <3>3. token[nft] \in TokenAccount
      BY <3>1 DEF TypeOK
    <3>4. moved[nft].amount = 1
      BY <3>2, <3>3 DEF TokenAccount
    <3>5. QED
      BY <3>2, <3>4
  <2>3. QED
    BY <2>1, <2>2
<1>4. KingPda \in Delegates \cup {Nobody} /\ 1 \in 0..MaxAllowance
  BY BoundsAssumption DEF Delegates
<1> HIDE DEF moved
<1>5. QED
  BY <1>1, <1>3, <1>4, ApproveKeepsAmounts

\* What a capture writes into the KingOfHill account.
LEMMA CaptureRecords ==
  ASSUME IInv, NEW c \in Wallets, NEW nft \in Accounts, NEW prev \in Accounts,
         TakeThrone(c, nft, prev)
  PROVE  /\ slot' = slot /\ coins' = coins
         /\ slot \in 0..MaxSlot
         /\ king.champion_balance \in 0..MaxCoins
         /\ coins[c] \in 1..MaxCoins
         /\ coins[c] > king.champion_balance
         /\ ~king.settled
         /\ IsUnclaimed <=> king.current_champion = Nobody
         /\ ~IsUnclaimed => slot < king.settles_at_slot
         /\ SettlesAt \in 1..MaxSlot
         /\ slot < SettlesAt
         /\ SettlesAt <= slot + Window
         /\ king' \in KingOfHill
         /\ king'.current_champion = c
         /\ king'.champion_balance = coins[c]
         /\ king'.last_captured_slot = slot
         /\ king'.take_overs \in 1..MaxTakeOvers
         /\ king'.take_overs <= coins[c]
         /\ king'.settles_at_slot = SettlesAt
         /\ king'.settled = king.settled
<1> USE IdentitiesAssumption, BoundsAssumption
<1>1. /\ BeatsChampion(c) /\ ~DeadlinePassed
      /\ IsUnclaimed => ~DeadlineOverflows
      /\ ~king.settled
      /\ king' = Capture(c) /\ slot' = slot /\ coins' = coins
  BY TakeThroneGuards DEF TakeThrone
<1>2. TypeOK /\ VaultUntilCapture /\ TakeOversBounded /\ CaptureInsideWindow
  BY DEF IInv
<1>3. IsUnclaimed <=> king.current_champion = Nobody
  BY <1>2 DEF IsUnclaimed, VaultUntilCapture
<1>4. /\ king \in KingOfHill /\ slot \in 0..MaxSlot /\ coins[c] \in 0..MaxCoins
      /\ coins[c] > king.champion_balance
  BY <1>1, <1>2 DEF TypeOK, BeatsChampion
<1>5. ~IsUnclaimed => slot < king.settles_at_slot
  BY <1>1, <1>2, <1>3, <1>4 DEF DeadlinePassed, VaultUntilCapture, KingOfHill
<1>6. /\ SettlesAt \in 1..MaxSlot
      /\ slot < SettlesAt
      /\ SettlesAt <= slot + Window
  <2>1. CASE IsUnclaimed
    BY <1>1, <1>4, <2>1 DEF SettlesAt, DeadlineOverflows
  <2>2. CASE ~IsUnclaimed
    BY <1>2, <1>3, <1>4, <1>5, <2>2 DEF SettlesAt, CaptureInsideWindow, KingOfHill
  <2>3. QED
    BY <2>1, <2>2
<1>7. Saturated(king.take_overs + 1) \in 1..MaxTakeOvers
  BY <1>4 DEF Saturated, KingOfHill
<1>8. Saturated(king.take_overs + 1) <= coins[c]
  BY <1>2, <1>4 DEF Saturated, TakeOversBounded, KingOfHill
<1>9. king' = [current_champion   |-> c,
               champion_balance   |-> coins[c],
               last_captured_slot |-> slot,
               take_overs         |-> Saturated(king.take_overs + 1),
               settles_at_slot    |-> SettlesAt,
               settled            |-> king.settled]
  BY <1>1, <1>4 DEF Capture, KingOfHill
<1>10. /\ king' \in KingOfHill
      /\ king'.current_champion = c
      /\ king'.champion_balance = coins[c]
      /\ king'.last_captured_slot = slot
      /\ king'.take_overs = Saturated(king.take_overs + 1)
      /\ king'.settles_at_slot = SettlesAt
      /\ king'.settled = king.settled
  BY <1>1, <1>4, <1>6, <1>7, <1>9 DEF KingOfHill
<1>11. king.champion_balance \in 0..MaxCoins
  BY <1>4 DEF KingOfHill
<1>12. QED
  BY <1>1, <1>3, <1>4, <1>5, <1>6, <1>7, <1>8, <1>10, <1>11

\* A capture keeps the invariant: the NFT moves in one piece and the deadline is set
\* with the first.
LEMMA TakeThroneKeeps ==
  ASSUME IInv, NEW c \in Wallets, NEW nft \in Accounts, NEW prev \in Accounts,
         TakeThrone(c, nft, prev)
  PROVE  IInv'
<1> USE IdentitiesAssumption
<1>1. TypeOK'
  BY CaptureRecords, CaptureDelivers DEF IInv, TypeOK
<1>2. AtMostOneNft'
  BY CaptureDelivers DEF AtMostOneNft
<1>3. VaultUntilCapture'
  BY CaptureRecords DEF VaultUntilCapture
<1>4. TakeOversBounded'
  BY CaptureRecords DEF TakeOversBounded
<1>5. CaptureInsideWindow'
  BY CaptureRecords DEF CaptureInsideWindow
<1>6. SettledAfterWindow'
  BY CaptureRecords DEF SettledAfterWindow
<1>7. QED
  BY <1>1, <1>2, <1>3, <1>4, <1>5, <1>6 DEF IInv

\* A step that leaves the KingOfHill account, the clock and the coins alone keeps
\* the invariant when it keeps the NFT in one place and, while the throne is
\* unclaimed, does not touch the vault.
LEMMA TokenStepKeeps ==
  ASSUME IInv, UNCHANGED <<slot, coins, king>>,
         token' \in [Accounts -> TokenAccount],
         AtMostOneNft',
         king.current_champion = Nobody =>
           token'[Vault].amount = 1 /\ token'[Vault].delegate = Nobody
  PROVE  IInv'
<1>1. TypeOK'
  BY DEF IInv, TypeOK
<1>2. VaultUntilCapture'
  BY DEF IInv, VaultUntilCapture
<1>3. TakeOversBounded' /\ CaptureInsideWindow' /\ SettledAfterWindow'
  BY DEF IInv, TakeOversBounded, CaptureInsideWindow, SettledAfterWindow
<1>4. QED
  BY <1>1, <1>2, <1>3 DEF IInv

\* An approval the vault's owner did not give leaves the vault alone.
LEMMA ApproveKeeps ==
  ASSUME IInv, UNCHANGED <<slot, coins, king>>,
         NEW a \in Accounts, NEW d \in Delegates \cup {Nobody}, NEW n \in 0..MaxAllowance,
         token' = Approved(token, a, d, n),
         king.current_champion = Nobody => a # Vault
  PROVE  IInv'
<1>1. token \in [Accounts -> TokenAccount]
  BY DEF IInv, TypeOK
<1>2. /\ token' \in [Accounts -> TokenAccount]
      /\ \A b \in Accounts : token'[b].amount = token[b].amount
      /\ \A b \in Accounts \ {a} : token'[b] = token[b]
  BY <1>1, ApproveKeepsAmounts
<1>3. AtMostOneNft'
  BY <1>2 DEF IInv, AtMostOneNft
<1>4. king.current_champion = Nobody =>
        token'[Vault].amount = 1 /\ token'[Vault].delegate = Nobody
  BY <1>2, AccountsAssumption DEF IInv, VaultUntilCapture
<1>5. QED
  BY <1>2, <1>3, <1>4, TokenStepKeeps

\* A settlement keeps the invariant: it closes a throne whose window is over and
\* moves no token.
LEMMA SettleThroneKeeps ==
  ASSUME IInv, NEW signer, NEW a \in Accounts, SettleThrone(signer, a)
  PROVE  IInv'
<1>1. SettlementReady
  BY Zenon DEF SettleThrone, SettleThroneResult
<1>2. king.current_champion # Nobody /\ slot >= king.settles_at_slot
  BY <1>1 DEF SettlementReady, IInv, VaultUntilCapture
<1>3. /\ king' = [king EXCEPT !.settled = TRUE] /\ slot' = slot /\ coins' = coins
      /\ token' = Approved(token, a, Nobody, 0)
  BY DEF SettleThrone
<1>4. king \in KingOfHill /\ token \in [Accounts -> TokenAccount]
  BY DEF IInv, TypeOK
<1>5. /\ king' \in KingOfHill
      /\ king'.current_champion = king.current_champion
      /\ king'.champion_balance = king.champion_balance
      /\ king'.last_captured_slot = king.last_captured_slot
      /\ king'.take_overs = king.take_overs
      /\ king'.settles_at_slot = king.settles_at_slot
  BY <1>3, <1>4 DEF KingOfHill
<1>6. /\ token' \in [Accounts -> TokenAccount]
      /\ \A b \in Accounts : token'[b].amount = token[b].amount
  <2>1. Nobody \in Delegates \cup {Nobody} /\ 0 \in 0..MaxAllowance
    BY BoundsAssumption
  <2>2. /\ Approved(token, a, Nobody, 0) \in [Accounts -> TokenAccount]
        /\ \A b \in Accounts : Approved(token, a, Nobody, 0)[b].amount = token[b].amount
    <3>1. \A d \in Delegates \cup {Nobody}, n \in 0..MaxAllowance :
            /\ Approved(token, a, d, n) \in [Accounts -> TokenAccount]
            /\ \A b \in Accounts : Approved(token, a, d, n)[b].amount = token[b].amount
      BY <1>4, ApproveKeepsAmounts
    <3>2. QED
      BY <2>1, <3>1
  <2>3. QED
    BY <1>3, <2>2
<1>7. TypeOK'
  BY <1>3, <1>5, <1>6 DEF IInv, TypeOK
<1>8. AtMostOneNft'
  BY <1>6 DEF IInv, AtMostOneNft
<1>9. VaultUntilCapture'
  BY <1>2, <1>5 DEF IInv, VaultUntilCapture
<1>10. TakeOversBounded' /\ CaptureInsideWindow' /\ SettledAfterWindow'
  BY <1>2, <1>3, <1>5
     DEF IInv, TakeOversBounded, CaptureInsideWindow, SettledAfterWindow
<1>11. QED
  BY <1>7, <1>8, <1>9, <1>10 DEF IInv

\* While the throne is unclaimed no wallet may do anything to the vault.
LEMMA VaultOutOfReach ==
  ASSUME IInv, NEW w \in Wallets, king.current_champion = Nobody
  PROVE  ~MayTransfer(Vault, w) /\ ~MayRevoke(Vault, w) /\ AccountOwner[Vault] # w
<1>1. token[Vault].delegate = Nobody
  BY DEF IInv, VaultUntilCapture
<1>2. w # Nobody /\ AccountOwner[Vault] = EscrowPda /\ EscrowPda # w
  BY IdentitiesAssumption, AccountsAssumption
<1>3. QED
  BY <1>1, <1>2 DEF MayTransfer, MayRevoke

\* What token owners do to their accounts behind the program's back keeps the
\* invariant.
LEMMA MeddleKeeps ==
  ASSUME IInv, NEW w \in Wallets, Meddle(w)
  PROVE  IInv'
<1> USE AccountsAssumption
<1>1. PICK a \in Accounts :
        \/ \E to \in Accounts : SplTransfer(w, a, to)
        \/ \E d \in Delegates, n \in 0..MaxAllowance : SplApprove(w, a, d, n)
        \/ SplRevoke(w, a)
        \/ SplBurn(w, a)
  BY DEF Meddle
<1>2. TypeOK /\ AtMostOneNft /\ token \in [Accounts -> TokenAccount]
  BY DEF IInv, TypeOK
<1>3. ASSUME NEW to \in Accounts, SplTransfer(w, a, to)
      PROVE  IInv'
  <2>1. /\ a # to /\ MayTransfer(a, w) /\ token' = Transferred(a, to, w)
        /\ UNCHANGED <<slot, coins, king>>
    BY <1>3 DEF SplTransfer
  <2>2. /\ token' \in [Accounts -> TokenAccount]
        /\ token'[a].amount = 0
        /\ \A b \in Accounts \ {a, to} : token'[b] = token[b] /\ token'[b].amount = 0
    <3>1. /\ Transferred(a, to, w) \in [Accounts -> TokenAccount]
          /\ Transferred(a, to, w)[a].amount = 0
          /\ \A b \in Accounts \ {a, to} :
               Transferred(a, to, w)[b] = token[b] /\ token[b].amount = 0
      <4>1. /\ Transferred(a, to, w) \in [Accounts -> TokenAccount]
            /\ Transferred(a, to, w)[a].amount = 0
            /\ Transferred(a, to, w)[to] = [token[to] EXCEPT !.amount = 1]
            /\ \A b \in Accounts \ {a, to} :
                 Transferred(a, to, w)[b] = token[b] /\ token[b].amount = 0
        BY <1>2, <2>1, TransferMoves
      <4>2. QED
        BY <4>1
    <3>2. QED
      BY <2>1, <3>1
  <2>3. AtMostOneNft'
    BY <2>2 DEF AtMostOneNft
  <2>4. ~(king.current_champion = Nobody)
    <3>1. SUFFICES ASSUME king.current_champion = Nobody PROVE FALSE
      OBVIOUS
    <3>2. a # Vault
      BY <2>1, <3>1, VaultOutOfReach
    <3>3. token[a].amount = 1 /\ token[Vault].amount = 1
      BY <1>2, <2>1, <3>1 DEF MayTransfer, TokenAccount, IInv, VaultUntilCapture
    <3>4. QED
      BY <3>2, <3>3 DEF IInv, AtMostOneNft
  <2>5. QED
    BY <2>1, <2>2, <2>3, <2>4, TokenStepKeeps
<1>4. ASSUME NEW d \in Delegates, NEW n \in 0..MaxAllowance, SplApprove(w, a, d, n)
      PROVE  IInv'
  BY <1>4, VaultOutOfReach, ApproveKeeps DEF SplApprove
<1>5. CASE SplRevoke(w, a)
  <2>1. 0 \in 0..MaxAllowance
    BY BoundsAssumption
  <2>2. QED
    BY <1>5, <2>1, VaultOutOfReach, ApproveKeeps DEF SplRevoke
<1>6. CASE SplBurn(w, a)
  <2>1. /\ MayTransfer(a, w) /\ token' = [token EXCEPT ![a] = Debited(token[a], w)]
        /\ UNCHANGED <<slot, coins, king>>
    BY <1>6 DEF SplBurn
  <2>2. Debited(token[a], w) \in TokenAccount /\ Debited(token[a], w).amount = 0
    <3>1. /\ token[a] \in TokenAccount /\ token[a].amount >= 1
          /\ w = token[a].delegate => token[a].delegated >= 1
      BY <1>2, <2>1 DEF MayTransfer
    <3>2. QED
      BY <3>1, DebitedType
  <2>3. /\ token' \in [Accounts -> TokenAccount]
        /\ token'[a].amount = 0
        /\ \A b \in Accounts \ {a} : token'[b] = token[b]
    BY <1>2, <2>1, <2>2
  <2>4. AtMostOneNft'
    BY <2>3 DEF IInv, AtMostOneNft
  <2>5. king.current_champion = Nobody => a # Vault
    BY <2>1, VaultOutOfReach
  <2>6. king.current_champion = Nobody =>
          token'[Vault].amount = 1 /\ token'[Vault].delegate = Nobody
    BY <2>3, <2>5 DEF IInv, VaultUntilCapture
  <2>7. QED
    BY <2>1, <2>3, <2>4, <2>6, TokenStepKeeps
<1>7. QED
  BY <1>1, <1>3, <1>4, <1>5, <1>6

\* Memecoin trades do not touch what the invariant speaks of.
LEMMA TradeKeeps ==
  ASSUME IInv, NEW w \in Wallets, NEW n \in 0..MaxCoins, Trade(w, n)
  PROVE  IInv'
<1>1. coins' \in [Wallets -> 0..MaxCoins] /\ UNCHANGED <<slot, token, king>>
  BY DEF Trade, IInv, TypeOK
<1>2. QED
  BY <1>1 DEF IInv, TypeOK, AtMostOneNft, VaultUntilCapture, TakeOversBounded,
              CaptureInsideWindow, SettledAfterWindow

\* Time only runs, and a window that is over stays over.
LEMMA TickKeeps ==
  ASSUME IInv, Tick
  PROVE  IInv'
<1>1. slot' = slot + 1 /\ slot' \in 0..MaxSlot /\ UNCHANGED <<coins, token, king>>
  BY BoundsAssumption DEF Tick, IInv, TypeOK
<1>2. slot \in Nat /\ king.last_captured_slot \in Nat /\ king.settles_at_slot \in Nat
  BY BoundsAssumption DEF IInv, TypeOK, KingOfHill
<1>3. TypeOK' /\ AtMostOneNft' /\ VaultUntilCapture' /\ TakeOversBounded'
  BY <1>1 DEF IInv, TypeOK, AtMostOneNft, VaultUntilCapture, TakeOversBounded
<1>4. CaptureInsideWindow' /\ SettledAfterWindow'
  BY <1>1, <1>2 DEF IInv, CaptureInsideWindow, SettledAfterWindow
<1>5. QED
  BY <1>3, <1>4 DEF IInv

\* Every step keeps the invariant.
LEMMA NextKeeps == IInv /\ [Next]_vars => IInv'
<1> SUFFICES ASSUME IInv, [Next]_vars PROVE IInv'
  OBVIOUS
<1>1. CASE TakeSomeThrone
  BY <1>1, TakeThroneKeeps DEF TakeSomeThrone
<1>2. CASE Settle
  BY <1>2, SettleThroneKeeps DEF Settle
<1>3. ASSUME NEW w \in Meddlers, Meddle(w) PROVE IInv'
  BY <1>3, MeddleKeeps, IdentitiesAssumption
<1>4. ASSUME NEW w \in Wallets, NEW n \in 0..MaxCoins, Trade(w, n) PROVE IInv'
  BY <1>4, TradeKeeps
<1>5. CASE Tick
  BY <1>5, TickKeeps
<1>6. CASE UNCHANGED vars
  BY <1>6 DEF vars, IInv, TypeOK, AtMostOneNft, VaultUntilCapture, TakeOversBounded,
              CaptureInsideWindow, SettledAfterWindow
<1>7. QED
  BY <1>1, <1>2, <1>3, <1>4, <1>5, <1>6 DEF Next

\* The inductive invariant holds of every reachable throne.
THEOREM ThroneInvariance == Spec => []IInv
BY InitEstablishes, NextKeeps, PTL DEF Spec

\* Field widths: no u64 or u32 of the throne ever wraps.
THEOREM ThroneTypeCorrect == Spec => []TypeOK
BY ThroneInvariance, PTL DEF IInv

\* The NFT stays in the vault until the first capture.
THEOREM ThroneVaultUntilCapture == Spec => []VaultUntilCapture
BY ThroneInvariance, PTL DEF IInv

\* Captures never outnumber the units of the recorded balance: each raised it.
THEOREM ThroneTakeOversBounded == Spec => []TakeOversBounded
BY ThroneInvariance, PTL DEF IInv

\* The last capture lies before the deadline that the first one set.
THEOREM ThroneCaptureInsideWindow == Spec => []CaptureInsideWindow
BY ThroneInvariance, PTL DEF IInv

\* A throne is settled only after its deadline.
THEOREM ThroneSettledAfterWindow == Spec => []SettledAfterWindow
BY ThroneInvariance, PTL DEF IInv

\* Only the two instructions write the KingOfHill account.
LEMMA KingWrites ==
  ASSUME [Next]_vars
  PROVE  \/ king' = king
         \/ \E c \in Wallets, nft \in Accounts, prev \in Accounts : TakeThrone(c, nft, prev)
         \/ \E signer \in Wallets \cup {Oracle}, a \in Accounts : SettleThrone(signer, a)
BY DEF Next, vars, TakeSomeThrone, Settle, Meddle, SplTransfer, SplApprove,
       SplRevoke, SplBurn, Trade, Tick

\* What settle_throne has checked and what it writes.
LEMMA SettleRecords ==
  ASSUME IInv, NEW signer, NEW a \in Accounts, SettleThrone(signer, a)
  PROVE  /\ ~king.settled
         /\ SettlementReady
         /\ king.current_champion # Nobody
         /\ slot' = slot
         /\ king'.settled
         /\ king'.current_champion = king.current_champion
         /\ king'.champion_balance = king.champion_balance
         /\ king'.take_overs = king.take_overs
         /\ king'.settles_at_slot = king.settles_at_slot
<1>1. ~king.settled /\ SettlementReady
  BY Zenon DEF SettleThrone, SettleThroneResult
<1>2. king' = [king EXCEPT !.settled = TRUE] /\ slot' = slot
  BY DEF SettleThrone
<1>3. king \in KingOfHill
  BY DEF IInv, TypeOK
<1>4. king.current_champion # Nobody
  BY <1>1 DEF SettlementReady, IInv, VaultUntilCapture
<1>5. QED
  BY <1>1, <1>2, <1>3, <1>4 DEF KingOfHill

\* The recorded balance never falls and each capture raises it strictly.
THEOREM ThroneBarRises == Spec => BarRises
<1>1. IInv /\ [Next]_vars =>
        [ /\ king'.champion_balance >= king.champion_balance
          /\ Captured => king'.champion_balance > king.champion_balance ]_king
  <2> SUFFICES ASSUME IInv, [Next]_vars, king' # king
               PROVE  /\ king'.champion_balance >= king.champion_balance
                      /\ Captured => king'.champion_balance > king.champion_balance
    OBVIOUS
  <2>1. ASSUME NEW c \in Wallets, NEW nft \in Accounts, NEW prev \in Accounts,
               TakeThrone(c, nft, prev)
        PROVE  king'.champion_balance > king.champion_balance
    BY <2>1, CaptureRecords
  <2>2. ASSUME NEW signer \in Wallets \cup {Oracle}, NEW a \in Accounts,
               SettleThrone(signer, a)
        PROVE  ~Captured /\ king'.champion_balance = king.champion_balance
    BY <2>2, SettleRecords DEF Captured
  <2>3. king.champion_balance \in Nat /\ (king.champion_balance)' \in Nat
    BY NextKeeps, BoundsAssumption DEF IInv, TypeOK, KingOfHill
  <2>4. QED
    BY <2>1, <2>2, <2>3, KingWrites
<1>2. QED
  BY <1>1, ThroneInvariance, PTL DEF Spec, BarRises

\* The deadline never moves once the first capture has set it.
THEOREM ThroneDeadlineNeverMoves == Spec => DeadlineNeverMoves
<1>1. IInv /\ [Next]_vars =>
        [king.settles_at_slot # 0 => king'.settles_at_slot = king.settles_at_slot]_king
  <2> SUFFICES ASSUME IInv, [Next]_vars, king' # king, king.settles_at_slot # 0
               PROVE  king'.settles_at_slot = king.settles_at_slot
    OBVIOUS
  <2>1. ASSUME NEW c \in Wallets, NEW nft \in Accounts, NEW prev \in Accounts,
               TakeThrone(c, nft, prev)
        PROVE  king'.settles_at_slot = king.settles_at_slot
    <3>1. king.current_champion # Nobody
      BY DEF IInv, VaultUntilCapture
    <3>2. ~IsUnclaimed /\ king'.settles_at_slot = SettlesAt
      BY <2>1, <3>1, CaptureRecords
    <3>3. QED
      BY <3>2 DEF SettlesAt
  <2>2. ASSUME NEW signer \in Wallets \cup {Oracle}, NEW a \in Accounts,
               SettleThrone(signer, a)
        PROVE  king'.settles_at_slot = king.settles_at_slot
    BY <2>2, SettleRecords
  <2>3. QED
    BY <2>1, <2>2, KingWrites
<1>2. QED
  BY <1>1, ThroneInvariance, PTL DEF Spec, DeadlineNeverMoves

\* The champion at the deadline is the final one; a settled account is frozen.
THEOREM ThroneChampionFinal == Spec => ChampionFinalAtDeadline
<1>1. IInv /\ [Next]_vars =>
        [ /\ king.current_champion # Nobody /\ ~InWindow =>
               king'.current_champion = king.current_champion
          /\ king.settled => king' = king ]_king
  <2> SUFFICES ASSUME IInv, [Next]_vars, king' # king
               PROVE  /\ king.current_champion # Nobody /\ ~InWindow =>
                           king'.current_champion = king.current_champion
                      /\ ~king.settled
    OBVIOUS
  <2>1. ASSUME NEW c \in Wallets, NEW nft \in Accounts, NEW prev \in Accounts,
               TakeThrone(c, nft, prev)
        PROVE  ~king.settled /\ (king.current_champion # Nobody => InWindow)
    BY <2>1, CaptureRecords DEF InWindow
  <2>2. ASSUME NEW signer \in Wallets \cup {Oracle}, NEW a \in Accounts,
               SettleThrone(signer, a)
        PROVE  ~king.settled /\ king'.current_champion = king.current_champion
    BY <2>2, SettleRecords
  <2>3. QED
    BY <2>1, <2>2, KingWrites
<1>2. QED
  BY <1>1, ThroneInvariance, PTL DEF Spec, ChampionFinalAtDeadline

\* A capture debits the vault (the first) or the recorded champion (later ones),
\* and hands the NFT to the new champion still pullable by the king PDA.
THEOREM ThroneCaptureMovesNft == Spec => CaptureMovesNft
<1> DEFINE Rightful ==
      /\ \A a \in Accounts : token'[a].amount < token[a].amount =>
           AccountOwner[a] = IF IsUnclaimed THEN EscrowPda ELSE king.current_champion
      /\ \E a \in Accounts : Pullable(a)'
<1>1. IInv /\ [Next]_vars => [Captured => Rightful]_vars
  <2> SUFFICES ASSUME IInv, [Next]_vars, Captured PROVE Rightful
    OBVIOUS
  <2>1. ASSUME NEW c \in Wallets, NEW nft \in Accounts, NEW prev \in Accounts,
               TakeThrone(c, nft, prev)
        PROVE  Rightful
    <3>1. Pullable(nft)'
      <4>1. king'.current_champion = c
        BY <2>1, CaptureRecords
      <4>2. /\ AccountOwner[nft] = c /\ token'[nft].amount = 1
            /\ token'[nft].delegate = KingPda /\ token'[nft].delegated = 1
        BY <2>1, CaptureDelivers
      <4>3. QED
        BY <4>1, <4>2 DEF Pullable
    <3>2. ASSUME NEW a \in Accounts, token'[a].amount < token[a].amount
          PROVE  AccountOwner[a] = IF IsUnclaimed THEN EscrowPda ELSE king.current_champion
      <4>1. token[a] \in TokenAccount /\ token'[a] \in TokenAccount
        BY <2>1, CaptureDelivers DEF IInv, TypeOK
      <4>2. token[a].amount = 1
        BY <3>2, <4>1 DEF TokenAccount
      <4>3. Source(prev) \in Accounts /\ token[Source(prev)].amount = 1
        <5>1. Source(prev) \in Accounts
          BY AccountsAssumption DEF Source
        <5>2. token[Source(prev)] \in TokenAccount /\ token[Source(prev)].amount >= 1
          BY <2>1, <5>1, TakeThroneGuards DEF IInv, TypeOK, MayTransfer, TakeThrone
        <5>3. QED
          BY <5>1, <5>2 DEF TokenAccount
      <4>4. a = Source(prev)
        BY <4>2, <4>3 DEF IInv, AtMostOneNft
      <4>5. ~IsUnclaimed => AccountOwner[prev] = king.current_champion
        BY <2>1, TakeThroneGuards DEF TakeThrone
      <4>6. QED
        BY <4>4, <4>5, AccountsAssumption DEF Source
    <3>3. QED
      BY <3>1, <3>2
  <2>2. ASSUME NEW signer \in Wallets \cup {Oracle}, NEW a \in Accounts,
               SettleThrone(signer, a)
        PROVE  FALSE
    BY <2>2, SettleRecords DEF Captured
  <2>3. king' # king
    BY DEF Captured
  <2>4. QED
    BY <2>1, <2>2, <2>3, KingWrites
<1>2. QED
  BY <1>1, ThroneInvariance, PTL DEF Spec, CaptureMovesNft

-------------------------------------------------------------------------------
(***************************************************************************)
(* Who can be dethroned, and when.                                         *)
(***************************************************************************)

\* In the open window a richer challenger succeeds exactly while the champion has
\* left the NFT where the king PDA can pull it.
THEOREM ThroneTakeableIffPullable == Spec => []TakeableIffPullable
<1>1. IInv => TakeableIffPullable
  <2> SUFFICES ASSUME IInv, king.current_champion # Nobody, InWindow,
                      NEW c \in Wallets, BeatsChampion(c),
                      NEW own \in Accounts, AccountOwner[own] = c
               PROVE  CanTake(c) <=> \E a \in Accounts : Pullable(a)
    BY DEF TakeableIffPullable
  <2>1. ~IsUnclaimed /\ ~DeadlinePassed /\ ~king.settled
    <3>1. slot \in Nat /\ king.settles_at_slot \in Nat
      BY BoundsAssumption DEF IInv, TypeOK, KingOfHill
    <3>2. QED
      BY <3>1 DEF InWindow, IsUnclaimed, DeadlinePassed
  <2>2. ASSUME NEW nft \in Accounts, NEW prev \in Accounts,
               TakeThroneResult(c, nft, prev) = "Ok"
        PROVE  Pullable(prev)
    <3>1. /\ AccountOwner[prev] = king.current_champion
          /\ token[prev].amount # 0
          /\ MayTransfer(prev, KingPda)
      BY <2>1, <2>2, TakeThroneGuards DEF Source, SourceAuthority
    <3>2. AccountOwner[prev] # KingPda
      BY IdentitiesAssumption, AccountsAssumption
    <3>3. token[prev].amount = 1
      BY <3>1 DEF IInv, TypeOK, TokenAccount
    <3>4. QED
      BY <3>1, <3>2, <3>3 DEF Pullable, MayTransfer
  <2>3. ASSUME NEW a \in Accounts, Pullable(a)
        PROVE  TakeThroneResult(c, own, a) = "Ok"
    <3>1. king.current_champion \in Wallets
      BY DEF IInv, TypeOK, KingOfHill
    <3>2. a # Vault
      BY <2>3, <3>1, IdentitiesAssumption, AccountsAssumption DEF Pullable
    <3>3. PrevChampionResult(a) = "Ok"
      BY <2>3, <3>2 DEF Pullable, PrevChampionResult
    <3>4. MayTransfer(Source(a), SourceAuthority)
      BY <2>1, <2>3 DEF Pullable, MayTransfer, Source, SourceAuthority
    <3>5. QED
      BY <2>1, <3>3, <3>4 DEF TakeThroneResult
  <2>4. QED
    BY <2>2, <2>3 DEF CanTake
<1>2. QED
  BY <1>1, ThroneInvariance, PTL

\* If no owner touches its token account directly, the NFT stays pullable from the
\* first capture to the settlement: by the theorem above, no champion is safe.
THEOREM ThroneHonestStaysPullable == Spec => []HonestThroneStaysPullable
<1>1. Init => HonestThroneStaysPullable
  BY DEF Init, FreshKing, HonestThroneStaysPullable
<1>2. IInv /\ HonestThroneStaysPullable /\ [Next]_vars => HonestThroneStaysPullable'
  <2> SUFFICES ASSUME IInv, HonestThroneStaysPullable, [Next]_vars, Meddlers = {},
                      king'.current_champion # Nobody, ~king'.settled
               PROVE  \E a \in Accounts : Pullable(a)'
    BY DEF HonestThroneStaysPullable
  <2>1. ASSUME NEW c \in Wallets, NEW nft \in Accounts, NEW prev \in Accounts,
               TakeThrone(c, nft, prev)
        PROVE  Pullable(nft)'
    <3>1. king'.current_champion = c
      BY <2>1, CaptureRecords
    <3>2. /\ AccountOwner[nft] = c /\ token'[nft].amount = 1
          /\ token'[nft].delegate = KingPda /\ token'[nft].delegated = 1
      BY <2>1, CaptureDelivers
    <3>3. QED
      BY <3>1, <3>2 DEF Pullable
  <2>2. ASSUME NEW signer \in Wallets \cup {Oracle}, NEW a \in Accounts,
               SettleThrone(signer, a)
        PROVE  FALSE
    BY <2>2, SettleRecords
  <2>3. CASE UNCHANGED <<king, token>>
    <3>1. PICK a \in Accounts : Pullable(a)
      BY <2>3 DEF HonestThroneStaysPullable
    <3>2. Pullable(a)'
      BY <2>3, <3>1 DEF Pullable
    <3>3. QED
      BY <3>2
  <2>4. QED
    BY <2>1, <2>2, <2>3 DEF Next, vars, TakeSomeThrone, Settle, Trade, Tick
<1>3. QED
  BY <1>1, <1>2, ThroneInvariance, PTL DEF Spec

\* If no owner touches its token account directly, a call is answered by the rules
\* and by whether the account it names holds the NFT, whatever was read and done
\* before it: the NFT is in one account only, and that one is pullable.
THEOREM ThroneFollowsTheNft == Spec => []LateCallsFollowTheNft
<1>1. IInv /\ HonestThroneStaysPullable => LateCallsFollowTheNft
  <2> SUFFICES ASSUME IInv, HonestThroneStaysPullable, Meddlers = {},
                      NEW c \in Wallets, NEW nft \in Accounts, NEW prev \in Accounts,
                      AccountOwner[nft] = c
               PROVE  TakeThroneResult(c, nft, prev) = "Ok" <=>
                        /\ coins[c] > king.champion_balance
                        /\ IF king.current_champion = Nobody
                             THEN slot + Window <= MaxSlot
                             ELSE InWindow /\ token[prev].amount = 1
    BY DEF LateCallsFollowTheNft
  <2>1. /\ slot \in Nat /\ king.settles_at_slot \in Nat /\ Window \in Nat /\ MaxSlot \in Nat
        /\ king.settled \in BOOLEAN
        /\ token[prev].amount \in 0..1
    BY BoundsAssumption DEF IInv, TypeOK, KingOfHill, TokenAccount
  <2>2. CASE king.current_champion = Nobody
    <3>1. IsUnclaimed /\ ~DeadlinePassed /\ ~king.settled
      BY <2>1, <2>2 DEF IInv, VaultUntilCapture, SettledAfterWindow, IsUnclaimed,
                        DeadlinePassed
    <3>2. Source(prev) = Vault /\ SourceAuthority = EscrowPda
      BY <3>1 DEF Source, SourceAuthority
    <3>3. MayTransfer(Vault, EscrowPda)
      BY <2>2, IdentitiesAssumption, AccountsAssumption
         DEF IInv, VaultUntilCapture, MayTransfer
    <3>4. DeadlineOverflows <=> ~(slot + Window <= MaxSlot)
      BY <2>1 DEF DeadlineOverflows
    <3>5. TakeThroneResult(c, nft, prev) = "Ok" <=> BeatsChampion(c) /\ ~DeadlineOverflows
      BY <3>1, <3>2, <3>3 DEF TakeThroneResult
    <3> QED
      BY <2>2, <3>4, <3>5 DEF BeatsChampion
  <2>3. CASE king.current_champion # Nobody
    <3>1. ~IsUnclaimed
      BY <2>3 DEF IsUnclaimed
    <3>2. ~king.settled /\ ~DeadlinePassed <=> InWindow
      BY <2>1, <2>3 DEF IInv, VaultUntilCapture, DeadlinePassed, InWindow
    <3>3. ASSUME TakeThroneResult(c, nft, prev) = "Ok"
          PROVE  InWindow /\ BeatsChampion(c) /\ token[prev].amount = 1
      BY <2>1, <3>1, <3>2, <3>3, TakeThroneGuards
    <3>4. ASSUME InWindow, BeatsChampion(c), token[prev].amount = 1
          PROVE  TakeThroneResult(c, nft, prev) = "Ok"
      <4>1. PICK a \in Accounts : Pullable(a)
        BY <2>3, <3>2, <3>4 DEF HonestThroneStaysPullable
      <4>2. a = prev
        BY <3>4, <4>1 DEF IInv, AtMostOneNft, Pullable
      <4>3. king.current_champion \in Wallets
        BY <2>3 DEF IInv, TypeOK, KingOfHill
      <4>4. prev # Vault
        BY <4>1, <4>2, <4>3, IdentitiesAssumption, AccountsAssumption DEF Pullable
      <4>5. PrevChampionResult(prev) = "Ok"
        BY <4>1, <4>2, <4>4 DEF Pullable, PrevChampionResult
      <4>6. MayTransfer(Source(prev), SourceAuthority)
        BY <3>1, <4>1, <4>2 DEF Pullable, MayTransfer, Source, SourceAuthority
      <4> QED
        BY <3>1, <3>2, <3>4, <4>5, <4>6 DEF TakeThroneResult
    <3> QED
      BY <2>3, <3>3, <3>4 DEF BeatsChampion
  <2> QED
    BY <2>2, <2>3
<1>2. QED
  BY <1>1, ThroneInvariance, ThroneHonestStaysPullable, PTL

-------------------------------------------------------------------------------
(***************************************************************************)
(* The program plays the abstract game.                                    *)
(***************************************************************************)

\* Every step of the throne is a capture, the close or the settlement of the
\* abstract game, or does nothing there.
THEOREM ThroneImplementsGame == Spec => ImplementsGame
<1>1. Init => Game!Init
  BY DEF Init, FreshKing, Game!Init, Phase
<1>2. IInv /\ [Next]_vars => [Game!Next]_(Game!vars)
  <2> SUFFICES ASSUME IInv, [Next]_vars PROVE [Game!Next]_(Game!vars)
    OBVIOUS
  <2>1. ASSUME NEW c \in Wallets, NEW nft \in Accounts, NEW prev \in Accounts,
               TakeThrone(c, nft, prev)
        PROVE  Game!Next
    <3>1. Phase \in {"vacant", "open"}
      BY <2>1, CaptureRecords DEF Phase
    <3>2. Phase' = "open"
      BY <2>1, CaptureRecords, IdentitiesAssumption DEF Phase
    <3>3. Game!Capture(c, coins[c])
      BY <2>1, <3>1, <3>2, CaptureRecords DEF Game!Capture
    <3>4. coins[c] \in 1..MaxCoins
      BY <2>1, CaptureRecords
    <3>5. QED
      BY <3>3, <3>4 DEF Game!Next
  <2>2. ASSUME NEW signer \in Wallets \cup {Oracle}, NEW a \in Accounts,
               SettleThrone(signer, a)
        PROVE  Game!Next
    <3>1. /\ slot \in Nat /\ king.settles_at_slot \in Nat
      BY BoundsAssumption DEF IInv, TypeOK, KingOfHill
    <3>2. Phase = "closed"
      BY <2>2, <3>1, SettleRecords DEF Phase, SettlementReady
    <3>3. Phase' = "settled"
      BY <2>2, SettleRecords DEF Phase
    <3>4. Game!Settle
      BY <2>2, <3>2, <3>3, SettleRecords DEF Game!Settle
    <3>5. QED
      BY <3>4 DEF Game!Next
  <2>3. CASE Tick
    <3>1. king' = king /\ slot' = slot + 1
      BY <2>3 DEF Tick
    <3>2. /\ slot \in Nat /\ king.settles_at_slot \in Nat
      BY BoundsAssumption DEF IInv, TypeOK, KingOfHill
    <3>3. Phase' = Phase \/ (Phase = "open" /\ Phase' = "closed")
      BY <3>1, <3>2 DEF Phase
    <3>4. CASE Phase' = Phase
      BY <3>1, <3>4 DEF Game!vars
    <3>5. CASE Phase = "open" /\ Phase' = "closed"
      BY <3>1, <3>5 DEF Game!Next, Game!Close
    <3>6. QED
      BY <3>3, <3>4, <3>5
  <2>4. CASE UNCHANGED <<king, slot>>
    BY <2>4 DEF Game!vars, Phase
  <2>5. QED
    BY <2>1, <2>2, <2>3, <2>4 DEF Next, vars, TakeSomeThrone, Settle, Meddle,
       SplTransfer, SplApprove, SplRevoke, SplBurn, Trade
<1>3. QED
  BY <1>1, <1>2, ThroneInvariance, PTL DEF Spec, ImplementsGame, Game!Spec
===============================================================================
