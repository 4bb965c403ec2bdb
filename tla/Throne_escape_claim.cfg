SPECIFICATION Spec
CONSTANTS
  w1 = w1  w2 = w2
  a1 = a1  a2 = a2  b1 = b1  vault = vault
  Oracle = oracle  Nobody = nobody  KingPda = kingPda  EscrowPda = escrowPda
  Vault = vault
  Wallets <- TwoWallets
  Meddlers <- TwoWallets
  Accounts <- OneEach
  AccountOwner <- OneEachOwner
  Window = 2
  MaxSlot = 4
  MaxCoins = 2
  MaxTakeOvers = 4
  MaxAllowance = 1
  DelegateMayRevoke = FALSE
INVARIANT NftStaysWithChampion
