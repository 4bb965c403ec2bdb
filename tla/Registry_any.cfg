SPECIFICATION Spec
CONSTANTS
  w1 = w1  w2 = w2  n1 = n1  c1 = c1  c2 = c2  m1 = m1  m2 = m2
  Wallets <- TwoWallets
  Zero = zero
  Names <- OneName
  Coins <- TwoCoins
  NftMints <- TwoMints
  FeeChoices = {250, 10000, 10001}
  MaxSlot = 2
  NoAccount = noAccount
INVARIANTS TypeOK OneNftPerThrone ThroneHasRealCoin BoundPetMintable
PROPERTIES CoinStaysBound
CHECK_DEADLOCK FALSE
