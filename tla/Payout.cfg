SPECIFICATION FairSpec
CONSTANTS
  h1 = h1  h2 = h2  h3 = h3
  Builder = "sdk"
  Holders <- ThreeHolders
  Oracle = oracle
  Epochs = {1, 2}
  Amounts = {0, 1, 2}
  Lists <- SmallLists
  Pools = {0, 2, 4}
  MaxLamports = 8
  RentMinimum = 2
  MaxProof = 2
  NoAccount = noAccount
INVARIANTS PublishedProofsAccepted ListedCanClaim
PROPERTIES ImplementsDistribution ListedLeadsToPaid
CHECK_DEADLOCK FALSE
