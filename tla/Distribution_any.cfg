SPECIFICATION Spec
CONSTANTS
  h1 = h1  h2 = h2
  Holders <- TwoHolders
  Oracle = oracle
  Epochs = {1, 2}
  Amounts = {0, 1, 2}
  Trees <- AnyTrees
  MaxPool = 2
  MaxLamports = 6
  RentMinimum = 2
  NoAccount = noAccount
INVARIANTS TypeOK PaidOnceWhatWasProven
PROPERTIES KeepsPromise
CHECK_DEADLOCK FALSE
