SPECIFICATION FairSpec
CONSTANTS
  k1 = k1  k2 = k2  k3 = k3
  Threads = 3
  Keys <- ThreeKeys
  Matching <- TwoMatch
  Width = 4
  NoKey = noKey
  NoThread = noThread
INVARIANTS TypeOK ResultIsAMatch AttemptsComplete
PROPERTIES WinnerKept WinnerLeadsToEnd
CHECK_DEADLOCK FALSE
