SPECIFICATION Spec
CONSTANTS
  Leaves <- TenLeaves
  LeafLists <- UpToNine
  Strays <- SomeStrays
  MaxForeign = 3
  Builder = "rust"
INVARIANTS TypeOK BuiltProofsAccepted OnlyListedAccepted
CHECK_DEADLOCK FALSE
