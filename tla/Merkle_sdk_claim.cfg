SPECIFICATION Spec
CONSTANTS
  Leaves <- NineLeaves
  LeafLists <- UpToNine
  Strays <- NoStrays
  MaxForeign = 0
  Builder = "sdk"
INVARIANT BuiltProofsAccepted
CHECK_DEADLOCK FALSE
