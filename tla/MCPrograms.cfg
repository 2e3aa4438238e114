SPECIFICATION Spec
CONSTANTS
  Files = {1, 2, 3}
  ReadOnly = {1}
  Keys = {1, 2, 3, 4, 5}
  Hashes <- TheHashes
  Sizes <- TheSizes
  PageRoom = 2
  BlockBits = 4
  Names = {1, 2}
  SearchLen = 2
  Plans <- ThePlans
  Shipped <- TheShipped
  Collectors = {1, 2}
  Styles <- TheStyles
  MaxLetters = 2
  MaxRuns = 3
  MaxDeaths = 1
INVARIANTS
  FoundAsPut
  ListedOnce
  CollectedOnce
  LockHolds
CHECK_DEADLOCK FALSE
