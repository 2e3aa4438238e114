CONSTANTS
  ESIZE = 60
  NBRA = 3
  NALTS = 3
  Beyond <- BeyondVal
  Codes <- CodesVal
  MaxSyntaxTables = 2
  StackSize = 4
  DEL = 127
  TabSize = 8
  CtlWidth = 2
  MaxAbbrevTables = 2
  Memory = {0}
  Scenes <- ScenesVal
SPECIFICATION Spec
INVARIANTS FoundAsMeant ReplacedAsMeant ParensMatch TypedTextKept KilledComesBack
CHECK_DEADLOCK FALSE
