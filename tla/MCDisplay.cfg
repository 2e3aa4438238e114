SPECIFICATION Spec
CONSTANTS
  MissingFeature = 99999
  Scenes <- AllScenes
  Ahead = 1
  TabSize = 4
  Jump = 3
  MaxTries = 10
INVARIANTS
  BeliefsTrue
  WindowsTrue
CHECK_DEADLOCK FALSE
