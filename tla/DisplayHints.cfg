SPECIFICATION Spec
CONSTANTS
  MissingFeature = 99999
  Scenes <- AheadScenes
  Ahead = 3
  TabSize = 4
  Jump = 3
  MaxTries = 10
INVARIANTS
  WindowsTrue
CHECK_DEADLOCK FALSE
