CONSTANTS
  Keys <- KeysVal
  Esc = "E"
  CtlX = "X"
  Spell <- SpellVal
  MapIds = {"m1", "m2", "m3", "m4", "m5", "m6"}
  MaxDepth = 6
  MemLen = 6
  MaxPushBack = 3
  ArgRange = 64
  Scenes <- ScenesVal
  Files <- FilesVal
SPECIFICATION Spec
INVARIANTS KeysFound MacroFits SameCommands
PROPERTIES ErrorUnwinds OthersBound
CHECK_DEADLOCK FALSE
