SPECIFICATION Spec
CONSTANTS
  x = x
  y = y
  main = main
  other = other
  Blank = Blank
  Char <- MCChar
  Buffer <- TwoBuffers
  NUndoR = 5
  NUndoC = 3
  MaxText = 2
  MaxKeys = 3
  MaxEdits = 5
INVARIANTS WalkBounded
PROPERTIES UndoExact
SYMMETRY Alike
