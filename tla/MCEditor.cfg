SPECIFICATION Spec
CONSTANTS
  a = a
  nl = nl
  sp = sp
  Char <- MCChar
  WordChar <- MCWord
  White <- MCWhite
  Newline = nl
  Marker <- MCMarker
  Mark = Mark
  Lo = Lo
  Hi = Hi
  Junk = Junk
  Args <- MCArgs
  GapSlack = 1
  MaxText = 3
INVARIANTS TypeOK BufferSound DotInText
PROPERTIES OnlyTwoReachHidden Implements
