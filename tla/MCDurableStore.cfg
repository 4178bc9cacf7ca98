SPECIFICATION Spec
CONSTANTS
  Paths = {p1, p2}
  short = short
  long = long
  Texts <- MCTexts
  None = None
  Size <- MCSize
  MaxGenerations = 3
INVARIANTS
  TypeOK
  NoStaleTexts
PROPERTIES
  ImplementsMap
CHECK_DEADLOCK FALSE
