SPECIFICATION Spec
CONSTANTS
  Texts <- MCTexts
  Quoted <- MCQuoted
  KeyOrder <- MCKeyOrder
  None = None
  SizeValues = 1024
  Expressions <- MCExpressions
  Documents <- MCDocuments
  Bodies <- MCBodies
  Wholes <- MCWholes
  Pieces <- MCPieces
  MaxText = 4
CHECK_DEADLOCK FALSE
INVARIANTS EveryCut BodyMasked ValueMasked KeysMasked
