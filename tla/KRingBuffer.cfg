SPECIFICATION Spec
CONSTANTS
  Size = 4
  CntMod = 8
  Byte = {b0, b1}
  MaxLen = 5
INVARIANT TypeOK
PROPERTY ImplementsFifo
