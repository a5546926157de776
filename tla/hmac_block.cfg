CONSTANTS
  BlockSize = 6
  LenSize = 2
  KeySize = 3
  Keys <- MCShaKeys
  Data = {0}
  MaxPiece = 3
  MaxMessage = 5
SPECIFICATION Sha512Spec
CHECK_DEADLOCK FALSE
INVARIANT HmacOfBlockKey
