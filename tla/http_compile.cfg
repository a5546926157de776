CONSTANTS
  Letters = 3
  Chars = 16
  Star = 14
  Hack = 15
  SymbolValues = 6
  CellValues = 10
  PendingValues = 2
  Pool <- MCPool
  MaxPatterns = 3
  Input = {0, 3, 4, 15}
  MaxText = 4
  MaxFragment = 2
  Code <- MCCode
  MethodTexts <- MCMethods
  Pieces <- MCPieces
  MaxPieces = 6
  Debug = FALSE
  Past = {}
  HostBytes = {104, 58, 54, 53, 32, 91, 10}
  MaxHostBytes = 6
  MaxPort = 65
  PortValues = 1024
  Args <- MCArgs
  MaxArgs = 4
  Types = {"A", "MX"}
  Numbers = {"5"}
  Hosts = {"h", "MX"}
  BlockSize = 6
  LenSize = 2
  KeySize = 3
  Keys <- MCKeys
  Data = {0}
  MaxPiece = 7
  MaxMessage = 9
  Block = 3
  Limb = 2
  MaxPlain = 12
  MaxCall = 7
  RandBlock = 2
  Word = 2
  Seeds <- MCSeeds
  Sizes = {1, 3}
  MaxBytes = 16
  MaxStirs = 2
  Values = 8
  XorWords <- MCXor
  Page = 4
  Header = 2
  SizeValues = 64
  MaxNum = 8
  Pages = 9
  Requests = {1, 2, 3, 5}
  Counts = {0, 1, 2, 7, 8, 9, 31, 32, 63}
  FirstYears = {1899, 1968, 1999, 2099}
  Years = 6

SPECIFICATION Spec
CHECK_DEADLOCK FALSE
INVARIANT CompileReturns
