CONSTANTS
  MaxIn = 10
  SendBuf = 1
  RecvBuf = 3
  BufSize = 2
  Fortified = FALSE
SPECIFICATION FairSpec
CHECK_DEADLOCK FALSE
INVARIANTS CopiesInOrder LittleUnderWay
PROPERTIES AllBack Ends
