CONSTANTS
  c1 = c1
  c2 = c2
  c3 = c3
  Conn = {c1, c2, c3}
  MaxSend = 1
  BufSize = 1
  MaxFd = 3
  Backlog = 2
  DropAborted = FALSE
  NoConn = NoConn

SPECIFICATION FairSpec
CHECK_DEADLOCK FALSE

PROPERTY EventuallyAccepted
