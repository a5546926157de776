CONSTANTS
  c1 = c1
  c2 = c2
  Conn = {c1, c2}
  MaxSend = 2
  BufSize = 2
  MaxFd = 3
  Backlog = 2
  DropAborted = TRUE
  NoConn = NoConn
SPECIFICATION FairSpec
CHECK_DEADLOCK FALSE
INVARIANT PeerSeesTheEnd
PROPERTIES ImplementsService EventuallyReaped EventuallyEchoed AcceptedWhenIdle
