CONSTANTS
  c1 = c1
  c2 = c2
  Conn = {c1, c2}
  MaxSend = 2
  MaxFd = 3
  BufSize = 2
  Backlog = 2
  HupOnFin = FALSE
  DropAborted = FALSE
  NoFile = NoFile
  Listener = Listener

SPECIFICATION FairSpec
CHECK_DEADLOCK FALSE
INVARIANTS SlotsMatch NoLeak NeverBlocks EchoInOrder EchoComplete
PROPERTIES ImplementsService EventuallyAccepted EventuallyEchoed EventuallyClosed
