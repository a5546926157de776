CONSTANTS
  c1 = c1
  c2 = c2
  Conn = {c1, c2}
  MaxSend = 3
  Backlog = 2
  DropAborted = FALSE
  Variants = {"echo", "sigpipe", "simple"}
  Programs = {"client", "shutdown", "trivial", "daytime", "bind", "flood"}
  BufSize = 2
  Request = 3
  Addresses = 2
  Window = 2
  NoConn = NoConn
SPECIFICATION FairSpec
CHECK_DEADLOCK FALSE
PROPERTIES ImplementsService EveryoneEnds
