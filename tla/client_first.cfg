CONSTANTS
  Wanted = {2}
  Default = 2
  MaxTargets = 1
  MaxConn = 3
  Packet = 1
  BufSize = 1
  MaxBytes = 1
SPECIFICATION Spec
CHECK_DEADLOCK FALSE
PROPERTY HandlesAll
