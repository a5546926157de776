CONSTANTS
  Wanted = {1}
  Default = 2
  MaxTargets = 2
  MaxConn = 4
  Packet = 2
  BufSize = 2
  MaxBytes = 2
SPECIFICATION Spec
CHECK_DEADLOCK FALSE
INVARIANT Circulates
PROPERTY ExitsForAReason
