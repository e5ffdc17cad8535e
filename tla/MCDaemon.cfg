SPECIFICATION Spec
CONSTANTS
  p1 = p1
  p2 = p2
  p3 = p3
  r1 = r1
  r2 = r2
  None = None
  Pid <- MCPid
  Command <- MCCommand
  Port <- MCPort
  DefaultPort = 8330
  MaxFails = 1
SYMMETRY MCSymmetry
INVARIANTS OursIsProvable OneServes
CHECK_DEADLOCK FALSE
