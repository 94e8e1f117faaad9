SPECIFICATION Spec
CONSTANTS
  Clients = {c1, c2}
  MaxEdits = 2
  MaxFaults = 1
  MaxReadOnly = 1
  MaxCompactions = 1
INVARIANTS
  AcknowledgedIsKept
  
  SessionsConverge
CHECK_DEADLOCK FALSE
