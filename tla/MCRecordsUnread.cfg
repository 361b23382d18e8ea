SPECIFICATION Spec
CONSTANTS
  c1 = c1
  c2 = c2
  c3 = c3
  c4 = c4
  NoFile = NoFile
  Callers <- MCCallers
  KindsOf <- MCKindsOf
  MaxFaults = 1
PROPERTY UnreadRecordKept
CHECK_DEADLOCK FALSE
