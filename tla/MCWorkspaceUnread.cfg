SPECIFICATION Spec
CONSTANTS
  c1 = c1
  c2 = c2
  c3 = c3
  p1 = p1
  p2 = p2
  NoFile = NoFile
  Elsewhere = Elsewhere
  Callers <- MCCallers
  Profiles <- MCProfiles
  KindsOf <- MCInits
  MaxFaults = 1
PROPERTY UnreadProfileKept
SYMMETRY MCSymmetry
CHECK_DEADLOCK FALSE
