\* A first join that is cut off.
SPECIFICATION Spec
CONSTANTS
  m1 = m1
  m2 = m2
  a = a
  b = b
  Absent = Absent
  Marked = Marked
  NoRebase = NoRebase
  NoAnswers = NoAnswers
  Machines <- MCMachines
  Paths <- MCPaths
  Located <- NoLocated
  MaxEdits <- FewEdits
  MaxFailures = 0
  MaxCuts = 1
INVARIANT
  RemoteRecordsSurvive
