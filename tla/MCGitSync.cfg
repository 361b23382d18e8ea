\* Two machines that join, edit, fail, are cut off, conflict and repair.
SPECIFICATION Spec
CONSTANTS
  m1 = m1
  m2 = m2
  a = a
  b = b
  Absent = Absent
  Marked = Marked
  NoRebase = NoRebase
  NoAnswers = NoAnswers
  Machines <- MCMachines
  Paths <- MCPaths
  Located <- MCLocated
  MaxEdits <- FewEdits
  MaxFailures = 1
  MaxCuts = 1
INVARIANTS
  NoSilentLoss
  NothingLocalLost
PROPERTIES
  OnlyEverAddsToHistory
  Convergence
