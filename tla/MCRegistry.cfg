\* Two clones of one repository, registered, used and removed at once.
SPECIFICATION Spec
CONSTANTS
  A = A
  B = B
  r1 = r1
  r2 = r2
  a1 = a1
  a2 = a2
  u = u
  v = v
  NoRemote = NoRemote
  NoProject = NoProject
  Earlier = Earlier
  Clones <- MCClones
  Remotes <- MCRemotes
  Callers <- MCCallers
  DirOf <- MCDirOf
  KindsOf <- MCKindsOf
  MaxMoves = 1
  MaxDeaths = 1
SYMMETRY MCSymmetry
INVARIANTS
  IdRemembersIdentity
  DirMatchesId
  HistoryKept
  OneRecordPerIdentity
\* Every command runs once: the system stops when all have ended.
CHECK_DEADLOCK FALSE
