\* Two advisory callers in one process, an exclusive one in another.
SPECIFICATION Spec
CONSTANTS
  a1 = a1
  a2 = a2
  b1 = b1
  p = p
  q = q
  Callers <- MCCallers
  Exclusive <- MCExclusive
  Processes <- MCProcesses
  ProcessOf <- MCProcessOf
  NoFile = NoFile
  MaxMissingRetries = 1
  MaxSweeps = 3
INVARIANTS
  OverlapHasRootCause
  SameProcessExclusion
  LockFileHasOwner
PROPERTY
  CallerServed
\* Every call is made once: the system stops when all have returned.
CHECK_DEADLOCK FALSE
