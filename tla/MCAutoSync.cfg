\* Two writers with their runners, a manual sync, and a crash.
SPECIFICATION SyncSpec
CONSTANTS
  w1 = w1
  w2 = w2
  m = m
  NoRunner = NoRunner
  Writers <- MCWriters
  Forced <- MCForced
  Manual <- MCManual
  MaxPasses = 2
  AutoPush = TRUE
  MaxCrashes = 1
INVARIANTS
  RequestKept
PROPERTY
  BackgroundSyncEnds
\* Each writer writes once: the system stops when every process has ended.
CHECK_DEADLOCK FALSE
