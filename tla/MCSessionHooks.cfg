\* One compaction and one SessionEnd, each delivered twice; or two Stops, a
\* PreCompact, a SessionStart and its sweep.  One hook is cut off.
SPECIFICATION Spec
CONSTANTS
  s = s
  p = p
  t1 = t1
  t2 = t2
  c1 = c1
  c2 = c2
  x1 = x1
  x2 = x2
  A = A
  NoDigest = NoDigest
  NoRecord = NoRecord
  NoEvent = NoEvent
  Slow = Slow
  NoState = NoState
  Events <- MCEvents
  KindOf <- MCKinds
  SummaryOf <- Redelivered
  Eligible = TRUE
  MaxMoves = 1
  MaxKills = 1
  Stories <- MCStories
SYMMETRY Deliveries
INVARIANTS
  CompactionNeverLost
  CompactionOnce
  SessionEndAfterClaim
  FlagMeansCheckpoint
  TurnsCounted
\* Every event fires once: the system stops when all handlers have returned.
CHECK_DEADLOCK FALSE
