SPECIFICATION StoreSpec
CONSTANTS
  c1 = c1
  c2 = c2
  c3 = c3
  c4 = c4
  NoFile = NoFile
  Callers <- MCCallers
  KindsOf <- MCKindsOf
  MaxFaults = 1
  Savers = {w1, w2}
  Attempts = 2
  MaxWrites = 3
  MaxTrouble = 2
  Machines = {"m1", "m2"}
  Entries <- MCEntries
  Title <- MCTitle
  Reason <- MCReason
  MaxNotes = 1
INVARIANTS AnsweredIsKept DecisionsReadBack
PROPERTIES DecisionsGrow BackupHoldsReplaced ImplementsDurableFile
\* In the end no call, write or decision is left to begin.
CHECK_DEADLOCK FALSE
