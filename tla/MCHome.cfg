SPECIFICATION HomeSpec
CONSTANTS
  c1 = c1
  c2 = c2
  c3 = c3
  p1 = p1
  p2 = p2
  NoFile = NoFile
  Elsewhere = Elsewhere
  Callers <- MCCallers
  Profiles <- MCProfiles
  KindsOf <- MCKindsOf
  MaxFaults = 1
  u1 = u1
  u2 = u2
  i1 = i1
  i2 = i2
  None = None
  Commands <- MCCommands
  Ids <- MCIds
  Projects = {"p"}
  Environments = {"production", "staging"}
  Terms <- MCTerms
  Inside <- MCInside
  SshConfigs <- MCConfigs
  Main = "a"
  Patterns = {"*"}
  BadPorts = {"99999"}
  ByHand <- MCByHand
  WordsOf <- MCWordsOf
  ProdWords = {"prod"}
  FromProd = {"prod"}
  ToProd = {"prod"}
  StageWords = {"staging"}
  DevWords = {"dev"}
  MaxDeployments = 2
  MaxIncludeDepth = 3
INVARIANTS SyncedHasAttributes KnownOnce ImportedAsWritten OneDeploymentPerTarget
PROPERTIES ProfileKept
SYMMETRY MCHomeSymmetry
CHECK_DEADLOCK FALSE
