CONSTANTS
  None = None
  Absent = Absent
  Near <- MCNear
  Extra <- MCExtra
  LongTerms <- MCLongTerms
  CollectSlots = 2
  BriefMax = 3
  Spare = 2
  HostAliases <- MCHostAliases
  AzureHosts <- MCAzureHosts
  Decoded <- MCDecoded
  ProjectLists <- MCNone
  Terms <- MCTerms
  Histories <- MCNone
  Sinces <- MCSinces
  Limits <- MCLimits
  Briefs <- MCNone
  Feeds <- MCNone
  ViewLists <- MCNone
  Requests <- MCNone
  RecentPageSize = 1
  SearchPageSize = 1
  BriefPageSize = 10
  StaleBefore <- MCStaleBefore
  Portfolios <- MCNone
  Filters <- MCFilters
  SearchTexts <- MCNone
  Queries <- MCQueries
  Width = 4
  Collections <- MCNone
  Disks <- MCNone
  RootSets <- MCRootSets
  ScanOptions <- MCScanOptions
  Repositories <- MCSpaced
  Forms <- MCShown
  Url <- MCUrl
  Checkouts <- MCNone
  Trees <- MCNone
  Contents <- MCNone
SPECIFICATION Spec
INVARIANT OneIdentityInAnyForm
CHECK_DEADLOCK FALSE
