CONSTANTS
  None = None
  Absent = Absent
  Near <- MCNear
  Extra <- MCExtra
  LongTerms <- MCLongTerms
  CollectSlots = 2
  BriefMax = 3
  Spare = 2
  HostAliases <- MCHostAliases
  AzureHosts <- MCAzureHosts
  Decoded <- MCDecoded
  ProjectLists <- MCProjectLists
  Terms <- MCTerms
  Histories <- MCHistories
  Sinces <- MCSinces
  Limits <- MCLimits
  Briefs <- MCBriefs
  Feeds <- MCFeeds
  ViewLists <- MCViewLists
  Requests <- MCRequests
  RecentPageSize = 1
  SearchPageSize = 1
  BriefPageSize = 10
  StaleBefore <- MCStaleBefore
  Portfolios <- MCPortfolios
  Filters <- MCFilters
  SearchTexts <- MCTexts
  Queries <- MCQueries
  Width = 4
  Collections <- MCCollections
  Disks <- MCDisks
  RootSets <- MCRootSets
  ScanOptions <- MCScanOptions
  Repositories <- MCRepositories
  Forms <- MCForms
  Url <- MCUrl
  Checkouts <- MCCheckouts
  Trees <- MCTrees
  Contents <- MCContents
  Gone = Gone
  Unknown = Unknown
  t1 = t1
  t2 = t2
  Terminals <- MCTerminals
  MaxVersion = 2
  MaxTrouble = 1
  MaxChanges = 2
SPECIFICATION AnswersSpec
INVARIANTS ReportIsTrue AsksRatherThanGuesses NewestFirst BriefInOrder ListingsAgree SearchMeansAll ScanFindsAll OneIdentityPerRepository ReadAsGitWould CheckpointsReadBack
PROPERTIES AdviceEnds
CHECK_DEADLOCK FALSE
