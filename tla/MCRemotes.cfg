CONSTANTS
  Configurations <- MCConfigurations
  Repos <- MCRepos
  Discovered <- MCDiscovered
  Unknown <- MCUnknown
  PageSize = 2
  MaxFailures = 2
  MaxPage = 3
SPECIFICATION FairSpec
INVARIANT FetchExact
PROPERTY FetchReturns
CHECK_DEADLOCK FALSE
