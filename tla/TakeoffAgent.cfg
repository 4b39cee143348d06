SPECIFICATION FairSpec
CONSTANTS
  MaxShards = 2
  MaxPageSize = 2
  PageSize = 2
  MaxWaits = 2
  Reports <- MCReports
  NoReport <- MCNoReport
  References <- MCReferences
  Postconditions = {"reported"}
  MaxCalls = 3
INVARIANTS
  ListingIsWhole
  ReportIsTrue
PROPERTIES
  HonestWait
  WaitEnds
