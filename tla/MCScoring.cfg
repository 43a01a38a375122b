SPECIFICATION Spec
CONSTANTS
  Names = {"L1", "L2", "L3", "M2", "A", "101", "300"}
  Teams = {"texans", "aggies"}
  Listings <- MCListings
  Summaries <- MCSummaries
  Waits = {75}
  Pairs <- MCPairs
  Kickoff <- MCKickoff
  Base <- MCBase
  Submissions <- MCSubmissions
  MaxRows = 3
  MaxNow = 225
INVARIANTS
  QuantileIsAQuantile
  HardLimitsHold
PROPERTIES
  PromisesAreBacked
  AgingNeverRaisesConfidence
  CheapReportsNeverRaisePrices
