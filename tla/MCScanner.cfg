SPECIFICATION FairSpec
CONSTANTS
  Connectors <- MCConnectors
  Snapshots <- MCSnapshots
  SourceOf <- MCSourceOf
  EventOf <- MCEventOf
  Pairs <- MCPairs
  MaxRuns = 4
INVARIANTS
  RunRowTellsTruth
  ScoredOnce
  OfferedIsCommitted
PROPERTIES
  EverythingIsOffered
  ScanEnds
