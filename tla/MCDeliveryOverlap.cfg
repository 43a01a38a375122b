SPECIFICATION FairSpec
CONSTANTS
  Opps = {1, 2}
  Lineages <- MCOneListing
  Lineage <- MCOne2
  Profit <- MCProfit2
  Improvement = 2
  Manual = {1}
  Threads = {"main", "scan"}
  Main = "main"
  Nobody = Nobody
  Modes = {"live", "dry", "mute"}
  Statuses = {"passed"}
  PageSize = 1
INVARIANTS
  AtMostOnce
  ReservedBeforeSent
  TableIsTrue
  NobodyWaitsInsideTheLock
PROPERTIES
  NoPushAfterTerminalOutcome
  ImplementsLedger
  LocksComeBack
  SweepReachesBacklog
