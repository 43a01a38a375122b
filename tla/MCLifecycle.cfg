SPECIFICATION FairSpec
CONSTANTS
  Processes = {"first", "second"}
  Nobody = Nobody
  Resources <- MCResources
  Publisher = "publisher"
INVARIANTS
  OneApplication
  NothingIsLeft
PROPERTIES
  ScansAndPushesNeedTheGuard
  StartAndStopEnd
