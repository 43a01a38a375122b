SPECIFICATION FairSpec
CONSTANTS
  Threads <- MCThreads
  Keys <- MCKeys
  Entries <- MCEntries
  Nobody = Nobody
  NoEntry = NoEntry
INVARIANTS
  MutualExclusion
  RetainedOnlyWhileUsed
PROPERTIES
  ImplementsKeyedMutex
  WaitersGetIn
