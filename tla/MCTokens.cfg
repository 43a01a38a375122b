SPECIFICATION FairSpec
CONSTANTS
  t1 = t1
  t2 = t2
  t3 = t3
  Callers <- MCThree
  Times <- MCTimes
  Lifetimes <- MCLifetimes
  MaxCalls = 1
INVARIANTS
  WaiterFindsItsResult
  NothingIsKept
  RetryHasANewerToken
PROPERTIES
  NewTokenIsNeeded
  CallsEnd
\* A finished instance stops: every caller has made its requests.
CHECK_DEADLOCK FALSE
