\* A run that never gives up waiting, and a clock that outlasts a lease.
CONSTANTS
  Runs = {r1, r2}
  NoRun = NoRun
  NoLock = NoLock
  TTL = 1
  Window = 0
  MaxWait = 5
  RetryLimit = 1
  Lag = 1
  MaxTime = 2
  MaxFaults = 1
SPECIFICATION FairSpec
PROPERTY WaiterServed
\* every run ends, and the clock stops at MaxTime
CHECK_DEADLOCK FALSE
