\* Two runs, every kind of failure once, reads that miss one update.
CONSTANTS
  Runs = {r1, r2}
  NoRun = NoRun
  NoLock = NoLock
  TTL = 2
  Window = 1
  MaxWait = 2
  RetryLimit = 2
  Lag = 1
  MaxTime = 4
  MaxFaults = 1
SPECIFICATION Spec
SYMMETRY Interchangeable
INVARIANTS LeaseExclusive ReleasedForGood
PROPERTIES NoTheft ImplementsLease
\* every run ends, and the clock stops at MaxTime
CHECK_DEADLOCK FALSE
