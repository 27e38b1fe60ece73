\* Two runs that renew, save, retry, fail and take over from each other; a
\* PATCH may take effect at any later time.
CONSTANTS
  Runs = {r1, r2}
  NoRun = NoRun
  NoLock = NoLock
  TTL = 2
  Window = 1
  MaxWait = 4
  RetryLimit = 2
  Lag = 0
  MaxTime = 2
  MaxFaults = 1
  MaxMigrations = 1
SPECIFICATION BotSpec
SYMMETRY Interchangeable
INVARIANTS NoSilentSuccess NoLostUpdate
PROPERTY WrittenUnderLease
\* every run ends, and the clock stops at MaxTime
CHECK_DEADLOCK FALSE
