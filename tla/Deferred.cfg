SPECIFICATION Spec
CONSTANTS
  c1 = c1
  m1 = m1
  r1 = r1
  Comments <- MCComments
  Commands <- MCCommands
  Reviews <- MCReviews
  Flawed <- MCFlawed
  Overlap = 1
  MissingAfter = 1
  Correlation = 0
  Window = 2
  Retention = 1
  MaxTime = 4
  MaxEvents = 2
  MaxFaults = 1
  MaxReruns = 1
CHECK_DEADLOCK FALSE
INVARIANTS AppliedOnce RowIsTrue Accounted
PROPERTY TakenFromItsRun
