CONSTANTS
  bob = bob
  cid = cid
  People = {bob, cid}
  First = bob
  Deadline = 2
  Period = 2
  PageSize = 2
  MaxActs = 3
  MaxFaults = 3
SPECIFICATION FairSpec
INVARIANT SavedIsTrue
PROPERTIES PromiseKept Escalates
CHECK_DEADLOCK FALSE
