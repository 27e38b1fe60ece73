SPECIFICATION QueueSpec
CONSTANTS
  ann = ann
  bob = bob
  cid = cid
  issue = issue
  Nobody = Nobody
  Listing <- ThreeListed
  Items <- OneIssue
  Authors <- WrittenByCid
  LastDay = 1
  MaxEdits = 1
INVARIANTS QueueSound LineKept
PROPERTIES PassMovesOn NobodyForgotten ReturnsInTime
CHECK_DEADLOCK FALSE
