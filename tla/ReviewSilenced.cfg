CONSTANTS
  ann = ann
  bob = bob
  cid = cid
  NoOne = NoOne
  People = {ann, bob, cid}
  Author = ann
  Writers = {bob}
  Candidates = {bob, cid}
  First = bob
  ItemKinds = {TRUE, FALSE}
  MaxTime = 2
  MaxHead = 2
  MaxEvents = 3
  MaxReassigned = 1
SPECIFICATION Spec
INVARIANT ReminderNotSuppressed
CHECK_DEADLOCK FALSE
