\* Two comments, and one change of the world around them.
CONSTANTS
  a = a r = r t = t no = no
  People <- MCPeople
  Nobody = no
  Author = a
  Members <- MCMembers
  Maintainers <- MCMaintainers
  First = r
  Items <- MCItems
  Bodies <- MCBodies
  AutoBodies <- MCAutoBodies
  MaxComments = 2
  MaxChanges = 1
SPECIFICATION Spec
INVARIANT HandoffIsReviewers
PROPERTIES HandoffsAdvance EntitledNow RunsAsPosted PathsAgree
CHECK_DEADLOCK FALSE
