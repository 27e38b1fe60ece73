\* An issue, and a pull request: two calls go wrong, people intervene twice.
SPECIFICATION FairSpec
CONSTANTS
  ann = ann
  bob = bob
  cid = cid
  NoOne = NoOne
  People <- Three
  Author = cid
  Kinds = {TRUE, FALSE}
  MaxFaults = 2
  MaxHumans = 2
INVARIANT MismatchMarked
PROPERTIES NewReviewerIsLive AgreeInTheEnd
