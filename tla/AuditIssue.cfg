\* Two baselines and a drift that comes and goes, with a report that changes
\* without it; a call goes wrong or a run dies, somebody edits or saves a form.
CONSTANTS
  Campaigns = {c1, c2}
  Texts = {t1, t2}
  Plain = t1
  Clean = Clean
  Drifts = {Clean, d1}
  MaxChanges = 2
  MaxFaults = 1
  MaxEdits = 1
SPECIFICATION FairSpec
INVARIANTS HistorySound OneIssuePerCampaign SuccessMeansRecorded
PROPERTY CatchesUp
