SPECIFICATION FairSpec
CONSTANTS
  m1 = m1
  m2 = m2
  m3 = m3
  r1 = r1
  r2 = r2
  nobody = nobody
  NoOne <- nobody
  Members <- Two
  Requests <- TwoRequests
  Kinds = {"page", "advance", "nominate"}
  Schedules <- Scheduled
  QuorumPct = 75
  MaxTime = 3
  MaxChanges = 1
PROPERTIES
  EndsComplete
CHECK_DEADLOCK FALSE
