SPECIFICATION Spec
CONSTANTS
  m1 = m1
  m2 = m2
  m3 = m3
  r1 = r1
  r2 = r2
  nobody = nobody
  NoOne <- nobody
  Members <- Two
  Requests <- TwoRequests
  Kinds = {"page", "advance", "nominate", "accept", "decline", "vote"}
  Schedules <- AnyOrder
  QuorumPct = 75
  MaxTime = 2
  MaxChanges = 1
SYMMETRY Symmetry
INVARIANTS
  TypeOK
  BallotsMatchRoll
  BallotsForCandidates
  NominationsMatchReceipts
PROPERTIES
  BoxSpec
CHECK_DEADLOCK FALSE
