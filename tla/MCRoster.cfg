SPECIFICATION Spec
CONSTANTS
  m1 = m1
  m2 = m2
  a = a
  b = b
  c = c
  Members <- TwoMembers
  Teams <- ThreeTeams
  Letter <- Letters
  Start <- LeaderAndRecruit
  TopRank = 2
  NCO = 2
  MaxStages = 2
  MaxActive = 2
  MaxRequests = 3
  MaxFaults = 1
INVARIANTS MembersAreInOrder GroupsFollow
PROPERTY StagedOnce
CHECK_DEADLOCK FALSE
