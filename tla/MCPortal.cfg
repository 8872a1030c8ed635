SPECIFICATION PortalSpec
CONSTANTS
  Pages = {"payments", "supplies", "notices", "signins", "sessions"}
  t1 = t1
  t2 = t2
  h1 = h1
  h2 = h2
  rae = rae
  max = max
  c1 = c1
  c2 = c2
  none = none
  None <- none
  Txns <- TwoTxns
  Handlers <- TwoHandlers
  Members <- Roster
  Recruits <- Owing
  Cards <- Pipeline
  Namesakes <- Twins
  Meals <- TwoFtx
  Eater <- MaxEats
  Price <- Prices
  Payments <- AllKinds
  Faults = {"payer", "board", "annotate", "notify", "audit", "db"}
  MaxFaults = 1
  MaxCrashes = 1
  Cases = {"e1", "e2", "p1", "d1", "p2", "d2", "m"}
  Kind <- KindOf
  Items = {"i1", "i2", "i3"}
  Start <- Begun
  Shelf = {"i1"}
  Heads = {"head"}
  Command = {"co"}
  MaxActive = 2
  SupplyRequests = 3
  AnnIds = {1, 2, 3}
  NoticeRequests = 4
  Tabs = {tab1, tab2}
  Accounts = {"a"}
  GroupSets <- SomeGroups
  Window = 1
  Interval = 2
  Cap = 1
  MaxTime = 3
  MaxFlows = 2
  MaxAsks = 2
  MaxChanges = 1
  SignInAsks = 1
  SignInTime = 2
  BrowsingFlows = 1
SYMMETRY Symmetry
INVARIANTS
  PaymentsCountOnce
  PaymentsAreAccounted
  DeskIsStraight
  EverybodyIsTold
  SessionsAreInOrder
CHECK_DEADLOCK FALSE
