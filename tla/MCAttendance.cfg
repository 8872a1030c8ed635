SPECIFICATION AttendanceSpec
CONSTANTS
  Pages = {"attendance"}
  r1 = r1
  r2 = r2
  Requests <- OneRequest
  Starts = {11, 14}
  Ops = {"advance", "hold", "resume", "decline", "correct", "update", "pay", "annotate", "bounce", "complete"}
  MaxOps = 4
  ShopKeys = {"s1", "s4"}
  Unlisted = {"s1"}
  Start <- Nothing
  MaxShops = 2
  Asks = {1, 2}
  MaxActive = 2
  ShopRequests = 4
  MaxFaults = 1
  Tradocs = {"land"}
  Certs = {"tech"}
  Ribbons = {"multi"}
  Ftxs = {"f1", "f2"}
  FtxRibbons = {"multi"}
  Level <- LevelOf
  Date <- DateOf
  Attended = {"f1"}
  Claims = {1, 2, 3}
  Filed <- FiledOnes
  MaxDevices = 1
  TrainingRequests = 3
  m1 = m1
  e1 = e1
  e2 = e2
  Members <- OneMember
  Events <- TwoEvents
  Field <- TwoEvents
  Invited <- InvitedToFirst
  MaxRows = 3
  AttendanceRequests = 4
  MaxEdits = 1
INVARIANTS RecordsAgree AwardsMatchGrants
CHECK_DEADLOCK FALSE
