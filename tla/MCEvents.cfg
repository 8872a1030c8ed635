SPECIFICATION EventsSpec
CONSTANTS
  Pages = {"orders", "series", "rotation", "schedule", "guard", "duty", "teams"}
  MaxActive = 2
  MaxRequests = 3
  MaxFaults = 1
  Members = {"m1"}
  MaxCopies = 2
  MaxEdits = 1
  Ids = {1, 2, 3, 4}
  Before <- ThreeMonths
  Period = 2
  Slack = 1
  Kinds <- OneKind
  MaxCount = 2
  Ends = {6}
  CalDates = {4, 5}
  MaxTexts = 2
  MaxDay = 3
  MaxMoves = 1
  Instructors = {"a", "b", "c"}
  TeachingDays = {1, 2, 3, 4}
  Pools <- OneGroup
  Leaves <- LeaveDays
  Browsers = {"p1"}
  MaxSteps = 3
  BlockIds = {1, 2, 3}
  EventDays = {1, 2}
  Times = {1, 2, 3}
  Comrades = {"a", "b"}
  Guests = {"g"}
  TeamMates = {"a"}
  Vexes = {"v", "w"}
  MaxSlots = 2
  ConsoleRequests = 4
INVARIANTS
  OrdersAreInOrder
  GoingAreTold
  RowsAreInOrder
  RotationIsFair
  ScheduleIsInOrder
  ConsoleIsInOrder
CHECK_DEADLOCK FALSE
