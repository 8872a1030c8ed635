SPECIFICATION FairSeparationSpec
CONSTANTS
  Persons = {m1}
  Statuses = {"active", "inactive"}
  SeparationOps = {"offboard", "reactivate", "leave"}
  SeparationRequests = 2
  MaxHandled = 2
  MaxFailures = 1
  MaxOutside = 1
INVARIANTS SeparationsAreInOrder
PROPERTY CleanedInTheEnd
CHECK_DEADLOCK FALSE
