SPECIFICATION FairSpec
CONSTANTS
  i1 = i1
  i2 = i2
  a1 = a1
  a2 = a2
  d1 = d1
  d2 = d2
  loop = loop
  Loop = loop
  Issues <- OneIssue
  Attachments <- OneAttachment
  Deliveries <- OneDelivery1
  Ops <- OpKinds
  MaxAttached = 1
  MaxRequests = 3
  MaxFaults = 1
  MaxActive = 2
INVARIANTS IssuesAreInOrder
PROPERTY DueIsHandled
CHECK_DEADLOCK FALSE
