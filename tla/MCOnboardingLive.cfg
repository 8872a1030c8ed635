SPECIFICATION FairSpec
CONSTANTS
  c1 = c1
  c2 = c2
  u1 = u1
  u2 = u2
  none = none
  NoCard <- none
  Cards <- OneCard
  Users <- OneUser
  UserOf <- OneOwner
  MaxAttempts = 2
  Faults = {"nc", "lostReply", "lastLogin", "db", "smtp", "lostAck", "deck", "talk", "save"}
  PortalCards = {c1}
  MaxCrashes = 1
  MaxEdits = 1
PROPERTIES
  BoundedRetry
