SPECIFICATION FairSpec
CONSTANTS
  s1 = s1
  none = none
  NoSub <- none
  Subs <- OneSub
  Applications <- Everyone
  Faults = {"deck", "lostReply", "list", "db", "smtp", "lostAck", "forward", "save", "dryRun", "notice"}
  MaxCards = 3
  MaxFaults = 1
  MaxCrashes = 1
  MaxEdits = 1
INVARIANTS
  ApplicationsAreKept
  BlacklistedNeverSilently
PROPERTIES
  SubmissionsHandled
  PaymentAsked
