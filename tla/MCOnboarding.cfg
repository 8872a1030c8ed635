SPECIFICATION Spec
CONSTANTS
  c1 = c1
  c2 = c2
  u1 = u1
  u2 = u2
  none = none
  NoCard <- none
  Cards <- OneCard
  Users <- OneUser
  UserOf <- OneOwner
  MaxAttempts = 2
  Faults = {"nc", "lostReply", "db", "smtp", "lostAck", "deck", "talk", "save"}
  PortalCards = {}
  MaxCrashes = 2
  MaxEdits = 2
INVARIANTS
  TypeOK
  CredentialsAfterRoster
  OnboardedCanLogIn
  MailedPasswordWorks
  NoSilentHalfOnboarding
