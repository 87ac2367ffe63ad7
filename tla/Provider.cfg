SPECIFICATION Spec
CONSTANTS
  Zones <- SomeZones
  Aliases <- SomeAliases
  Templates <- SomeTemplates
  Statuses = {304, 403, 429, 503}
  Ids = {"1", "12", "3", "4"}
  Hosts = {"www", "ww", "mail", "@"}
  NewIds = {"3", "4"}
  Long = {"mail"}
  Own = "example.com"
  Domains = {"example.com", "xample.com", "other.org"}
  Accounts <- SomeAccounts
  Cuts <- SomeCuts
  EndsWith <- SomeEndsWith
  Longer <- SomeLonger
  Shortened <- SomeShortened
  MaxRounds = 2
CHECK_DEADLOCK FALSE
INVARIANT TypeOK
INVARIANT RequestRight
INVARIANT AcceptedMeansDone
INVARIANT DoneMeansAccepted
INVARIANT OnlyNamedRecord
INVARIANT CreatesOnlyMissing
PROPERTY TokensWritten
