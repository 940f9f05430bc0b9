SPECIFICATION FairSyncSpec
CONSTANTS
  Dispatchers = {"d1", "d2"}
  NoRecipients = {2}
  BatchSize = 2
  MaxEvents = 3
  MaxFaults = 2
  Ineligible = {1}
  PageLimit = 1
  MaxConnections = 2
  MaxLeaks = 1
  MaxSecrets = 1
CHECK_DEADLOCK FALSE
INVARIANTS
  HonestClientKept
PROPERTIES
  EveryEventPublished
  ImplementsEventLog
