SPECIFICATION SettlingSpec
CONSTANTS
  ChatMessages = {c1}
  Maintainers = {w1, w2}
  MaxReceiptAttempts = 2
  MaxChatEdits = 2
  Occurrences = {1}
  Senders = {x1}
  MaxTries = 2
  Wants <- MCWants
  MaxEdits = 1
  MaxStops = 1
CHECK_DEADLOCK FALSE
PROPERTIES
  ReceiptsClose
  NotificationsSettle
