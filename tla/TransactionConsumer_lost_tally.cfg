\* Three alerting events of one user, and the two loops of one replica.
CONSTANTS
  Message <- Three
  Event <- Three
  User <- OneUser
  Consumer = {c1}
  EventOf <- Own
  UserOf <- SameUser
  Alerting <- Three
  Corrupt = {}
  Poison = {}
  StreamOf <- OneStream
  BATCH_SIZE = 2
  FromStart = FALSE
  MAX_CONSUMER_DELIVERIES = 5
  DeadLetterInsertable = TRUE
  MaxFaults = 0
SPECIFICATION Spec
INVARIANTS TallyExact
CHECK_DEADLOCK FALSE
