\* A poison event, a corrupt message and a good one behind it, at the default
\* threshold and under the dead-letter table as deployed.
CONSTANTS
  Message <- Three
  Event <- Three
  User <- OneUser
  Consumer = {c1}
  EventOf <- Own
  UserOf <- SameUser
  Alerting = {}
  Corrupt <- Second
  Poison <- First
  StreamOf <- OneStream
  BATCH_SIZE = 2
  FromStart = FALSE
  MAX_CONSUMER_DELIVERIES = 5
  DeadLetterInsertable = FALSE
  MaxFaults = 0
SPECIFICATION FairSpec
PROPERTIES StalledRecovered
CHECK_DEADLOCK FALSE
