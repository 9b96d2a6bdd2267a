\* The two loops of one replica over two events of one user, a second copy of
\* the first and, between them, a corrupt message, at a threshold that
\* reclaimed messages just reach; one crash or failing call.
CONSTANTS
  Message <- Four
  Event <- Three
  User <- OneUser
  Consumer = {c1}
  EventOf <- DuplicateOf
  UserOf <- SameUser
  Alerting <- Three
  Corrupt <- Second
  Poison = {}
  StreamOf <- OneStream
  BATCH_SIZE = 2
  FromStart = FALSE
  MAX_CONSUMER_DELIVERIES = 2
  DeadLetterInsertable = TRUE
  MaxFaults = 1
SPECIFICATION FairSpec
INVARIANTS TypeOK ExactlyOnceEffects AckedIsSettled TallyNotInflated OnlyCorruptDeadLettered
PROPERTIES EventuallyAcked KeepsPromise
CHECK_DEADLOCK FALSE
