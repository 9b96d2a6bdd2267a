\* Two alerts of one user, both false positives, one of them announced again behind a corrupt
\* message, whose dead letter the table as deployed refuses; the pipeline raises one alert while
\* the loops of a replica compensate the other.
CONSTANTS
  Message <- Four
  Event <- Two
  User <- OneUser
  Consumer = {c1}
  EventOf <- CopyOfFirst
  UserOf <- SameUser
  Corrupt <- Third
  StreamOf <- OneStream
  BATCH_SIZE = 2
  FromStart = FALSE
  MAX_CONSUMER_DELIVERIES = 2
  DeadLetterInsertable = FALSE
  MaxFaults = 1
SPECIFICATION FairSpec
INVARIANTS CompensatedOnce ScoreJustified
PROPERTIES ColumnsKept EventuallyCompensated
CHECK_DEADLOCK FALSE
