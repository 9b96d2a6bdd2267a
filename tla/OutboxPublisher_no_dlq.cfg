\* Under the table as deployed, is a failing event ever handed over?
CONSTANTS
  Event <- TwoEvents
  Publisher = {p1}
  BATCH_SIZE = 2
  MAX_RETRIES = 2
  DeadLetterInsertable = FALSE
  MaxAborts = 0
  MaxCopies = 2
SPECIFICATION FairSpec
PROPERTIES EventuallySettled
CHECK_DEADLOCK FALSE
