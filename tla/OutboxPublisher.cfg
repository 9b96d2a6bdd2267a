\* Three events, two replicas, batches of two, one lost transaction; XADD may
\* fail at every attempt.
CONSTANTS
  Event <- ThreeEvents
  Publisher = {p1, p2}
  BATCH_SIZE = 2
  MAX_RETRIES = 2
  DeadLetterInsertable = TRUE
  MaxAborts = 1
  MaxCopies = 4
SPECIFICATION FairSpec
INVARIANTS TypeOK PublishedWasDelivered DuplicatesAccounted DeadLetterLedger
PROPERTIES SettledIsFinal ImplementsDelivery EventuallySettled
CHECK_DEADLOCK FALSE
