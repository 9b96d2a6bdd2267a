\* A request that is sent three times.
CONSTANTS
  Submission = {s1, s2, s3}
  Key <- OneKey
  KeyOf <- SameKey
SPECIFICATION FlowFairSpec
INVARIANTS SecondRowOnlyByOverlap AnswerIsBacked
PROPERTIES AcceptedIsProcessed
CHECK_DEADLOCK FALSE
