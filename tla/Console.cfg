\* One gateway with its two loops, three stream entries of which the first may
\* be corrupt, at most three statuses, one request at a time; one crash,
\* failing call or dropped connection.
CONSTANTS
  Message <- Three
  StreamOf <- TwoStreams
  Consumer = {g1}
  BATCH_SIZE = 1
  FromStart = TRUE
  MayBeCorrupt = {1}
  MaxFaults = 1
  Decision = {"APPROVED"}
  Request = {1}
SPECIFICATION Spec
INVARIANTS TypeOK StaleOnlyForCause AckedIsForwarded
CHECK_DEADLOCK FALSE
