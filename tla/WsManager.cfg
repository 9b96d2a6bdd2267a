\* Two connections of a gateway.
CONSTANTS
  Socket = {s1, s2}
SPECIFICATION PoolFairSpec
PROPERTIES GivenUpForCause DeadLeaveThePool
CHECK_DEADLOCK FALSE
