CONSTANTS
  w1 = w1
  w2 = w2
  Threads <- MCThreads
  Readings = {r1}
  MaxAttempts = 3
  MaxCalls = 2
  MaxTime = 0
SPECIFICATION ClientFairSpec
CHECK_DEADLOCK FALSE
PROPERTIES CallsAtMostOnce EveryInvocationEnds
