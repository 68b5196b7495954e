CONSTANTS
  r1 = r1
  r2 = r2
  device = device
  Main = main
  Threads = {main, s1}
  Readings = {r1, r2}
  Keys = {device}
  KeyOf <- MCKeyOf
  Signature <- MCForged
  MaxAttempts = 2
  MaxCalls = 4
  MaxTime = 0
  TTL = 1
  MaxLatency = 1
SPECIFICATION FairSpec
CHECK_DEADLOCK FALSE
INVARIANTS LiveIsCommitted
PROPERTY QueueDrains
