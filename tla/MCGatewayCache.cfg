CONSTANTS
  r1 = r1
  r2 = r2
  device = device
  Main = main
  Threads = {main, s1}
  Readings = {r1, r2}
  Keys = {device}
  KeyOf <- MCKeyOf
  Signature <- MCSignature
  MaxAttempts = 1
  MaxCalls = 3
  MaxTime = 4
  TTL = 2
  MaxLatency = 1
SPECIFICATION Spec
CHECK_DEADLOCK FALSE
INVARIANTS GatewayTypeOK
PROPERTY StaleDecisionBounded
