CONSTANTS
  Modulus <- MCModulus
  CRT_MAX_VALUE = 105
  Keys = {k1, k2}
  Values = {4, 17}
  Wild = 255
  Timeout = 2
  SleepCycle = 2
  MaxWakes = 2
  MaxAltered = 1
  MaxTime = 3
SPECIFICATION Spec
SYMMETRY Symmetry
CHECK_DEADLOCK FALSE
INVARIANTS ReceiverTypeOK DeliveredOnce DeliveredIsMeasured LossIsTolerated
