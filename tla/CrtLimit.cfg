CONSTANTS
  Modulus <- MCModulus
  CRT_MAX_VALUE = 1009591
  Readings <- EdgeReadings
  Soils <- MCSoils
  Temps <- MCTemps
SPECIFICATION Spec
INVARIANT AcceptedIsUnambiguous
