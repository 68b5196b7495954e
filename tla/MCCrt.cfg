CONSTANTS
  Modulus <- MCModulus
  CRT_MAX_VALUE = 1009591
  Readings <- MCReadings
  Soils <- MCSoils
  Temps <- MCTemps
SPECIFICATION Spec
INVARIANTS DecodeIsReading SensorValuesSurvive CorrectedRecovers
