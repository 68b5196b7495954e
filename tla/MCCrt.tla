------------------------------- MODULE MCCrt -------------------------------
(* Boundaries of the real moduli and of the measurements, and readings     *)
(* spread over the whole range.                                            *)
EXTENDS CrtCheck, TLC

MCModulus == 0 :> 97 @@ 1 :> 101 @@ 2 :> 103

MCSoils == {0, 1, 51, 52, 2047, 4095, 4096, 65535}
MCTemps == {-32768, -5501, -5500, -5401, -5400, 2150, 14499, 14500, 14600, 32767}

EdgeReadings ==
  {0, 1, 96, 97, 9796, 9797, 9990, 9991, 10402, 10403, 500000, 823295, 1009090, 1009091, 1009590}

SensorReadings == {Packed(m) : m \in Measured}
SpreadReadings == {k * 39119 : k \in 0..25}
MCReadings == EdgeReadings \cup SensorReadings \cup SpreadReadings
=============================================================================
