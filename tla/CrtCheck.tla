------------------------------ MODULE CrtCheck ------------------------------
(* Readings through the residue code: a reading is encoded, two or three   *)
(* of its residues arrive, and the gateway or the firmware decodes them.   *)
EXTENDS CrtCode, CrtAnalysis

CONSTANTS Readings,     \* the readings tried
          Soils, Temps  \* what the sensors measure: ADC counts, 1/100 degrees

(* The moduli are those deployed, and the encoder accepts every packed      *)
(* value.                                                                   *)
ASSUME CheckAssumption ==
  /\ Readings \subseteq Nat /\ Soils \subseteq Nat /\ Temps \subseteq Int
  /\ \A i \in Indices : Modulus[i] = MODULI_DEPLOYED[i + 1]
  /\ CRT_MAX_VALUE >= (MaxSoil + 1) * READING_TEMP_BUCKETS

VARIABLES reading, arrived

vars == <<reading, arrived>>

Arrivals == {I \in SUBSET Indices : Cardinality(I) >= 2}

Init == reading \in {r \in Readings : Encodable(r)} /\ arrived \in Arrivals

Transmit(r, I) == Encodable(r) /\ reading' = r /\ arrived' = I

Next == \E r \in Readings, I \in Arrivals : Transmit(r, I)

Spec == Init /\ [][Next]_vars

Received == [i \in arrived |-> encode(reading)[i]]

(* The gateway's decode gives the reading modulo the product of the moduli  *)
(* that arrived (crt_decode.py:55-79): three residues give the reading      *)
(* back, two do when it lies below the product of their moduli, and the     *)
(* firmware's search finds on every two, in either order, what the          *)
(* gateway's formula gives (crt_encode.c:38-62).                            *)
DecodeIsReading ==
  /\ decode(Received) = reading % ProductOf(arrived)
  /\ \A i, j \in arrived : i # j =>
       crt_decode(i, encode(reading)[i], j, encode(reading)[j])
         = decode([k \in {i, j} |-> encode(reading)[k]])

Measured == [soil : Soils, centi_c : Temps]

Packed(m) == encode_sensor_value(m.soil, m.centi_c)

(* Whatever the sensors measure is packed into a number that the encoder    *)
(* accepts, and from what three residues give back the measurement, within  *)
(* its range, can be read again (main.c:67-80, crt_encode.c:22-36).  The    *)
(* paper's analysis packs it into the same number, though it divides with   *)
(* floor where the firmware truncates (05_crt_quantization.py:39-42).       *)
SensorValuesSurvive ==
  \A m \in Measured :
    /\ Encodable(Packed(m))
    /\ Packed(m) = reading =>
         LET back == decode(encode(reading))
         IN  /\ back \div READING_TEMP_BUCKETS = Min({m.soil, MaxSoil})
             /\ back % READING_TEMP_BUCKETS = TempBucket(m.centi_c)
             /\ encode_packed(m.soil, m.centi_c) = reading

Corrected == INSTANCE CrtCode WITH
  Modulus <- [i \in Indices |-> MODULI_CORRECTED[i + 1]], CRT_MAX_VALUE <- legal_domain_max + 1

SoilOf(packed) == packed \div TEMP_BUCKETS

(* The correction the analysis proposes repairs the code                    *)
(* (05_crt_quantization.py:54-97): the readings it calls beyond the         *)
(* smallest bound are those that the two smallest moduli alone lose, and    *)
(* with its moduli and the soil value cut to eight bits any two residues    *)
(* give the reading back, the soil value at most 15 counts off, and at most *)
(* half a step with rounding.                                               *)
CorrectedRecovers ==
  /\ reading < MAX_VALUE /\ arrived = {0, 1} => (exceeds_min(reading) <=> decode(Received) # reading)
  /\ SoilOf(reading) <= MaxSoil =>
       LET kept == bucket_trunc(SoilOf(reading)) * TEMP_BUCKETS + (reading % TEMP_BUCKETS)
       IN  /\ below_min_pairwise_bound /\ Corrected!Encodable(kept)
           /\ Cardinality(arrived) = 2 =>
                Corrected!decode([i \in arrived |-> Corrected!encode(kept)[i]]) = kept
           /\ err_trunc(SoilOf(reading)) \in 0..15
           /\ bucket_round(SoilOf(reading)) \in 0..255 /\ 2 * err_round(SoilOf(reading)) <= 4095

(* What DECISIONS.md:16 says: every value the encoder accepts is in the     *)
(* unambiguous range.                                                       *)
AcceptedIsUnambiguous == decode(encode(reading)) = reading
=============================================================================
