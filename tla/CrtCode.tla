------------------------------ MODULE CrtCode ------------------------------
(* The residue code of the sensors' readings: the firmware's encoder and   *)
(* two-residue decoder (esp32/main/crt_encode.c), the gateway's decoder    *)
(* (gateway/crt_decode.py) and the packing of a reading into one number    *)
(* (esp32/main/main.c).  A set of residues is a function on the indices of *)
(* the moduli that arrived.                                                *)
EXTENDS Integers, FiniteSets, FiniteSetsExt

CONSTANTS Modulus,        \* s_moduli, MODULI
          CRT_MAX_VALUE   \* the firmware's constant

Indices == 0..2

Coprime(a, b) == \A d \in 2..a : a % d # 0 \/ b % d # 0

ASSUME CrtAssumption ==
  /\ Modulus \in [Indices -> Nat \ {0, 1}]
  /\ \A i, j \in Indices : i # j => Coprime(Modulus[i], Modulus[j])
  /\ CRT_MAX_VALUE \in Nat

ProductOf(I) == ProductSet({Modulus[i] : i \in I})

MAX_VALUE == ProductOf(Indices)

-----------------------------------------------------------------------------
(* Both encoders.                                                          *)
Encodable(reading) == reading < CRT_MAX_VALUE
encode(reading) == [i \in Indices |-> reading % Modulus[i]]

InRange(residues) == \A i \in DOMAIN residues : residues[i] \in 0..(Modulus[i] - 1)

-----------------------------------------------------------------------------
(* The gateway's decoder, defined when at least two residues are in range. *)
Decodes(residues) == Cardinality(DOMAIN residues) >= 2 /\ InRange(residues)

(* Slip: the inverse is left out.                                          *)
mod_inverse_none(a, m) == 1

mod_inverse(a, m) == CHOOSE x \in 0..(m - 1) : (a * x) % m = 1

Term(residues, i) ==
  LET partial == ProductOf(DOMAIN residues) \div Modulus[i]
  IN  residues[i] * partial * mod_inverse(partial, Modulus[i])

decode(residues) ==
  MapThenSumSet(LAMBDA i : Term(residues, i), DOMAIN residues) % ProductOf(DOMAIN residues)

-----------------------------------------------------------------------------
(* The firmware's decoder, on residues a and b of two different indices:   *)
(* the first candidate in steps of one modulus that fits the other.        *)
NotFound == -1

Candidates(i, a) ==
  {a + k * Modulus[i] : k \in 0..((CRT_MAX_VALUE - 1 - a) \div Modulus[i])}

crt_decode(i, a, j, b) ==
  LET fits == {c \in Candidates(i, a) : c % Modulus[j] = b}
  IN  IF fits = {} THEN NotFound ELSE Min(fits)

-----------------------------------------------------------------------------
(* Soil moisture and a temperature bucket in one number.                   *)
READING_TEMP_BUCKETS == 201
MaxSoil == 4095

(* Slip: the soil value is not limited to the ADC's twelve bits.           *)
SoilUnclamped(soil) == soil

Soil(soil) == Min({soil, MaxSoil})

(* Division truncates towards zero; what it gives below zero is clamped.   *)
TempBucket(centi_c) ==
  IF centi_c + 5500 < 0 THEN 0
  ELSE Min({(centi_c + 5500) \div 100, READING_TEMP_BUCKETS - 1})

encode_sensor_value(soil, centi_c) == Soil(soil) * READING_TEMP_BUCKETS + TempBucket(centi_c)
=============================================================================
