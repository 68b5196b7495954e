----------------------------- MODULE CrtProofs -----------------------------
(* Theorems about CrtCheck: the residue code gives every reading and every *)
(* measurement back, for all readings, all measurements and, but for the   *)
(* correction of the deployed ones, all coprime moduli.                    *)
EXTENDS CrtCheck, CrtCodeProofs

CorrectedProofs == INSTANCE CrtCodeProofs WITH
  Modulus <- [i \in Indices |-> MODULI_CORRECTED[i + 1]], CRT_MAX_VALUE <- legal_domain_max + 1

-----------------------------------------------------------------------------
(* Every state holds a reading the encoder accepts and two residues at     *)
(* least.                                                                  *)
CrtInv == reading \in Nat /\ Encodable(reading) /\ arrived \in Arrivals

LEMMA CrtInvariance == Spec => []CrtInv
<1>1. Init => CrtInv
  BY CheckAssumption DEF Init, CrtInv
<1>2. CrtInv /\ [Next]_vars => CrtInv'
  BY CheckAssumption DEF CrtInv, Next, Transmit, vars, Encodable
<1> QED
  BY <1>1, <1>2, PTL DEF Spec

(* The gateway's decode gives the reading modulo the product of the moduli  *)
(* that arrived, and the firmware's search gives the same on every two      *)
(* (crt_decode.py:55-79, crt_encode.c:38-62).                               *)
THEOREM DecodeIsReadingAlways == Spec => []DecodeIsReading
<1>1. ASSUME CrtInv PROVE DecodeIsReading
  <2>1. /\ reading \in Nat /\ reading \in Int /\ reading < CRT_MAX_VALUE
        /\ arrived \in SUBSET Indices /\ Cardinality(arrived) >= 2
    BY <1>1 DEF CrtInv, Encodable, Arrivals
  <2>2. decode(Received) = reading % ProductOf(arrived)
    <3>1. decode(Arriving(reading, arrived)) = reading % ProductOf(arrived)
      BY <2>1, DecodeInverts, Zenon
    <3> QED
      BY <3>1, Zenon DEF Received, Arriving
  <2>3. ASSUME NEW i \in arrived, NEW j \in arrived, i # j
        PROVE  crt_decode(i, encode(reading)[i], j, encode(reading)[j])
                 = decode([k \in {i, j} |-> encode(reading)[k]])
    <3>1. i \in Indices /\ j \in Indices
      BY <2>1
    <3>2. decode(Arriving(reading, {i, j})) = reading % ProductOf({i, j})
      BY <2>1, <2>3, <3>1, PairDecodes, Zenon
    <3>3. encode(reading)[i] = reading % Modulus[i] /\ encode(reading)[j] = reading % Modulus[j]
      BY <3>1, Zenon DEF encode
    <3>4. crt_decode(i, reading % Modulus[i], j, reading % Modulus[j]) = reading % ProductOf({i, j})
      BY <2>1, <2>3, <3>1, FirmwareDecodes, Zenon
    <3> QED
      BY <3>2, <3>3, <3>4, Zenon DEF Arriving
  <2> QED
    BY <2>2, <2>3, Zenon DEF DecodeIsReading
<1>2. CrtInv => DecodeIsReading
  BY <1>1
<1> QED
  BY <1>2, CrtInvariance, PTL

-----------------------------------------------------------------------------
(* What the sensors measure.                                               *)
LEMMA MinPair ==
  ASSUME NEW a \in Int, NEW b \in Int
  PROVE  Min({a, b}) = IF a <= b THEN a ELSE b
<1>1. CASE a <= b
  <2>1. {a, b} \in SUBSET Int /\ a \in {a, b} /\ \A y \in {a, b} : a <= y
    BY <1>1
  <2> QED
    BY <1>1, <2>1, MinIs
<1>2. CASE ~(a <= b)
  <2>1. {a, b} \in SUBSET Int /\ b \in {a, b} /\ \A y \in {a, b} : b <= y
    BY <1>2
  <2> QED
    BY <1>2, <2>1, MinIs
<1> QED
  BY <1>1, <1>2

LEMMA MaxPair ==
  ASSUME NEW a \in Int, NEW b \in Int
  PROVE  Max({a, b}) = IF a >= b THEN a ELSE b
<1> DEFINE S == {a, b}
<1>1. \E x \in S : \A y \in S : x >= y
  OBVIOUS
<1>2. Max(S) \in S /\ \A y \in S : Max(S) >= y
  <2> HIDE DEF S
  <2> QED
    BY <1>1 DEF Max
<1> HIDE DEF S
<1>3. (Max(S) = a \/ Max(S) = b) /\ Max(S) >= a /\ Max(S) >= b
  BY <1>2 DEF S
<1>4. Max(S) = IF a >= b THEN a ELSE b
  BY <1>3
<1> QED
  BY <1>4 DEF S

(* The firmware and the analysis limit the soil value in the same way.      *)
LEMMA SoilBounded ==
  ASSUME NEW soil \in Nat
  PROVE  \E s \in Nat : s <= 4095 /\ s = Soil(soil) /\ s = clip(soil, 0, 4095)
<1>1. Soil(soil) = IF soil <= 4095 THEN soil ELSE 4095
  BY MinPair DEF Soil, MaxSoil
<1>2. PICK s \in Nat : s <= 4095 /\ s = Soil(soil) /\ s = Min({soil, 4095})
  BY <1>1 DEF Soil, MaxSoil
<1>3. Max({0, s}) = s
  BY MaxPair
<1> QED
  BY <1>2, <1>3 DEF clip

(* The firmware's truncating division and the analysis's floor give the     *)
(* same bucket.                                                             *)
LEMMA BucketBounded ==
  ASSUME NEW centi_c \in Int
  PROVE  /\ TempBucket(centi_c) \in 0 .. 200
         /\ clip((centi_c + 5500) \div 100, 0, TEMP_BUCKETS - 1) = TempBucket(centi_c)
<1>1. PICK x \in Int : x = centi_c + 5500
  OBVIOUS
<1>2. PICK q \in Int, r \in 0 .. 99 : x = 100 * q + r /\ q = x \div 100
  BY <1>1
<1>3. x < 0 <=> q < 0
  BY <1>2
<1>4. PICK least \in Int : least = Min({q, 200}) /\ least = IF q <= 200 THEN q ELSE 200
  BY MinPair
<1>5. Max({0, least}) = IF 0 >= least THEN 0 ELSE least
  BY MaxPair
<1>6. TempBucket(centi_c) = IF x < 0 THEN 0 ELSE least
  <2> DEFINE both == {(centi_c + 5500) \div 100, 200}
  <2>1. both = {q, 200}
    BY <1>1, <1>2, SMT
  <2>2. Min(both) = least
    <3> HIDE DEF both
    <3> QED
      BY <1>4, <2>1, Zenon
  <2>3. centi_c + 5500 < 0 <=> x < 0
    BY <1>1, SMT
  <2>4. READING_TEMP_BUCKETS - 1 = 200
    BY DEF READING_TEMP_BUCKETS
  <2> QED
    BY <2>2, <2>3, <2>4, SMT DEF TempBucket
<1>7. clip((centi_c + 5500) \div 100, 0, TEMP_BUCKETS - 1) = Max({0, least})
  <2>1. TEMP_BUCKETS - 1 = 200
    BY DEF TEMP_BUCKETS
  <2>2. clip(q, 0, 200) = Max({0, least})
    BY <1>4, Zenon DEF clip
  <2>3. (centi_c + 5500) \div 100 = q
    BY <1>1, <1>2, SMT
  <2> QED
    BY <2>1, <2>2, <2>3, SMT
<1> QED
  BY <1>3, <1>4, <1>5, <1>6, <1>7

LEMMA EncodedParts ==
  ASSUME NEW soil \in Nat, NEW centi_c \in Int,
         NEW p, p = encode_sensor_value(soil, centi_c)
  PROVE  /\ p \in Nat /\ p < (MaxSoil + 1) * READING_TEMP_BUCKETS
         /\ p \div 201 = Soil(soil) /\ p % 201 = TempBucket(centi_c)
         /\ encode_packed(soil, centi_c) = p
<1>1. PICK s \in Nat : s <= 4095 /\ s = Soil(soil) /\ s = clip(soil, 0, 4095)
  BY SoilBounded
<1>2. PICK t \in 0 .. 200 : /\ t = TempBucket(centi_c)
                            /\ t = clip((centi_c + 5500) \div 100, 0, TEMP_BUCKETS - 1)
  BY BucketBounded, SMTT(30)
<1>3. READING_TEMP_BUCKETS = 201 /\ TEMP_BUCKETS = 201
  BY DEF READING_TEMP_BUCKETS, TEMP_BUCKETS
<1>4. p = s * 201 + t
  BY <1>1, <1>2, <1>3, SMT DEF encode_sensor_value
<1>5. encode_packed(soil, centi_c) = s * 201 + t
  BY <1>1, <1>2, <1>3, SMT DEF encode_packed
<1>6. p \in Nat /\ p < (MaxSoil + 1) * READING_TEMP_BUCKETS
  BY <1>1, <1>3, <1>4, SMT DEF MaxSoil
<1>7. p % 201 = t /\ p \div 201 = s
  BY <1>4, SMT
<1> QED
  BY <1>1, <1>2, <1>4, <1>5, <1>6, <1>7, SMT

LEMMA PackedParts ==
  ASSUME NEW m \in Measured
  PROVE  /\ Packed(m) \in Nat /\ Packed(m) < (MaxSoil + 1) * READING_TEMP_BUCKETS
         /\ Packed(m) \div 201 = Soil(m.soil) /\ Packed(m) % 201 = TempBucket(m.centi_c)
         /\ encode_packed(m.soil, m.centi_c) = Packed(m)
<1>1. m.soil \in Nat /\ m.centi_c \in Int
  BY CheckAssumption DEF Measured
<1> QED
  BY <1>1, EncodedParts, Zenon DEF Packed

LEMMA DeployedProduct ==
  /\ Modulus[0] = 97 /\ Modulus[1] = 101 /\ Modulus[2] = 103
  /\ ProductOf(Indices) = 97 * 101 * 103 /\ ProductOf({0, 1}) = 97 * 101
<1>1. Modulus[0] = 97 /\ Modulus[1] = 101 /\ Modulus[2] = 103
  BY CheckAssumption DEF MODULI_DEPLOYED, Indices
<1>2. ProductOf(Indices) = 97 * 101 * 103
  <2>1. PICK m \in Int, n \in Int, k \in Int : m = 97 /\ n = 101 /\ k = 103
    OBVIOUS
  <2>2. ProductOf(Indices) = m * n * k
    BY <1>1, <2>1, ProductOfAll, SMT
  <2> QED
    BY <2>1, <2>2, SMT
<1>3. ProductOf({0, 1}) = 97 * 101
  <2>1. 0 \in Indices /\ 1 \in Indices /\ 0 # 1
    BY DEF Indices
  <2>2. ProductOf({0, 1}) = Modulus[0] * Modulus[1]
    BY <2>1, ProductOfPair, Zenon
  <2> QED
    BY <1>1, <2>2, SMT
<1> QED
  BY <1>1, <1>2, <1>3

(* Whatever is measured is packed into a number the encoder accepts, and    *)
(* what three residues give back is the measurement within its range        *)
(* (main.c:67-80, crt_encode.c:22-36, 05_crt_quantization.py:39-42).        *)
THEOREM SensorValuesAlwaysSurvive == Spec => []SensorValuesSurvive
<1>1. ASSUME CrtInv PROVE SensorValuesSurvive
  <2> SUFFICES ASSUME NEW m \in Measured
               PROVE  /\ Encodable(Packed(m))
                      /\ Packed(m) = reading =>
                           LET back == decode(encode(reading))
                           IN  /\ back \div READING_TEMP_BUCKETS = Min({m.soil, MaxSoil})
                               /\ back % READING_TEMP_BUCKETS = TempBucket(m.centi_c)
                               /\ encode_packed(m.soil, m.centi_c) = reading
    BY Zenon DEF SensorValuesSurvive
  <2>1. PICK p \in Nat : p = Packed(m) /\ p < (MaxSoil + 1) * READING_TEMP_BUCKETS
    BY PackedParts, Zenon
  <2>2. Encodable(Packed(m))
    <3>1. PICK limit \in Nat : limit = (MaxSoil + 1) * READING_TEMP_BUCKETS
      BY SMT DEF MaxSoil, READING_TEMP_BUCKETS
    <3>2. p < limit /\ limit <= CRT_MAX_VALUE /\ CRT_MAX_VALUE \in Nat
      BY <2>1, <3>1, CheckAssumption, CrtAssumption
    <3>3. p < CRT_MAX_VALUE
      BY <3>2, SMT
    <3> QED
      BY <2>1, <3>3, Zenon DEF Encodable
  <2>3. ASSUME Packed(m) = reading PROVE decode(encode(reading)) = Packed(m)
    <3>1. encode(reading) = Arriving(reading, Indices)
      BY Zenon DEF encode, Arriving
    <3>2. reading \in Int /\ reading = p
      BY <2>1, <2>3
    <3>3. decode(Arriving(reading, Indices)) = reading % ProductOf(Indices)
      BY <3>2, AllDecode, Zenon
    <3>4. p % (97 * 101 * 103) = p
      BY <2>1, SMT DEF MaxSoil, READING_TEMP_BUCKETS
    <3> QED
      BY <2>1, <2>3, <3>1, <3>2, <3>3, <3>4, DeployedProduct, Zenon
  <2>4. READING_TEMP_BUCKETS = 201
    BY DEF READING_TEMP_BUCKETS
  <2> QED
    BY <2>2, <2>3, <2>4, PackedParts, Zenon DEF Soil
<1>2. CrtInv => SensorValuesSurvive
  BY <1>1
<1> QED
  BY <1>2, CrtInvariance, PTL

-----------------------------------------------------------------------------
(* The correction the analysis proposes.                                   *)
(* Two numbers of which a combination is 1 have no common divisor.          *)
LEMMA CombinationCoprime ==
  ASSUME NEW a \in Nat, NEW b \in Nat, Combination(1, a, b)
  PROVE  Coprime(a, b)
<1>1. SUFFICES ASSUME NEW d \in 2 .. a, a % d = 0, b % d = 0
               PROVE  FALSE
  BY DEF Coprime
<1>2. PICK x \in Int, y \in Int : 1 = a * x + b * y
  BY DEF Combination
<1>3. PICK k \in Int : a = d * k
  <2>1. d \in Nat \ {0} /\ a \in Int
    OBVIOUS
  <2>2. PICK q \in Int, r \in 0 .. d - 1 : a = d * q + r /\ r = a % d
    BY <2>1, Division
  <2>3. r = 0 /\ a = d * q + r
    BY <1>1, <2>2, Zenon
  <2> QED
    BY <2>3
<1>4. PICK l \in Int : b = d * l
  <2>1. d \in Nat \ {0} /\ b \in Int
    OBVIOUS
  <2>2. PICK q \in Int, r \in 0 .. d - 1 : b = d * q + r /\ r = b % d
    BY <2>1, Division
  <2>3. r = 0 /\ b = d * q + r
    BY <1>1, <2>2, Zenon
  <2> QED
    BY <2>3
<1>5. PICK z \in Int : z = k * x + l * y
  OBVIOUS
<1>6. (d * k) * x + (d * l) * y = d * (k * x + l * y)
  OBVIOUS
<1>7. 1 = d * z
  BY <1>2, <1>3, <1>4, <1>5, <1>6, SMT
<1>8. d \in Nat \ {0} /\ d >= 2
  OBVIOUS
<1>9. (z >= 1 => d * z >= d) /\ (z <= -1 => d * z <= -d) /\ d * 0 = 0
  BY <1>8, ProductGrows
<1> QED
  BY <1>7, <1>8, <1>9

CorrectedModulus == [i \in Indices |-> MODULI_CORRECTED[i + 1]]

LEMMA CorrectedModuli ==
  /\ CorrectedModulus \in [Indices -> Nat \ {0, 1}]
  /\ CorrectedModulus[0] = 253 /\ CorrectedModulus[1] = 254 /\ CorrectedModulus[2] = 255
  /\ \A i, j \in Indices : i # j => Coprime(CorrectedModulus[i], CorrectedModulus[j])
<1>1. Indices = {0, 1, 2}
  BY DEF Indices
<1>2. CorrectedModulus[0] = 253 /\ CorrectedModulus[1] = 254 /\ CorrectedModulus[2] = 255
  BY <1>1 DEF CorrectedModulus, MODULI_CORRECTED
<1>3. CorrectedModulus \in [Indices -> Nat \ {0, 1}]
  BY <1>1, <1>2 DEF CorrectedModulus
<1>4. Coprime(253, 254) /\ Coprime(254, 253)
  <2>1. 1 = 253 * (-1) + 254 * 1 /\ 1 = 254 * 1 + 253 * (-1)
    BY SMT
  <2>2. Combination(1, 253, 254) /\ Combination(1, 254, 253)
    BY <2>1, SMT DEF Combination
  <2> QED
    BY <2>2, CombinationCoprime, SMT
<1>5. Coprime(254, 255) /\ Coprime(255, 254)
  <2>1. 1 = 254 * (-1) + 255 * 1 /\ 1 = 255 * 1 + 254 * (-1)
    BY SMT
  <2>2. Combination(1, 254, 255) /\ Combination(1, 255, 254)
    BY <2>1, SMT DEF Combination
  <2> QED
    BY <2>2, CombinationCoprime, SMT
<1>6. Coprime(253, 255) /\ Coprime(255, 253)
  <2>1. 1 = 253 * 127 + 255 * (-126) /\ 1 = 255 * (-126) + 253 * 127
    BY SMT
  <2>2. Combination(1, 253, 255) /\ Combination(1, 255, 253)
    BY <2>1, SMT DEF Combination
  <2> QED
    BY <2>2, CombinationCoprime, SMT
<1>7. ASSUME NEW i \in Indices, NEW j \in Indices, i # j
      PROVE  Coprime(CorrectedModulus[i], CorrectedModulus[j])
  BY <1>1, <1>2, <1>4, <1>5, <1>6, <1>7, SMT
<1> QED
  BY <1>2, <1>3, <1>7

(* CrtCodeProofs holds for the corrected moduli, and its decoder is the one *)
(* the model names.                                                         *)
LEMMA CorrectedAssumption ==
  /\ [i \in Indices |-> MODULI_CORRECTED[i + 1]] \in [CorrectedProofs!Indices -> Nat \ {0, 1}]
  /\ \A i, j \in CorrectedProofs!Indices : i # j =>
       CorrectedProofs!Coprime([k \in Indices |-> MODULI_CORRECTED[k + 1]][i],
                               [k \in Indices |-> MODULI_CORRECTED[k + 1]][j])
  /\ legal_domain_max + 1 \in Nat
<1>1. legal_domain_max + 1 \in Nat
  BY SMT DEF legal_domain_max, TEMP_BUCKETS
<1>2. CorrectedProofs!Indices = Indices
  BY Zenon DEF Indices, CorrectedProofs!Indices
<1>3. \A a, b : Coprime(a, b) => CorrectedProofs!Coprime(a, b)
  BY Zenon DEF Coprime, CorrectedProofs!Coprime
<1>4. CorrectedModulus \in [CorrectedProofs!Indices -> Nat \ {0, 1}]
  BY <1>2, CorrectedModuli, Zenon
<1>5. ASSUME NEW i \in CorrectedProofs!Indices, NEW j \in CorrectedProofs!Indices, i # j
      PROVE  CorrectedProofs!Coprime(CorrectedModulus[i], CorrectedModulus[j])
  <2>1. i \in Indices /\ j \in Indices
    BY <1>2, <1>5, Zenon
  <2>2. Coprime(CorrectedModulus[i], CorrectedModulus[j])
    BY <2>1, <1>5, CorrectedModuli, SMT
  <2> QED
    BY <2>2, <1>3, Zenon
<1> QED
  BY <1>1, <1>4, <1>5, Zenon DEF CorrectedModulus

LEMMA SameDecoder ==
  ASSUME NEW residues
  PROVE  Corrected!decode(residues) = CorrectedProofs!decode(residues)
<1>1. \A I : Corrected!ProductOf(I) = CorrectedProofs!ProductOf(I)
  BY Zenon DEF Corrected!ProductOf, CorrectedProofs!ProductOf,
     Corrected!ProductSet, CorrectedProofs!ProductSet,
     Corrected!FoldSet, CorrectedProofs!FoldSet,
     Corrected!MapThenFoldSet, CorrectedProofs!MapThenFoldSet
<1> QED
  BY Zenon DEF Corrected!decode, CorrectedProofs!decode, Corrected!Term, CorrectedProofs!Term,
     Corrected!mod_inverse, CorrectedProofs!mod_inverse,
     Corrected!ProductOf, CorrectedProofs!ProductOf,
     Corrected!ProductSet, CorrectedProofs!ProductSet,
     Corrected!FoldSet, CorrectedProofs!FoldSet,
     Corrected!MapThenSumSet, CorrectedProofs!MapThenSumSet,
     Corrected!MapThenFoldSet, CorrectedProofs!MapThenFoldSet

LEMMA CorrectedDecodes ==
  ASSUME NEW r \in Nat, NEW i \in Indices, NEW j \in Indices, i # j,
         r < CorrectedModulus[i] * CorrectedModulus[j]
  PROVE  Corrected!decode([k \in {i, j} |-> Corrected!encode(r)[k]]) = r
<1>1. Corrected!encode(r) = CorrectedProofs!encode(r)
  BY Zenon DEF Corrected!encode, CorrectedProofs!encode, Corrected!Indices, CorrectedProofs!Indices
<1>2. i \in CorrectedProofs!Indices /\ j \in CorrectedProofs!Indices
  BY Zenon DEF Indices, CorrectedProofs!Indices
<1>3. CorrectedProofs!ProductOf({i, j}) = CorrectedModulus[i] * CorrectedModulus[j]
  BY <1>2, CorrectedAssumption, CorrectedProofs!ProductOfPair, Zenon DEF CorrectedModulus
<1>4. {i, j} \in SUBSET CorrectedProofs!Indices /\ CorrectedProofs!Cardinality({i, j}) >= 2
  <2>1. CorrectedProofs!Cardinality({i, j}) = 2
    BY CorrectedAssumption, CorrectedProofs!SmallSetsFinite, Zenon
  <2> QED
    BY <1>2, <2>1
<1>5. CorrectedProofs!decode(CorrectedProofs!Arriving(r, {i, j})) = r
  <2>1. r < CorrectedProofs!ProductOf({i, j})
    BY <1>3, Zenon
  <2> QED
    BY <2>1, <1>4, CorrectedAssumption, CorrectedProofs!SmallReadingDecodes, Zenon
<1> QED
  BY <1>1, <1>5, SameDecoder, Zenon DEF CorrectedProofs!Arriving

(* The two quantisers of the soil value.                                    *)
LEMMA Quantised ==
  ASSUME NEW s \in Nat, s <= MaxSoil
  PROVE  /\ bucket_trunc(s) \in Nat /\ bucket_trunc(s) <= 255 /\ err_trunc(s) \in 0 .. 15
         /\ bucket_round(s) \in 0 .. 255 /\ 2 * err_round(s) <= 4095
<1>1. s <= 4095
  BY SMT DEF MaxSoil
<1>2. PICK q \in Int, r \in 0 .. 15 : s = 16 * q + r /\ q = s \div 16
  BY SMT
<1>3. q >= 0 /\ q <= 255 /\ s - q * 16 = r
  BY <1>1, <1>2, SMT
<1>4. bucket_trunc(s) = q
  BY <1>2, Zenon DEF bucket_trunc
<1>5. err_trunc(s) = r
  BY <1>3, <1>4, SMT DEF err_trunc
<1>6. PICK w \in Int : w = 2 * 255 * s + 4095
  BY SMT
<1>7. PICK k \in Int, t \in Nat : w = 2 * 4095 * k + t /\ t < 2 * 4095 /\ k = w \div (2 * 4095)
  BY SMT
<1>8. k >= 0 /\ k <= 255
  BY <1>1, <1>6, <1>7, SMT
<1>9. bucket_round(s) = k
  BY <1>6, <1>7, SMT DEF bucket_round
<1>10. PICK kept \in Int : kept = k * 4095
  BY SMT
<1>11. PICK whole \in Int : whole = s * 255
  BY SMT
<1>12. err_round(s) = Max({kept - whole, whole - kept})
  BY <1>9, <1>10, <1>11, SMT DEF err_round
<1>13. err_round(s) = IF kept - whole >= whole - kept THEN kept - whole ELSE whole - kept
  <2>1. kept - whole \in Int /\ whole - kept \in Int
    OBVIOUS
  <2> QED
    BY <1>12, <2>1, MaxPair, Zenon
<1>14. 2 * (kept - whole) <= 4095 /\ 2 * (whole - kept) <= 4095
  BY <1>6, <1>7, <1>10, <1>11, SMT
<1>15. 2 * err_round(s) <= 4095
  BY <1>13, <1>14, SMT
<1> QED
  BY <1>2, <1>3, <1>4, <1>5, <1>8, <1>9, <1>15, SMT

(* The smallest product of two of three moduli in ascending order.          *)
LEMMA SmallestPair ==
  ASSUME NEW a \in Nat, NEW b \in Nat, NEW c \in Nat, a <= b, b <= c
  PROVE  Min({a * b, a * c, b * c}) = a * b
<1>1. a * b \in Int /\ a * c \in Int /\ b * c \in Int
  OBVIOUS
<1>2. a * b <= a * c /\ a * c <= b * c
  <2>1. a * (c - b) \in Nat /\ (b - a) * c \in Nat
    <3>1. \A x, y \in Nat : x * y \in Nat
      OBVIOUS
    <3> QED
      BY <3>1
  <2>2. a * (c - b) = a * c - a * b /\ (b - a) * c = b * c - a * c
    OBVIOUS
  <2> QED
    BY <1>1, <2>1, <2>2
<1> DEFINE S == {a * b, a * c, b * c}
<1>3. S \in SUBSET Int /\ a * b \in S /\ \A y \in S : a * b <= y
  BY <1>1, <1>2
<1> QED
  BY <1>3, MinIs

(* pairwise_bounds' min is the product of the two smallest moduli.          *)
LEMMA SmallestBound ==
  ASSUME NEW moduli, NEW a \in Nat, NEW b \in Nat, NEW c \in Nat,
         a = moduli[1], b = moduli[2], c = moduli[3], a <= b, b <= c
  PROVE  pairwise_bounds(moduli).min = a * b
<1>1. pairwise_bounds(moduli).min = Min({a * b, a * c, b * c})
  BY Zenon DEF pairwise_bounds
<1> QED
  BY <1>1, SmallestPair, ZenonT(60)

LEMMA SmallestBounds ==
  /\ pairwise_bounds(MODULI_DEPLOYED).min = 97 * 101
  /\ pairwise_bounds(MODULI_CORRECTED).min = 253 * 254
<1>1. pairwise_bounds(MODULI_DEPLOYED).min = 97 * 101
  <2>1. PICK a \in Nat, b \in Nat, c \in Nat : a = 97 /\ b = 101 /\ c = 103
    BY SMT
  <2>2. /\ a = MODULI_DEPLOYED[1] /\ b = MODULI_DEPLOYED[2] /\ c = MODULI_DEPLOYED[3]
        /\ a <= b /\ b <= c
    BY <2>1, SMT DEF MODULI_DEPLOYED
  <2>3. pairwise_bounds(MODULI_DEPLOYED).min = a * b
    BY <2>2, SmallestBound, ZenonT(60)
  <2> QED
    BY <2>1, <2>3, SMT
<1>2. pairwise_bounds(MODULI_CORRECTED).min = 253 * 254
  <2>1. PICK a \in Nat, b \in Nat, c \in Nat : a = 253 /\ b = 254 /\ c = 255
    BY SMT
  <2>2. /\ a = MODULI_CORRECTED[1] /\ b = MODULI_CORRECTED[2] /\ c = MODULI_CORRECTED[3]
        /\ a <= b /\ b <= c
    BY <2>1, SMT DEF MODULI_CORRECTED
  <2>3. pairwise_bounds(MODULI_CORRECTED).min = a * b
    BY <2>2, SmallestBound, ZenonT(60)
  <2> QED
    BY <2>1, <2>3, SMT
<1> QED
  BY <1>1, <1>2, SMT

(* With the deployed moduli, the readings at and above the smallest bound   *)
(* are those that the two smallest moduli alone lose.                       *)
LEMMA LostByTwo ==
  ASSUME reading \in Nat, arrived = {0, 1}
  PROVE  exceeds_min(reading) <=> decode(Received) # reading
<1>1. exceeds_min(reading) <=> reading >= 97 * 101
  BY SmallestBounds, SMT DEF exceeds_min
<1>2. 0 \in Indices /\ 1 \in Indices /\ 0 # 1 /\ reading \in Int
  BY DEF Indices
<1>3. decode(Arriving(reading, {0, 1})) = reading % ProductOf({0, 1})
  BY <1>2, PairDecodes, Zenon
<1>4. decode(Received) = reading % ProductOf({0, 1})
  BY <1>3, Zenon DEF Received, Arriving
<1>5. ProductOf({0, 1}) = 97 * 101
  BY DeployedProduct, SMT
<1>6. reading % (97 * 101) # reading <=> reading >= 97 * 101
  BY SMT
<1> QED
  BY <1>1, <1>4, <1>5, <1>6, SMT

(* With the corrected moduli, any two residues give back what is packed     *)
(* from a soil value of eight bits.                                         *)
LEMMA CorrectedPairs ==
  ASSUME NEW i \in Indices, NEW j \in Indices, i # j, NEW r \in Nat, r <= 255 * 201 + 200
  PROVE  r < CorrectedModulus[i] * CorrectedModulus[j]
<1>1. Indices = {0, 1, 2}
  BY DEF Indices
<1>2. PICK a \in Nat, b \in Nat : a = CorrectedModulus[i] /\ b = CorrectedModulus[j]
  BY CorrectedModuli
<1>3. a \in {253, 254, 255} /\ b \in {253, 254, 255}
  BY <1>1, <1>2, CorrectedModuli, SMT
<1>4. a * b >= 253 * 253
  BY <1>3, SMT
<1> QED
  BY <1>2, <1>4, SMT

(* The correction repairs the code (05_crt_quantization.py:54-97): with its  *)
(* moduli any two residues give the packed reading back, and neither        *)
(* quantiser of the soil value is further off than the analysis says.       *)
THEOREM CorrectedAlwaysRecovers == Spec => []CorrectedRecovers
<1>1. ASSUME CrtInv PROVE CorrectedRecovers
  <2>1. reading \in Nat /\ arrived \in SUBSET Indices /\ Cardinality(arrived) >= 2
    BY <1>1 DEF CrtInv, Arrivals
  <2>2. reading < MAX_VALUE /\ arrived = {0, 1} => (exceeds_min(reading) <=> decode(Received) # reading)
    BY <2>1, LostByTwo, Zenon
  <2> DEFINE kept == bucket_trunc(SoilOf(reading)) * TEMP_BUCKETS + (reading % TEMP_BUCKETS)
  <2>3. ASSUME SoilOf(reading) <= MaxSoil
        PROVE  /\ below_min_pairwise_bound /\ Corrected!Encodable(kept)
               /\ Cardinality(arrived) = 2 =>
                    Corrected!decode([i \in arrived |-> Corrected!encode(kept)[i]]) = kept
               /\ err_trunc(SoilOf(reading)) \in 0..15
               /\ bucket_round(SoilOf(reading)) \in 0..255 /\ 2 * err_round(SoilOf(reading)) <= 4095
    <3> HIDE DEF kept
    <3>1. PICK s \in Nat, t \in 0 .. 200 : s = SoilOf(reading) /\ t = reading % TEMP_BUCKETS
      BY <2>1, SMT DEF SoilOf, TEMP_BUCKETS
    <3>2. /\ bucket_trunc(s) \in Nat /\ bucket_trunc(s) <= 255 /\ err_trunc(s) \in 0 .. 15
          /\ bucket_round(s) \in 0 .. 255 /\ 2 * err_round(s) <= 4095
      BY <2>3, <3>1, Quantised, SMT
    <3>3. kept \in Nat /\ kept <= 255 * 201 + 200
      BY <3>1, <3>2, SMT DEF kept, TEMP_BUCKETS
    <3>4. legal_domain_max = 255 * 201 + 200
      BY SMT DEF legal_domain_max, TEMP_BUCKETS
    <3>5. below_min_pairwise_bound
      BY <3>4, SmallestBounds, SMT DEF below_min_pairwise_bound
    <3>6. Corrected!Encodable(kept)
      BY <3>3, <3>4, SMT DEF Corrected!Encodable
    <3>7. ASSUME Cardinality(arrived) = 2
          PROVE  Corrected!decode([i \in arrived |-> Corrected!encode(kept)[i]]) = kept
      <4>1. Cardinality(Indices) = 3
        <5>1. PICK x, y, z : x = 0 /\ y = 1 /\ z = 2
          OBVIOUS
        <5>2. Indices = {x, y, z} /\ x # y /\ x # z /\ y # z
          BY <5>1 DEF Indices
        <5>3. Cardinality({x, y, z}) = 3
          BY <5>2, SmallSetsFinite, Zenon
        <5> QED
          BY <5>2, <5>3, Zenon
      <4>2. PICK i \in Indices, j \in Indices : i # j /\ arrived = {i, j}
        BY <2>1, <3>7, <4>1, TwoOrThree
      <4>3. kept < CorrectedModulus[i] * CorrectedModulus[j]
        BY <3>3, <4>2, CorrectedPairs, SMT
      <4> QED
        BY <3>3, <4>2, <4>3, CorrectedDecodes, Zenon
    <3> QED
      BY <3>1, <3>2, <3>5, <3>6, <3>7, SMT
  <2> QED
    BY <2>2, <2>3 DEF CorrectedRecovers
<1>2. CrtInv => CorrectedRecovers
  BY <1>1
<1> QED
  BY <1>2, CrtInvariance, PTL
=============================================================================
