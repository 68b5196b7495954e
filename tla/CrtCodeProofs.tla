--------------------------- MODULE CrtCodeProofs ---------------------------
(* The residue code inverts: for any pairwise coprime moduli, what arrives *)
(* of a reading decodes to the reading modulo the product of the moduli    *)
(* that arrived.                                                           *)
EXTENDS CrtCode, FiniteSetTheorems, WellFoundedInduction, TLAPS

(* Quotient and remainder.                                                 *)
LEMMA DivMod ==
  ASSUME NEW a \in Int, NEW m \in Nat \ {0}
  PROVE  /\ a \div m \in Int /\ a % m \in 0 .. m - 1
         /\ a = m * (a \div m) + (a % m)
OBVIOUS

LEMMA Division ==
  ASSUME NEW a \in Int, NEW m \in Nat \ {0}
  PROVE  \E q \in Int, r \in 0 .. m - 1 : a = m * q + r /\ q = a \div m /\ r = a % m
<1> DEFINE q == a \div m
           r == a % m
<1>1. q \in Int /\ r \in 0 .. m - 1 /\ a = m * q + r
  BY DivMod
<1> HIDE DEF q, r
<1>2. \E u \in Int, v \in 0 .. m - 1 : a = m * u + v /\ u = q /\ v = r
  BY <1>1
<1> QED
  BY <1>2 DEF q, r

(* A product of a positive number with a positive one is no smaller.       *)
LEMMA ProductGrows ==
  ASSUME NEW m \in Nat \ {0}, NEW k \in Int
  PROVE  /\ m * k \in Int
         /\ k >= 1 => m * k >= m
         /\ k <= -1 => m * k <= -m
         /\ k >= 0 => m * k >= 0 /\ m * k >= k
OBVIOUS

(* They are the only ones.                                                 *)
LEMMA DivModUnique ==
  ASSUME NEW m \in Nat \ {0}, NEW q \in Int, NEW r \in 0 .. m - 1, NEW a \in Int,
         a = m * q + r
  PROVE  a % m = r /\ a \div m = q
<1> DEFINE p == a \div m
           s == a % m
<1>1. p \in Int /\ s \in 0 .. m - 1 /\ a = m * p + s
  BY DivMod
<1> HIDE DEF p, s
<1>2. m * (q - p) = s - r
  <2>1. m * (q - p) = m * q - m * p
    BY <1>1
  <2>2. m * q \in Int /\ m * p \in Int
    BY <1>1
  <2> QED
    BY <1>1, <2>1, <2>2
<1>3. q - p = 0
  <2>1. q - p \in Int
    BY <1>1
  <2> QED
    BY <1>1, <1>2, <2>1, ProductGrows
<1>4. q = p
  BY <1>1, <1>3
<1> QED
  BY <1>1, <1>2, <1>4 DEF p, s

-----------------------------------------------------------------------------
(* x is a multiple of m.                                                   *)
Multiple(x, m) == \E k \in Int : x = m * k

LEMMA MultipleSum ==
  ASSUME NEW m \in Int, NEW x, NEW y, Multiple(x, m), Multiple(y, m)
  PROVE  Multiple(x + y, m) /\ Multiple(x - y, m)
<1>1. PICK k \in Int : x = m * k
  BY DEF Multiple
<1>2. PICK l \in Int : y = m * l
  BY DEF Multiple
<1>3. x + y = m * (k + l) /\ x - y = m * (k - l) /\ k + l \in Int /\ k - l \in Int
  BY <1>1, <1>2
<1> QED
  BY <1>3 DEF Multiple

LEMMA MultipleProduct ==
  ASSUME NEW m \in Int, NEW x, NEW y \in Int, Multiple(x, m)
  PROVE  Multiple(x * y, m) /\ Multiple(y * x, m)
<1>1. PICK k \in Int : x = m * k
  BY DEF Multiple
<1>2. x * y = m * (k * y) /\ y * x = m * (k * y) /\ k * y \in Int
  BY <1>1
<1> QED
  BY <1>2 DEF Multiple

LEMMA OwnMultiple ==
  ASSUME NEW m \in Int, NEW y \in Int
  PROVE  Multiple(m * y, m) /\ Multiple(y * m, m) /\ Multiple(0, m)
<1>1. y * m = m * y /\ m * 0 = 0
  OBVIOUS
<1> QED
  BY <1>1 DEF Multiple

(* Remainders are equal when the difference is a multiple.                 *)
LEMMA SameRemainder ==
  ASSUME NEW m \in Nat \ {0}, NEW a \in Int, NEW b \in Int
  PROVE  a % m = b % m <=> Multiple(a - b, m)
<1>1. PICK p \in Int, r \in 0 .. m - 1 : a = m * p + r /\ r = a % m
  BY Division
<1>2. PICK q \in Int, s \in 0 .. m - 1 : b = m * q + s /\ s = b % m
  BY Division
<1>3. ASSUME r = s PROVE Multiple(a - b, m)
  <2>1. m * (p - q) = m * p - m * q /\ m * p \in Int /\ m * q \in Int
    OBVIOUS
  <2>2. a = m * p + r /\ b = m * q + r
    BY <1>1, <1>2, <1>3
  <2>3. a - b = m * (p - q)
    BY <2>1, <2>2
  <2> QED
    BY <2>3 DEF Multiple
<1>4. ASSUME Multiple(a - b, m) PROVE a % m = s
  <2>1. PICK k \in Int : a - b = m * k
    BY <1>4 DEF Multiple
  <2>2. m * (k + q) = m * k + m * q /\ m * k \in Int /\ m * q \in Int /\ k + q \in Int
    BY <2>1
  <2>3. a = m * (k + q) + s
    BY <1>2, <2>1, <2>2
  <2> QED
    BY <2>2, <2>3, DivModUnique
<1> QED
  BY <1>1, <1>2, <1>3, <1>4

(* A number is congruent to its remainder.                                 *)
LEMMA RemainderIsCongruent ==
  ASSUME NEW m \in Nat \ {0}, NEW a \in Int
  PROVE  Multiple(a - (a % m), m)
<1>1. a \div m \in Int /\ a % m \in Int /\ a = m * (a \div m) + (a % m)
  BY DivMod
<1>2. m * (a \div m) \in Int
  BY <1>1
<1>3. a - (a % m) = m * (a \div m)
  BY <1>1, <1>2
<1> QED
  BY <1>1, <1>3 DEF Multiple

-----------------------------------------------------------------------------
LEMMA SmallestMember ==
  ASSUME NEW T, T \subseteq Nat, T # {}
  PROVE  \E n \in T : \A m \in T : n <= m
<1>1. PICK n \in T : \A m \in T : ~(<<m, n>> \in OpToRel(<, Nat))
  BY NatLessThanWellFounded, WFMin
<1>2. \A m \in T : ~(m < n)
  BY <1>1 DEF OpToRel
<1> QED
  BY <1>2

(* The positive combinations of a and b.                                   *)
Combination(n, a, b) == \E x, y \in Int : n = a * x + b * y

(* The smallest one, g, divides every other, a and b themselves included.  *)
LEMMA SmallestDivides ==
  ASSUME NEW a \in Nat, NEW b \in Nat, NEW g \in Nat \ {0}, Combination(g, a, b),
         \A n \in Nat \ {0} : Combination(n, a, b) => g <= n,
         NEW c \in Nat, Combination(c, a, b)
  PROVE  c % g = 0
<1>1. PICK x \in Int, y \in Int : g = a * x + b * y
  BY DEF Combination
<1>2. PICK u \in Int, v \in Int : c = a * u + b * v
  BY DEF Combination
<1>3. PICK q \in Int, r \in 0 .. g - 1 : c = g * q + r /\ q = c \div g /\ r = c % g
  BY Division
<1>4. r = a * (u - x * q) + b * (v - y * q)
  <2>1. (a * x + b * y) * q = a * (x * q) + b * (y * q)
    OBVIOUS
  <2>2. a * (u - x * q) = a * u - a * (x * q) /\ b * (v - y * q) = b * v - b * (y * q)
    BY <1>1, <1>2, <1>3
  <2>3. /\ a * u \in Int /\ b * v \in Int /\ a * (x * q) \in Int /\ b * (y * q) \in Int
        /\ g * q \in Int
    BY <1>1, <1>2, <1>3
  <2>4. g * q = a * (x * q) + b * (y * q)
    BY <1>1, <2>1
  <2>5. c = g * q + r
    BY <1>3
  <2> QED
    BY <1>2, <2>2, <2>3, <2>4, <2>5
<1>5. u - x * q \in Int /\ v - y * q \in Int
  BY <1>1, <1>2, <1>3
<1>6. Combination(r, a, b)
  BY <1>4, <1>5 DEF Combination
<1> QED
  BY <1>3, <1>6

(* Two coprime numbers have a combination of one.                          *)
LEMMA CoprimeCombination ==
  ASSUME NEW a \in Nat \ {0}, NEW b \in Nat \ {0}, Coprime(a, b)
  PROVE  Combination(1, a, b)
<1> DEFINE T == {n \in Nat \ {0} : Combination(n, a, b)}
<1>1. Combination(a, a, b) /\ Combination(b, a, b)
  <2>1. a = a * 1 + b * 0 /\ b = a * 0 + b * 1
    OBVIOUS
  <2> QED
    BY <2>1 DEF Combination
<1>2. PICK g \in T : \A n \in T : g <= n
  BY <1>1, SmallestMember
<1>3. a % g = 0 /\ b % g = 0
  BY <1>1, <1>2, SmallestDivides
<1>4. g <= a
  BY <1>1, <1>2
<1>5. g = 1
  BY <1>2, <1>3, <1>4 DEF Coprime
<1> QED
  BY <1>2, <1>5

(* Two numbers with a combination of one: the inverse of one modulo the     *)
(* other exists, both divide only multiples of their product, and so does  *)
(* a number that has one with both.                                        *)
LEMMA CombinationSymmetric ==
  ASSUME NEW a \in Int, NEW b \in Int, Combination(1, a, b)
  PROVE  Combination(1, b, a)
<1>1. PICK x \in Int, y \in Int : 1 = a * x + b * y
  BY DEF Combination
<1>2. 1 = b * y + a * x
  BY <1>1
<1> QED
  BY <1>1, <1>2 DEF Combination

LEMMA InverseExists ==
  ASSUME NEW a \in Int, NEW m \in Nat \ {0, 1}, Combination(1, a, m)
  PROVE  mod_inverse(a, m) \in 0 .. m - 1 /\ Multiple(a * mod_inverse(a, m) - 1, m)
<1>1. PICK x \in Int, y \in Int : 1 = a * x + m * y
  BY DEF Combination
<1>2. PICK q \in Int, z \in 0 .. m - 1 : x = m * q + z /\ q = x \div m /\ z = x % m
  BY Division
<1>3. 1 % m = 1
  BY DivModUnique
<1>4. Multiple(a * z - 1, m)
  <2>1. a * x = a * (m * q) + a * z
    <3>1. a * (m * q + z) = a * (m * q) + a * z
      OBVIOUS
    <3> QED
      BY <1>2, <3>1
  <2>2. a * (m * q) = m * (a * q) /\ m * (-(y + a * q)) = -(m * y) - m * (a * q)
    OBVIOUS
  <2>3. a * x \in Int /\ a * z \in Int /\ m * y \in Int /\ m * (a * q) \in Int
    OBVIOUS
  <2>4. a * z - 1 = m * (-(y + a * q))
    BY <1>1, <2>1, <2>2, <2>3
  <2>5. PICK k \in Int : k = -(y + a * q)
    OBVIOUS
  <2>6. a * z - 1 = m * k
    BY <2>4, <2>5
  <2> QED
    BY <2>6 DEF Multiple
<1> DEFINE One(c) == c % m = 1 <=> Multiple(c - 1, m)
<1>one. ASSUME NEW c \in Int PROVE One(c)
  <2>1. PICK e \in Int : e = 1
    OBVIOUS
  <2>2. c % m = e % m <=> Multiple(c - e, m)
    BY SameRemainder
  <2> QED
    BY <1>3, <2>1, <2>2
<1>5. (a * z) % m = 1
  <2>1. a * z \in Int
    OBVIOUS
  <2>2. One(a * z)
    BY <2>1, <1>one
  <2> QED
    BY <1>4, <2>2
<1>6. \A v \in 0 .. m - 1 : (a * v) % m = 1 => Multiple(a * v - 1, m)
  <2> SUFFICES ASSUME NEW v \in 0 .. m - 1, (a * v) % m = 1 PROVE Multiple(a * v - 1, m)
    OBVIOUS
  <2>1. a * v \in Int
    OBVIOUS
  <2>2. One(a * v)
    BY <2>1, <1>one
  <2> QED
    BY <2>2
<1>7. mod_inverse(a, m) \in 0 .. m - 1 /\ (a * mod_inverse(a, m)) % m = 1
  BY <1>5 DEF mod_inverse
<1> QED
  BY <1>6, <1>7

LEMMA CommonMultiple ==
  ASSUME NEW m \in Int, NEW n \in Int, Combination(1, m, n),
         NEW x, Multiple(x, m), Multiple(x, n)
  PROVE  Multiple(x, m * n)
<1>1. PICK u \in Int, v \in Int : 1 = m * u + n * v
  BY DEF Combination
<1>2. PICK k \in Int : x = m * k
  BY DEF Multiple
<1>3. PICK l \in Int : x = n * l
  BY DEF Multiple
<1>4. x * (m * u + n * v) = (n * l) * (m * u) + (m * k) * (n * v)
  <2>1. x * (m * u + n * v) = x * (m * u) + x * (n * v)
    BY <1>2
  <2> QED
    BY <1>2, <1>3, <2>1
<1>5. (n * l) * (m * u) + (m * k) * (n * v) = (m * n) * (l * u + k * v)
  OBVIOUS
<1>6. x = (m * n) * (l * u + k * v)
  BY <1>1, <1>2, <1>4, <1>5
<1>7. PICK j \in Int : j = l * u + k * v
  OBVIOUS
<1>8. x = (m * n) * j
  BY <1>6, <1>7
<1> QED
  BY <1>8 DEF Multiple

LEMMA CoprimeToProduct ==
  ASSUME NEW m \in Int, NEW n \in Int, NEW k \in Int,
         Combination(1, m, k), Combination(1, n, k)
  PROVE  Combination(1, m * n, k)
<1>1. PICK x \in Int, y \in Int : 1 = m * x + k * y
  BY DEF Combination
<1>2. PICK u \in Int, v \in Int : 1 = n * u + k * v
  BY DEF Combination
<1>3. (m * x + k * y) * (n * u + k * v)
        = (m * n) * (x * u) + k * (m * x * v + y * (n * u) + k * y * v)
  OBVIOUS
<1>4. PICK s \in Int, t \in Int : s = x * u /\ t = m * x * v + y * (n * u) + k * y * v
  OBVIOUS
<1>5. 1 = (m * n) * s + k * t
  BY <1>1, <1>2, <1>3, <1>4
<1> QED
  BY <1>5 DEF Combination

-----------------------------------------------------------------------------
(* The folds.  g is what a fold over S computes for each subset, where      *)
(* step[s] takes what comes of s without its chosen member to what comes   *)
(* of s.                                                                   *)
Chosen(s) == CHOOSE x \in s : TRUE

Folding(g, base, step, s) == g[s] = IF s = {} THEN base ELSE step[s][g[s \ {Chosen(s)}]]

HasFold(S, base, step) ==
  \E g \in [SUBSET S -> Int] : \A s \in SUBSET S : Folding(g, base, step, s)

LEMMA FoldExists ==
  ASSUME NEW S, IsFiniteSet(S), NEW base \in Int, NEW step \in [SUBSET S -> [Int -> Int]]
  PROVE  HasFold(S, base, step)
<1> DEFINE Below(g, n) == \A s \in SUBSET S : Cardinality(s) <= n => Folding(g, base, step, s)
           T == {n \in Nat : ~\E g \in [SUBSET S -> Int] : Below(g, n)}
<1>0. /\ Cardinality(S) \in Nat
      /\ \A s \in SUBSET S : Cardinality(s) \in Nat /\ Cardinality(s) <= Cardinality(S)
      /\ \A s \in SUBSET S : s # {} =>
           /\ Chosen(s) \in s /\ s \ {Chosen(s)} \in SUBSET S
           /\ Cardinality(s \ {Chosen(s)}) = Cardinality(s) - 1
      /\ \A s \in SUBSET S : Cardinality(s) = 0 => s = {}
  <2>1. Cardinality(S) \in Nat
    BY FS_CardinalityType
  <2>2. ASSUME NEW s \in SUBSET S
        PROVE  /\ IsFiniteSet(s) /\ Cardinality(s) \in Nat /\ Cardinality(s) <= Cardinality(S)
               /\ Cardinality(s) = 0 => s = {}
    BY FS_Subset, FS_CardinalityType, FS_EmptySet
  <2>3. ASSUME NEW s \in SUBSET S, s # {}
        PROVE  /\ Chosen(s) \in s /\ s \ {Chosen(s)} \in SUBSET S
               /\ Cardinality(s \ {Chosen(s)}) = Cardinality(s) - 1
    <3>1. Chosen(s) \in s
      BY <2>3 DEF Chosen
    <3> QED
      BY <2>2, <3>1, FS_RemoveElement
  <2> QED
    BY <2>1, <2>2, <2>3
<1>1. ASSUME T # {} PROVE FALSE
  <2>1. PICK m \in T : \A k \in T : m <= k
    BY <1>1, SmallestMember
  <2>2. CASE m = 0
    <3> DEFINE g == [s \in SUBSET S |-> base]
    <3>1. Below(g, 0)
      <4> SUFFICES ASSUME NEW s \in SUBSET S, Cardinality(s) <= 0
                   PROVE  Folding(g, base, step, s)
        OBVIOUS
      <4>1. s = {}
        BY <1>0
      <4> QED
        BY <4>1 DEF Folding
    <3>2. g \in [SUBSET S -> Int]
      OBVIOUS
    <3> QED
      BY <2>1, <2>2, <3>1, <3>2
  <2>3. CASE m # 0
    <3>0. m \in Nat /\ m - 1 \in Nat
      BY <2>1, <2>3
    <3>1. m - 1 \notin T
      <4> HIDE DEF T
      <4> QED
        BY <2>1, <3>0
    <3>2. PICK g \in [SUBSET S -> Int] : Below(g, m - 1)
      BY <3>0, <3>1
    <3> DEFINE h == [s \in SUBSET S |-> IF s = {} THEN base ELSE step[s][g[s \ {Chosen(s)}]]]
    <3>3. h \in [SUBSET S -> Int]
      <4> SUFFICES ASSUME NEW s \in SUBSET S, s # {} PROVE step[s][g[s \ {Chosen(s)}]] \in Int
        OBVIOUS
      <4>1. g[s \ {Chosen(s)}] \in Int
        BY <3>2
      <4> QED
        BY <4>1
    <3>4. \A s \in SUBSET S : Cardinality(s) <= m - 1 => h[s] = g[s]
      BY <3>2 DEF Folding
    <3>5. ASSUME NEW s \in SUBSET S, Cardinality(s) <= m PROVE Folding(h, base, step, s)
      <4>1. CASE s = {}
        BY <4>1 DEF Folding
      <4>2. CASE s # {}
        <5>1. /\ s \ {Chosen(s)} \in SUBSET S
              /\ Cardinality(s \ {Chosen(s)}) <= m - 1
          <6>1. /\ s \ {Chosen(s)} \in SUBSET S /\ Cardinality(s) \in Nat
                /\ Cardinality(s \ {Chosen(s)}) = Cardinality(s) - 1
            BY <1>0, <4>2
          <6> QED
            BY <3>0, <3>5, <6>1
        <5>2. h[s \ {Chosen(s)}] = g[s \ {Chosen(s)}]
          BY <3>4, <5>1
        <5> QED
          BY <4>2, <5>2 DEF Folding
      <4> QED
        BY <4>1, <4>2
    <3> HIDE DEF h
    <3>6. Below(h, m)
      BY <3>5
    <3> QED
      BY <2>1, <3>3, <3>6
  <2> QED
    BY <2>2, <2>3
<1>2. PICK g \in [SUBSET S -> Int] : Below(g, Cardinality(S))
  BY <1>0, <1>1
<1>3. \A s \in SUBSET S : Folding(g, base, step, s)
  BY <1>0, <1>2
<1> QED
  BY <1>3 DEF HasFold

(* h sums f over the subsets of S.                                         *)
SumOf(h, f, S) ==
  h = [s \in SUBSET S |-> IF s = {} THEN 0 ELSE f[Chosen(s)] + h[s \ {Chosen(s)}]]

LEMMA SumExists ==
  ASSUME NEW S, IsFiniteSet(S), NEW f \in [S -> Int]
  PROVE  \E h : SumOf(h, f, S)
<1> DEFINE step == [s \in SUBSET S |-> [v \in Int |-> IF s = {} THEN 0 ELSE f[Chosen(s)] + v]]
<1>1. \A s \in SUBSET S : s # {} => Chosen(s) \in S
  BY DEF Chosen
<1>2. step \in [SUBSET S -> [Int -> Int]]
  BY <1>1
<1>3. PICK g \in [SUBSET S -> Int] : \A s \in SUBSET S : Folding(g, 0, step, s)
  <2>1. 0 \in Int
    OBVIOUS
  <2> HIDE DEF step
  <2>2. HasFold(S, 0, step)
    BY <1>2, <2>1, FoldExists
  <2> QED
    BY <2>2 DEF HasFold
<1>4. ASSUME NEW s \in SUBSET S
      PROVE  g[s] = IF s = {} THEN 0 ELSE f[Chosen(s)] + g[s \ {Chosen(s)}]
  <2>1. s \ {Chosen(s)} \in SUBSET S /\ g[s \ {Chosen(s)}] \in Int
    OBVIOUS
  <2>2. s # {} => step[s][g[s \ {Chosen(s)}]] = f[Chosen(s)] + g[s \ {Chosen(s)}]
    BY <2>1
  <2>3. g[s] = IF s = {} THEN 0 ELSE step[s][g[s \ {Chosen(s)}]]
    BY <1>3 DEF Folding
  <2> HIDE DEF step
  <2> QED
    BY <2>2, <2>3
<1>5. SumOf(g, f, S)
  BY <1>4 DEF SumOf
<1> QED
  BY <1>5

(* A sum is an integer and may be taken in any order.                      *)
Totals(h, f, S) ==
  /\ h \in [SUBSET S -> Int] /\ h[{}] = 0
  /\ \A s \in SUBSET S : \A x \in s : h[s] = f[x] + h[s \ {x}]

LEMMA SumFacts ==
  ASSUME NEW S, IsFiniteSet(S), NEW f \in [S -> Int], NEW h, SumOf(h, f, S)
  PROVE  Totals(h, f, S)
<1> DEFINE Good(s) == h[s] \in Int /\ \A x \in s : h[s] = f[x] + h[s \ {x}]
           T == {n \in Nat : \E s \in SUBSET S : Cardinality(s) = n /\ ~Good(s)}
<1>1. h[{}] = 0 /\ DOMAIN h = SUBSET S
  BY DEF SumOf
<1>2. \A s \in SUBSET S : s # {} => h[s] = f[Chosen(s)] + h[s \ {Chosen(s)}]
  BY DEF SumOf
<1>4. ASSUME NEW s \in SUBSET S, \A r \in SUBSET s : r # s => Good(r)
      PROVE  Good(s)
  <2>1. CASE s = {}
    BY <1>1, <2>1
  <2>2. CASE s # {}
    <3> DEFINE c == Chosen(s)
    <3>1. c \in s /\ h[s] = f[c] + h[s \ {c}]
      BY <1>2, <2>2 DEF Chosen
    <3> HIDE DEF c
    <3>2. h[s] \in Int
      <4>1. h[s \ {c}] \in Int /\ f[c] \in Int
        BY <1>4, <3>1
      <4> QED
        BY <3>1, <4>1
    <3>3. ASSUME NEW x \in s, x # c PROVE h[s] = f[x] + h[s \ {x}]
      <4> DEFINE rest == (s \ {c}) \ {x}
      <4>1. rest = (s \ {x}) \ {c}
        OBVIOUS
      <4>2. h[s \ {c}] = f[x] + h[rest] /\ h[s \ {c}] \in Int
        BY <1>4, <3>1, <3>3
      <4>3. h[s \ {x}] = f[c] + h[rest] /\ h[s \ {x}] \in Int
        BY <1>4, <3>1, <3>3, <4>1
      <4>4. h[rest] \in Int
        BY <1>4, <3>1
      <4>5. f[x] \in Int /\ f[c] \in Int
        BY <3>1
      <4> HIDE DEF rest
      <4> QED
        BY <3>1, <4>2, <4>3, <4>4, <4>5
    <3> QED
      BY <3>1, <3>2, <3>3
  <2> QED
    BY <2>1, <2>2
<1>5. T = {}
  <2> SUFFICES ASSUME T # {} PROVE FALSE
    OBVIOUS
  <2>1. PICK n \in T : \A m \in T : n <= m
    BY SmallestMember
  <2>2. PICK s \in SUBSET S : Cardinality(s) = n /\ ~Good(s)
    BY <2>1
  <2>3. ASSUME NEW r \in SUBSET s, r # s PROVE Good(r)
    <3>1. /\ r \in SUBSET S /\ Cardinality(r) < n
          /\ Cardinality(r) \in Nat /\ n \in Nat
      <4>1. IsFiniteSet(s) /\ r \subseteq s
        BY FS_Subset
      <4>2. Cardinality(r) <= n /\ (Cardinality(r) = n => r = s) /\ IsFiniteSet(r)
        BY <2>2, <4>1, FS_Subset
      <4> QED
        BY <2>2, <2>3, <4>1, <4>2, FS_CardinalityType
    <3>2. ~Good(r) => Cardinality(r) \in T
      BY <3>1
    <3> HIDE DEF T
    <3> QED
      BY <2>1, <3>1, <3>2
  <2> QED
    BY <1>4, <2>2, <2>3
<1>6. \A s \in SUBSET S : Good(s)
  <2>1. \A s \in SUBSET S : Cardinality(s) \in Nat
    BY FS_Subset, FS_CardinalityType
  <2> QED
    BY <1>5, <2>1
<1>7. h \in [SUBSET S -> Int]
  BY <1>6 DEF SumOf
<1> QED
  BY <1>1, <1>6, <1>7 DEF Totals

(* h multiplies the members of the subsets of S.                           *)
ProductsOf(h, S) ==
  h = [s \in SUBSET S |-> IF s = {} THEN 1 ELSE Chosen(s) * h[s \ {Chosen(s)}]]

LEMMA ProductExists ==
  ASSUME NEW S \in SUBSET Int, IsFiniteSet(S)
  PROVE  \E h : ProductsOf(h, S) /\ ProductSet(S) = h[S]
<1> DEFINE step == [s \in SUBSET S |-> [v \in Int |-> IF s = {} THEN 0 ELSE Chosen(s) * v]]
<1>1. ASSUME NEW s \in SUBSET S, s # {}, NEW v \in Int PROVE Chosen(s) * v \in Int
  <2>1. Chosen(s) \in Int
    BY <1>1 DEF Chosen
  <2> QED
    BY <2>1
<1>2. step \in [SUBSET S -> [Int -> Int]]
  BY <1>1
<1>3. PICK g \in [SUBSET S -> Int] : \A s \in SUBSET S : Folding(g, 1, step, s)
  <2>1. 1 \in Int
    OBVIOUS
  <2> HIDE DEF step
  <2>2. HasFold(S, 1, step)
    BY <1>2, <2>1, FoldExists
  <2> QED
    BY <2>2 DEF HasFold
<1>4. ASSUME NEW s \in SUBSET S
      PROVE  g[s] = IF s = {} THEN 1 ELSE Chosen(s) * g[s \ {Chosen(s)}]
  <2>1. s \ {Chosen(s)} \in SUBSET S /\ g[s \ {Chosen(s)}] \in Int
    OBVIOUS
  <2>2. s # {} => step[s][g[s \ {Chosen(s)}]] = Chosen(s) * g[s \ {Chosen(s)}]
    BY <2>1
  <2>3. g[s] = IF s = {} THEN 1 ELSE step[s][g[s \ {Chosen(s)}]]
    BY <1>3 DEF Folding
  <2> HIDE DEF step
  <2> QED
    BY <2>2, <2>3
<1>5. ProductsOf(g, S)
  BY <1>4 DEF ProductsOf
<1> DEFINE h == CHOOSE f : ProductsOf(f, S)
<1>6. ProductsOf(h, S)
  BY <1>5
<1>7. ProductSet(S) = h[S]
  BY Zenon DEF ProductSet, FoldSet, MapThenFoldSet, ProductsOf, Chosen
<1> QED
  BY <1>6, <1>7

LEMMA SmallSetsFinite ==
  ASSUME NEW x, NEW y, NEW z
  PROVE  /\ IsFiniteSet({x, y}) /\ IsFiniteSet({x, y, z})
         /\ x # y => Cardinality({x, y}) = 2
         /\ x # y /\ x # z /\ y # z => Cardinality({x, y, z}) = 3
<1>1. IsFiniteSet({x}) /\ Cardinality({x}) = 1
  BY FS_Singleton
<1>2. {x, y} = {x} \cup {y} /\ {x, y, z} = {x, y} \cup {z}
  OBVIOUS
<1>3. /\ IsFiniteSet({x} \cup {y})
      /\ Cardinality({x} \cup {y}) = IF y \in {x} THEN 1 ELSE 2
  BY <1>1, FS_AddElement
<1>4. /\ IsFiniteSet({x, y} \cup {z})
      /\ z \notin {x, y} => Cardinality({x, y} \cup {z}) = Cardinality({x, y}) + 1
  BY <1>2, <1>3, FS_AddElement
<1> QED
  BY <1>2, <1>3, <1>4

LEMMA ProductOfTwo ==
  ASSUME NEW m \in Int, NEW n \in Int, m # n
  PROVE  ProductSet({m, n}) = m * n
<1> DEFINE S == {m, n}
<1>1. S \in SUBSET Int /\ IsFiniteSet(S)
  BY SmallSetsFinite
<1> HIDE DEF S
<1>2. PICK h : ProductsOf(h, S) /\ ProductSet(S) = h[S]
  BY <1>1, ProductExists
<1> USE DEF S
<1>3. h[{}] = 1 /\ \A s \in SUBSET S : s # {} => h[s] = Chosen(s) * h[s \ {Chosen(s)}]
  BY <1>2 DEF ProductsOf
<1>4. ASSUME NEW c \in S PROVE h[{c}] = c
  <2>1. Chosen({c}) = c /\ {c} \ {c} = {} /\ {c} \in SUBSET S /\ {c} # {} /\ c \in Int
    BY DEF Chosen
  <2>2. h[{c}] = c * 1
    BY <1>3, <2>1
  <2> QED
    BY <2>1, <2>2
<1>5. Chosen(S) \in S /\ S \ {m} = {n} /\ S \ {n} = {m}
  BY DEF Chosen
<1>6. h[S] = Chosen(S) * h[S \ {Chosen(S)}]
  BY <1>3
<1>7. h[S] = m * n \/ h[S] = n * m
  BY <1>4, <1>5, <1>6
<1> QED
  BY <1>2, <1>7

LEMMA ProductOfThree ==
  ASSUME NEW m \in Int, NEW n \in Int, NEW k \in Int, m # n, m # k, n # k
  PROVE  ProductSet({m, n, k}) = m * n * k
<1> DEFINE S == {m, n, k}
<1>1. S \in SUBSET Int /\ IsFiniteSet(S)
  BY SmallSetsFinite
<1> HIDE DEF S
<1>2. PICK h : ProductsOf(h, S) /\ ProductSet(S) = h[S]
  BY <1>1, ProductExists
<1> USE DEF S
<1>3. h[{}] = 1 /\ \A s \in SUBSET S : s # {} => h[s] = Chosen(s) * h[s \ {Chosen(s)}]
  BY <1>2 DEF ProductsOf
<1>4. ASSUME NEW c \in S PROVE h[{c}] = c
  <2>1. Chosen({c}) = c /\ {c} \ {c} = {} /\ {c} \in SUBSET S /\ {c} # {} /\ c \in Int
    BY DEF Chosen
  <2>2. h[{c}] = c * 1
    BY <1>3, <2>1
  <2> QED
    BY <2>1, <2>2
<1>5. ASSUME NEW c \in S, NEW d \in S, c # d PROVE h[{c, d}] = c * d
  <2>1. Chosen({c, d}) \in {c, d} /\ {c, d} \ {c} = {d} /\ {c, d} \ {d} = {c} /\ {c, d} \in SUBSET S
    BY <1>5 DEF Chosen
  <2>2. h[{c, d}] = Chosen({c, d}) * h[{c, d} \ {Chosen({c, d})}]
    BY <1>3, <2>1
  <2>3. h[{c, d}] = c * d \/ h[{c, d}] = d * c
    BY <1>4, <2>1, <2>2
  <2> QED
    BY <2>3
<1>6. Chosen(S) \in S /\ S \ {m} = {n, k} /\ S \ {n} = {m, k} /\ S \ {k} = {m, n}
  BY DEF Chosen
<1>7. h[S] = Chosen(S) * h[S \ {Chosen(S)}]
  BY <1>3
<1>8. h[S] = m * (n * k) \/ h[S] = n * (m * k) \/ h[S] = k * (m * n)
  BY <1>5, <1>6, <1>7
<1>9. m * (n * k) = m * n * k /\ n * (m * k) = m * n * k /\ k * (m * n) = m * n * k
  OBVIOUS
<1> QED
  BY <1>2, <1>8, <1>9

-----------------------------------------------------------------------------
(* The gateway's decoder.  A term of the sum, for the residue a of the      *)
(* modulus m and the product p of the other moduli, is a modulo m and      *)
(* nothing modulo what divides p.                                          *)
IsTerm(t, a, p, m) == t = a * p * mod_inverse(p, m)

LEMMA TermFacts ==
  ASSUME NEW m \in Nat \ {0, 1}, NEW p \in Int, Combination(1, p, m), NEW a \in Int,
         NEW t, IsTerm(t, a, p, m)
  PROVE  /\ t \in Int /\ Multiple(t - a, m)
         /\ \A d \in Int : Multiple(p, d) => Multiple(t, d)
<1>1. mod_inverse(p, m) \in 0 .. m - 1 /\ Multiple(p * mod_inverse(p, m) - 1, m)
  BY InverseExists
<1>2. PICK v \in Int : v = mod_inverse(p, m)
  BY <1>1
<1>3. t = (a * p) * v /\ a * p \in Int /\ p * v \in Int /\ Multiple(p * v - 1, m)
  BY <1>1, <1>2 DEF IsTerm
<1>4. t \in Int
  BY <1>3
<1>5. Multiple(t - a, m)
  <2>1. Multiple(a * (p * v - 1), m)
    <3>1. PICK w \in Int : w = p * v - 1
      BY <1>3
    <3>2. m \in Int /\ Multiple(w, m)
      BY <1>3, <3>1
    <3>3. Multiple(a * w, m)
      BY <3>2, MultipleProduct
    <3> QED
      BY <3>1, <3>3
  <2>2. a * (p * v - 1) = (a * p) * v - a
    OBVIOUS
  <2> QED
    BY <1>3, <2>1, <2>2
<1>6. ASSUME NEW d \in Int, Multiple(p, d) PROVE Multiple(t, d)
  <2>1. Multiple(a * p, d)
    BY <1>6, MultipleProduct
  <2>2. Multiple((a * p) * v, d)
    BY <1>3, <2>1, MultipleProduct
  <2> QED
    BY <1>3, <2>2
<1> QED
  BY <1>4, <1>5, <1>6

(* A number that is r modulo m, and one that m divides, sum to r modulo m. *)
LEMMA TermsCongruent ==
  ASSUME NEW m \in Nat \ {0, 1}, NEW r \in Int, NEW a \in Int, NEW t \in Int, NEW u \in Int,
         Multiple(r - a, m), Multiple(t - a, m), Multiple(u, m)
  PROVE  Multiple(t + u - r, m)
<1>1. PICK x \in Int, y \in Int : x = t - a /\ y = r - a
  OBVIOUS
<1>2. m \in Int /\ Multiple(x, m) /\ Multiple(y, m)
  BY <1>1
<1>3. PICK z \in Int : z = x - y
  OBVIOUS
<1>4. Multiple(z, m)
  BY <1>2, <1>3, MultipleSum
<1>5. Multiple(z + u, m)
  BY <1>2, <1>4, MultipleSum
<1>6. z + u = t + u - r
  BY <1>1, <1>3
<1> QED
  BY <1>5, <1>6

LEMMA TwoTerms ==
  ASSUME NEW m \in Nat \ {0, 1}, NEW n \in Nat \ {0, 1}, Combination(1, m, n), NEW r \in Int,
         NEW a \in Int, Multiple(r - a, m), NEW b \in Int, Multiple(r - b, n),
         NEW t, IsTerm(t, a, n, m), NEW u, IsTerm(u, b, m, n)
  PROVE  t \in Int /\ u \in Int /\ Multiple(t + u - r, m * n)
<1>1. Combination(1, n, m)
  BY CombinationSymmetric
<1>2. Multiple(m, m) /\ Multiple(n, n)
  <2>1. m = m * 1 /\ n = n * 1
    OBVIOUS
  <2> QED
    BY <2>1 DEF Multiple
<1>3. t \in Int /\ Multiple(t - a, m) /\ Multiple(t, n)
  BY <1>1, <1>2, TermFacts
<1>4. u \in Int /\ Multiple(u - b, n) /\ Multiple(u, m)
  BY <1>2, TermFacts
<1>5. Multiple(t + u - r, m)
  BY <1>3, <1>4, TermsCongruent
<1>6. Multiple(u + t - r, n)
  BY <1>3, <1>4, TermsCongruent
<1>7. u + t - r = t + u - r
  BY <1>3, <1>4
<1> QED
  BY <1>3, <1>4, <1>5, <1>6, <1>7, CommonMultiple

LEMMA ThreeTerms ==
  ASSUME NEW m \in Nat \ {0, 1}, NEW n \in Nat \ {0, 1}, NEW k \in Nat \ {0, 1},
         Combination(1, m, n), Combination(1, m, k), Combination(1, n, k), NEW r \in Int,
         NEW a \in Int, Multiple(r - a, m), NEW b \in Int, Multiple(r - b, n),
         NEW c \in Int, Multiple(r - c, k),
         NEW t, IsTerm(t, a, n * k, m), NEW u, IsTerm(u, b, m * k, n), NEW v, IsTerm(v, c, m * n, k)
  PROVE  /\ t \in Int /\ u \in Int /\ v \in Int
         /\ Multiple(t + u + v - r, m * n * k)
<1>1. Combination(1, n, m) /\ Combination(1, k, m) /\ Combination(1, k, n)
  BY CombinationSymmetric
<1>2. PICK p \in Int, q \in Int, s \in Int : p = n * k /\ q = m * k /\ s = m * n
  OBVIOUS
<1>3. Combination(1, p, m) /\ Combination(1, q, n) /\ Combination(1, s, k)
  BY <1>1, <1>2, CoprimeToProduct
<1>4. /\ Multiple(p, n) /\ Multiple(p, k) /\ Multiple(q, m)
      /\ Multiple(q, k) /\ Multiple(s, m) /\ Multiple(s, n)
  <2>1. m \in Int /\ n \in Int /\ k \in Int
    OBVIOUS
  <2> QED
    BY <1>2, <2>1, OwnMultiple
<1>5. t \in Int /\ Multiple(t - a, m) /\ Multiple(t, n) /\ Multiple(t, k)
  BY <1>2, <1>3, <1>4, TermFacts
<1>6. u \in Int /\ Multiple(u - b, n) /\ Multiple(u, m) /\ Multiple(u, k)
  BY <1>2, <1>3, <1>4, TermFacts
<1>7. v \in Int /\ Multiple(v - c, k) /\ Multiple(v, m) /\ Multiple(v, n)
  BY <1>2, <1>3, <1>4, TermFacts
<1>8. Multiple(t + (u + v) - r, m) /\ Multiple(u + (t + v) - r, n) /\ Multiple(v + (t + u) - r, k)
  <2>1. Multiple(u + v, m) /\ Multiple(t + v, n) /\ Multiple(t + u, k)
    <3>1. m \in Int /\ n \in Int /\ k \in Int
      OBVIOUS
    <3>2. Multiple(u + v, m)
      BY <1>6, <1>7, <3>1, MultipleSum
    <3>3. Multiple(t + v, n)
      BY <1>5, <1>7, <3>1, MultipleSum
    <3>4. Multiple(t + u, k)
      BY <1>5, <1>6, <3>1, MultipleSum
    <3> QED
      BY <3>2, <3>3, <3>4
  <2>2. u + v \in Int /\ t + v \in Int /\ t + u \in Int
    BY <1>5, <1>6, <1>7
  <2> QED
    BY <1>5, <1>6, <1>7, <2>1, <2>2, TermsCongruent
<1>9. PICK x \in Int : x = t + u + v - r /\ Multiple(x, m) /\ Multiple(x, n) /\ Multiple(x, k)
  <2>1. /\ t + u + v - r \in Int
        /\ t + (u + v) - r = t + u + v - r
        /\ u + (t + v) - r = t + u + v - r
        /\ v + (t + u) - r = t + u + v - r
    BY <1>5, <1>6, <1>7
  <2> QED
    BY <1>8, <2>1
<1>10. Multiple(x, s)
  BY <1>2, <1>9, CommonMultiple
<1>11. Multiple(x, s * k)
  BY <1>3, <1>9, <1>10, CommonMultiple
<1> QED
  BY <1>2, <1>5, <1>6, <1>7, <1>9, <1>11

LEMMA ModuliFacts ==
  ASSUME NEW i \in Indices, NEW j \in Indices, i # j
  PROVE  /\ Modulus[i] \in Nat \ {0, 1} /\ Modulus[j] \in Nat \ {0, 1}
         /\ Modulus[i] # Modulus[j] /\ Combination(1, Modulus[i], Modulus[j])
<1>1. PICK m \in Nat \ {0, 1}, n \in Nat \ {0, 1} : m = Modulus[i] /\ n = Modulus[j]
  BY CrtAssumption
<1>2. Coprime(m, n)
  BY <1>1, CrtAssumption
<1>3. m # n
  <2>1. m \in 2 .. m /\ m % m = 0
    OBVIOUS
  <2> QED
    BY <1>2, <2>1 DEF Coprime
<1>4. Combination(1, m, n)
  BY <1>2, CoprimeCombination
<1> QED
  BY <1>1, <1>3, <1>4

LEMMA ExactQuotient ==
  ASSUME NEW m \in Nat \ {0, 1}, NEW x \in Int, NEW p, p = m * x
  PROVE  p \div m = x
<1>1. m \in Nat \ {0} /\ 0 \in 0 .. m - 1 /\ p \in Int
  OBVIOUS
<1>2. p = m * x + 0
  BY <1>1
<1> QED
  BY <1>1, <1>2, DivModUnique

(* The product of the moduli that arrived, and what it leaves without one. *)
LEMMA ProductOfPair ==
  ASSUME NEW i \in Indices, NEW j \in Indices, i # j
  PROVE  /\ ProductOf({i, j}) = Modulus[i] * Modulus[j]
         /\ ProductOf({i, j}) \in Nat \ {0}
         /\ ProductOf({i, j}) \div Modulus[i] = Modulus[j]
         /\ ProductOf({i, j}) \div Modulus[j] = Modulus[i]
<1>1. PICK m \in Nat \ {0, 1}, n \in Nat \ {0, 1} : m = Modulus[i] /\ n = Modulus[j] /\ m # n
  BY ModuliFacts
<1>2. {Modulus[x] : x \in {i, j}} = {m, n}
  BY <1>1
<1>3. ProductOf({i, j}) = m * n
  <2>1. m \in Int /\ n \in Int
    OBVIOUS
  <2> QED
    BY <1>1, <1>2, <2>1, ProductOfTwo DEF ProductOf
<1>4. PICK p \in Nat \ {0} : p = m * n
  OBVIOUS
<1>5. p \div m = n /\ p \div n = m
  <2>1. p = m * n /\ p = n * m
    BY <1>4
  <2> QED
    BY <2>1, ExactQuotient
<1> QED
  BY <1>1, <1>3, <1>4, <1>5

LEMMA ProductOfAll ==
  ASSUME NEW m, NEW n, NEW k, m = Modulus[0], n = Modulus[1], k = Modulus[2]
  PROVE  /\ ProductOf(Indices) = m * n * k
         /\ ProductOf(Indices) \in Nat \ {0}
         /\ ProductOf(Indices) \div m = n * k
         /\ ProductOf(Indices) \div n = m * k
         /\ ProductOf(Indices) \div k = m * n
<1>1. 0 \in Indices /\ 1 \in Indices /\ 2 \in Indices /\ Indices = {0, 1, 2}
  BY DEF Indices
<1>2. /\ m \in Nat \ {0, 1} /\ n \in Nat \ {0, 1} /\ k \in Nat \ {0, 1}
      /\ m # n /\ m # k /\ n # k
  BY <1>1, ModuliFacts
<1>3. {Modulus[x] : x \in Indices} = {m, n, k}
  BY <1>1
<1>4. ProductOf(Indices) = m * n * k
  <2>1. m \in Int /\ n \in Int /\ k \in Int
    BY <1>2
  <2>2. ProductSet({m, n, k}) = m * n * k
    BY <1>2, <2>1, ProductOfThree
  <2>3. ProductOf(Indices) = ProductSet({m, n, k})
    BY <1>3, Zenon DEF ProductOf
  <2> QED
    BY <2>2, <2>3
<1>5. PICK p \in Nat \ {0} : p = m * n * k
  <2>1. \A x \in Nat \ {0}, y \in Nat \ {0} : x * y \in Nat \ {0}
    OBVIOUS
  <2> QED
    BY <1>2, <2>1
<1>6. p \div m = n * k /\ p \div n = m * k /\ p \div k = m * n
  <2>1. PICK x \in Int, y \in Int, z \in Int : x = n * k /\ y = m * k /\ z = m * n
    BY <1>2
  <2>2. p = m * x /\ p = n * y /\ p = k * z
    BY <1>2, <1>5, <2>1
  <2>3. p \div m = x /\ p \div n = y /\ p \div k = z
    BY <1>2, <2>2, ExactQuotient
  <2> QED
    BY <2>1, <2>3
<1> QED
  BY <1>4, <1>5, <1>6

(* The decoder's sum over the terms.                                        *)
LEMMA SumOfTerms ==
  ASSUME NEW residues, IsFiniteSet(DOMAIN residues),
         \A i \in DOMAIN residues : Term(residues, i) \in Int
  PROVE  \E h : /\ SumOf(h, [i \in DOMAIN residues |-> Term(residues, i)], DOMAIN residues)
                /\ MapThenSumSet(LAMBDA i : Term(residues, i), DOMAIN residues) = h[DOMAIN residues]
<1> DEFINE D == DOMAIN residues
           f == [i \in D |-> Term(residues, i)]
           Sums(g) == g = [s \in SUBSET D |-> IF s = {} THEN 0
                                              ELSE Term(residues, Chosen(s)) + g[s \ {Chosen(s)}]]
           h == CHOOSE g : Sums(g)
<1>1. ASSUME NEW s \in SUBSET D, s # {} PROVE f[Chosen(s)] = Term(residues, Chosen(s))
  <2>1. Chosen(s) \in D
    BY <1>1 DEF Chosen
  <2> QED
    BY <2>1
<1>2. ASSUME NEW g PROVE Sums(g) <=> SumOf(g, f, D)
  <2> HIDE DEF f
  <2> QED
    BY <1>1 DEF SumOf
<1>3. \E g : SumOf(g, f, D)
  <2>1. f \in [D -> Int]
    OBVIOUS
  <2> HIDE DEF f, D
  <2> QED
    BY <2>1, SumExists DEF D
<1>4. Sums(h)
  <2> HIDE DEF f, Sums
  <2> QED
    BY <1>2, <1>3
<1>5. SumOf(h, f, D)
  BY <1>2, <1>4
<1>6. MapThenSumSet(LAMBDA i : Term(residues, i), D) = h[D]
  BY Zenon DEF MapThenSumSet, MapThenFoldSet, Chosen
<1> QED
  BY <1>5, <1>6

Arriving(r, I) == [i \in I |-> encode(r)[i]]

(* A residue differs from the reading by a multiple of the modulus.         *)
LEMMA ResidueFacts ==
  ASSUME NEW r \in Int, NEW I \in SUBSET Indices, NEW i \in I
  PROVE  /\ Arriving(r, I)[i] \in Int
         /\ Multiple(r - Arriving(r, I)[i], Modulus[i])
<1>1. PICK m \in Nat \ {0} : m = Modulus[i]
  BY CrtAssumption
<1>2. Arriving(r, I)[i] = r % m
  BY <1>1 DEF Arriving, encode
<1>3. r % m \in Int /\ Multiple(r - (r % m), m)
  <2>1. r % m \in Int
    OBVIOUS
  <2>2. Multiple(r - (r % m), m)
    BY RemainderIsCongruent, Zenon
  <2> QED
    BY <2>1, <2>2
<1> QED
  BY <1>1, <1>2, <1>3

LEMMA TermIs ==
  ASSUME NEW residues, NEW i \in DOMAIN residues, NEW p,
         ProductOf(DOMAIN residues) \div Modulus[i] = p
  PROVE  IsTerm(Term(residues, i), residues[i], p, Modulus[i])
BY Zenon DEF Term, IsTerm

LEMMA PairDecodes ==
  ASSUME NEW r \in Int, NEW i \in Indices, NEW j \in Indices, i # j
  PROVE  decode(Arriving(r, {i, j})) = r % ProductOf({i, j})
<1> DEFINE D == {i, j}
           res == Arriving(r, D)
           f == [k \in D |-> Term(res, k)]
<1>1. DOMAIN res = D /\ IsFiniteSet(D) /\ D \in SUBSET Indices
  BY SmallSetsFinite DEF Arriving
<1>2. PICK m \in Nat \ {0, 1}, n \in Nat \ {0, 1} :
        m = Modulus[i] /\ n = Modulus[j] /\ Combination(1, m, n)
  BY ModuliFacts
<1>3. PICK p \in Nat \ {0} : p = ProductOf(D) /\ p = m * n
  BY <1>2, ProductOfPair
<1>3a. ProductOf(D) \div m = n /\ ProductOf(D) \div n = m
  BY <1>2, ProductOfPair
<1>4. PICK a \in Int, b \in Int :
        a = res[i] /\ b = res[j] /\ Multiple(r - a, m) /\ Multiple(r - b, n)
  <2>1. i \in D /\ j \in D
    OBVIOUS
  <2> HIDE DEF D
  <2> QED
    BY <1>1, <1>2, <2>1, ResidueFacts
<1> HIDE DEF res
<1>5. IsTerm(Term(res, i), a, n, m) /\ IsTerm(Term(res, j), b, m, n)
  BY <1>1, <1>2, <1>3a, <1>4, TermIs
<1>6. PICK t \in Int, u \in Int :
        t = Term(res, i) /\ u = Term(res, j) /\ Multiple(t + u - r, p)
  <2>1. /\ Term(res, i) \in Int /\ Term(res, j) \in Int
        /\ Multiple(Term(res, i) + Term(res, j) - r, m * n)
    BY <1>2, <1>4, <1>5, TwoTerms
  <2> QED
    BY <1>3, <2>1
<1>7. PICK h : SumOf(h, f, D) /\ MapThenSumSet(LAMBDA k : Term(res, k), D) = h[D]
  <2>1. \A k \in DOMAIN res : Term(res, k) \in Int
    BY <1>1, <1>6
  <2>2. \E h : /\ SumOf(h, [k \in DOMAIN res |-> Term(res, k)], DOMAIN res)
               /\ MapThenSumSet(LAMBDA k : Term(res, k), DOMAIN res) = h[DOMAIN res]
    BY <1>1, <2>1, SumOfTerms
  <2> QED
    BY <1>1, <2>2
<1>8. h[D] = t + u
  <2>1. f \in [D -> Int] /\ f[i] = t /\ f[j] = u
    BY <1>6
  <2>2. h[{}] = 0 /\ \A s \in SUBSET D : \A x \in s : h[s] = f[x] + h[s \ {x}]
    <3>1. SumOf(h, f, D)
      BY <1>7
    <3> HIDE DEF f, D
    <3>2. Totals(h, f, D)
      BY <1>1, <2>1, <3>1, SumFacts
    <3> QED
      BY <3>2 DEF Totals
  <2>3. D \ {i} = {j} /\ {j} \ {j} = {} /\ {j} \in SUBSET D
    OBVIOUS
  <2>4. h[{j}] = f[j] + h[{}] /\ h[D] = f[i] + h[{j}]
    <3> HIDE DEF f
    <3> QED
      BY <2>2, <2>3
  <2> QED
    BY <2>1, <2>2, <2>4
<1>9. PICK x \in Int : x = t + u
  OBVIOUS
<1>10. decode(res) = x % p
  BY <1>1, <1>3, <1>7, <1>8, <1>9, Zenon DEF decode
<1>11. Multiple(x - r, p)
  BY <1>6, <1>9
<1>12. x % p = r % p
  BY <1>11, SameRemainder
<1> QED
  BY <1>3, <1>10, <1>12, Zenon DEF res

LEMMA AllDecode ==
  ASSUME NEW r \in Int
  PROVE  decode(Arriving(r, Indices)) = r % ProductOf(Indices)
<1> DEFINE D == Indices
           res == Arriving(r, D)
           f == [k \in D |-> Term(res, k)]
<1>0. D = {0, 1, 2} /\ 0 \in Indices /\ 1 \in Indices /\ 2 \in Indices
  BY DEF Indices
<1>1. DOMAIN res = D /\ IsFiniteSet(D) /\ D \in SUBSET Indices
  BY <1>0, SmallSetsFinite DEF Arriving
<1>2. PICK m \in Nat \ {0, 1}, n \in Nat \ {0, 1}, k \in Nat \ {0, 1} :
        /\ m = Modulus[0] /\ n = Modulus[1] /\ k = Modulus[2]
        /\ Combination(1, m, n) /\ Combination(1, m, k) /\ Combination(1, n, k)
  BY <1>0, ModuliFacts
<1>3. PICK p \in Nat \ {0} : p = ProductOf(D) /\ p = m * n * k
  BY <1>2, ProductOfAll
<1>3a. /\ ProductOf(D) \div m = n * k /\ ProductOf(D) \div n = m * k
       /\ ProductOf(D) \div k = m * n
  BY <1>2, ProductOfAll
<1>4. PICK a \in Int, b \in Int, c \in Int :
        /\ a = res[0] /\ b = res[1] /\ c = res[2]
        /\ Multiple(r - a, m) /\ Multiple(r - b, n) /\ Multiple(r - c, k)
  BY <1>0, <1>1, <1>2, ResidueFacts
<1> HIDE DEF res
<1>5. /\ IsTerm(Term(res, 0), a, n * k, m) /\ IsTerm(Term(res, 1), b, m * k, n)
      /\ IsTerm(Term(res, 2), c, m * n, k)
  BY <1>0, <1>1, <1>2, <1>3a, <1>4, TermIs
<1>6. PICK t \in Int, u \in Int, v \in Int :
        /\ t = Term(res, 0) /\ u = Term(res, 1) /\ v = Term(res, 2)
        /\ Multiple(t + u + v - r, p)
  <2>1. /\ Term(res, 0) \in Int /\ Term(res, 1) \in Int /\ Term(res, 2) \in Int
        /\ Multiple(Term(res, 0) + Term(res, 1) + Term(res, 2) - r, m * n * k)
    BY <1>2, <1>4, <1>5, ThreeTerms, ZenonT(60)
  <2> QED
    BY <1>3, <2>1
<1>7. PICK h : SumOf(h, f, D) /\ MapThenSumSet(LAMBDA i : Term(res, i), D) = h[D]
  <2>1. \A i \in DOMAIN res : Term(res, i) \in Int
    BY <1>0, <1>1, <1>6
  <2>2. \E h : /\ SumOf(h, [i \in DOMAIN res |-> Term(res, i)], DOMAIN res)
               /\ MapThenSumSet(LAMBDA i : Term(res, i), DOMAIN res) = h[DOMAIN res]
    BY <1>1, <2>1, SumOfTerms
  <2> QED
    BY <1>1, <2>2
<1>8. h[D] = t + u + v
  <2>1. f \in [D -> Int] /\ f[0] = t /\ f[1] = u /\ f[2] = v
    BY <1>0, <1>6
  <2>2. h[{}] = 0 /\ \A s \in SUBSET D : \A x \in s : h[s] = f[x] + h[s \ {x}]
    <3>1. SumOf(h, f, D)
      BY <1>7
    <3> HIDE DEF f, D
    <3>2. Totals(h, f, D)
      BY <1>1, <2>1, <3>1, SumFacts
    <3> QED
      BY <3>2 DEF Totals
  <2>3. /\ D \ {0} = {1, 2} /\ {1, 2} \ {1} = {2} /\ {2} \ {2} = {}
        /\ {1, 2} \in SUBSET D /\ {2} \in SUBSET D
    BY <1>0
  <2>4. h[{2}] = f[2] + h[{}] /\ h[{1, 2}] = f[1] + h[{2}] /\ h[D] = f[0] + h[{1, 2}]
    <3> HIDE DEF f
    <3> QED
      BY <1>0, <2>2, <2>3
  <2> QED
    BY <2>1, <2>2, <2>4
<1>9. PICK x \in Int : x = t + u + v
  OBVIOUS
<1>10. decode(res) = x % p
  BY <1>1, <1>3, <1>7, <1>8, <1>9, Zenon DEF decode
<1>11. Multiple(x - r, p)
  BY <1>6, <1>9
<1>12. x % p = r % p
  BY <1>11, SameRemainder
<1> QED
  BY <1>3, <1>10, <1>12, Zenon DEF res

-----------------------------------------------------------------------------
(* The firmware's decoder.                                                 *)
LEMMA QuotientAtLeast ==
  ASSUME NEW m \in Nat \ {0}, NEW k \in Int, NEW y \in Int, m * k <= y
  PROVE  k <= y \div m
<1>1. PICK q \in Int, s \in 0 .. m - 1 : y = m * q + s /\ q = y \div m /\ s = y % m
  BY Division
<1>2. m * (k - q) <= s
  <2>1. m * (k - q) = m * k - m * q /\ m * k \in Int /\ m * q \in Int
    OBVIOUS
  <2>2. y = m * q + s
    BY <1>1
  <2> QED
    BY <2>1, <2>2
<1>3. PICK d \in Int : d = k - q
  OBVIOUS
<1>4. ~(d >= 1)
  <2>1. d >= 1 => m * d >= m
    BY ProductGrows
  <2>2. m * d <= s
    BY <1>2, <1>3
  <2>3. m * d \in Int
    OBVIOUS
  <2> QED
    BY <2>1, <2>2, <2>3
<1>5. k <= q
  BY <1>3, <1>4
<1> QED
  BY <1>1, <1>5

LEMMA RemainderAtMost ==
  ASSUME NEW p \in Nat \ {0}, NEW c \in Nat
  PROVE  c % p <= c
<1>1. PICK q \in Int, s \in 0 .. p - 1 : c = p * q + s /\ q = c \div p /\ s = c % p
  BY Division
<1>2. q >= 0
  <2>1. q <= -1 => p * q <= -p
    BY ProductGrows
  <2>2. c = p * q + s /\ p * q \in Int
    BY <1>1
  <2> QED
    BY <2>1, <2>2
<1>3. p * q >= 0 /\ p * q \in Int
  BY <1>2, ProductGrows
<1>4. c = p * q + s
  BY <1>1
<1>5. s <= c
  BY <1>3, <1>4
<1> QED
  BY <1>1, <1>5

(* A multiple of a product is one of its factors.                          *)
LEMMA FactorDivides ==
  ASSUME NEW m \in Int, NEW n \in Int, NEW x, Multiple(x, m * n)
  PROVE  Multiple(x, m) /\ Multiple(x, n)
<1>1. PICK k \in Int : x = (m * n) * k
  BY DEF Multiple
<1>2. PICK u \in Int, v \in Int : u = n * k /\ v = m * k
  OBVIOUS
<1>3. x = m * u /\ x = n * v
  BY <1>1, <1>2
<1> QED
  BY <1>3 DEF Multiple

LEMMA Congruent ==
  ASSUME NEW m \in Int, NEW x \in Int, NEW y \in Int, NEW z \in Int,
         Multiple(x - y, m), Multiple(z - y, m)
  PROVE  Multiple(x - z, m)
<1>1. PICK k \in Int, l \in Int : x - y = m * k /\ z - y = m * l
  BY DEF Multiple
<1>2. m * (k - l) = m * k - m * l /\ m * k \in Int /\ m * l \in Int
  OBVIOUS
<1>3. PICK d \in Int : d = k - l
  OBVIOUS
<1>4. x - z = m * d
  BY <1>1, <1>2, <1>3
<1> QED
  BY <1>4 DEF Multiple

LEMMA MinIs ==
  ASSUME NEW S \in SUBSET Int, NEW x \in S, \A y \in S : x <= y
  PROVE  Min(S) = x
<1>1. Min(S) \in S /\ \A y \in S : Min(S) <= y
  BY DEF Min
<1>2. Min(S) <= x /\ x <= Min(S) /\ x \in Int /\ Min(S) \in Int
  BY <1>1
<1> QED
  BY <1>2

LEMMA FirmwareDecodes ==
  ASSUME NEW r \in Nat, r < CRT_MAX_VALUE, NEW i \in Indices, NEW j \in Indices, i # j
  PROVE  crt_decode(i, r % Modulus[i], j, r % Modulus[j]) = r % ProductOf({i, j})
<1>0. CRT_MAX_VALUE \in Nat
  BY CrtAssumption
<1>1. PICK m \in Nat \ {0, 1}, n \in Nat \ {0, 1} :
        m = Modulus[i] /\ n = Modulus[j] /\ Combination(1, m, n)
  BY ModuliFacts
<1>2. PICK p \in Nat \ {0} : p = ProductOf({i, j}) /\ p = m * n
  BY <1>1, ProductOfPair
<1>3. PICK a \in 0 .. m - 1, b \in 0 .. n - 1, x \in 0 .. p - 1 :
        a = r % m /\ b = r % n /\ x = r % p
  OBVIOUS
<1>3a. /\ r \in Int /\ a \in Int /\ b \in Int /\ x \in Int
       /\ m \in Int /\ n \in Int /\ p \in Int
       /\ m \in Nat \ {0} /\ n \in Nat \ {0}
  OBVIOUS
<1>4. x <= r
  BY <1>3, RemainderAtMost
<1>5. Multiple(r - a, m) /\ Multiple(r - b, n) /\ Multiple(r - x, p)
  <2>1. Multiple(r - (r % m), m)
    BY <1>3a, RemainderIsCongruent, Zenon
  <2>2. Multiple(r - (r % n), n)
    BY <1>3a, RemainderIsCongruent, Zenon
  <2>3. Multiple(r - (r % p), p)
    BY <1>3a, RemainderIsCongruent, Zenon
  <2> QED
    BY <1>3, <2>1, <2>2, <2>3
<1>6. Multiple(r - x, m) /\ Multiple(r - x, n)
  <2>1. PICK d \in Int : d = r - x
    BY <1>3a
  <2>2. Multiple(d, m * n)
    BY <1>2, <1>5, <2>1
  <2>3. Multiple(d, m) /\ Multiple(d, n)
    BY <1>3a, <2>2, FactorDivides
  <2> QED
    BY <2>1, <2>3
<1>7. x % n = b
  <2>1. r % n = x % n
    BY <1>3a, <1>6, SameRemainder
  <2> QED
    BY <1>3, <2>1
<1>8. PICK k \in Int : x = a + k * m
  <2>1. PICK u \in Int, v \in Int : r - a = m * u /\ r - x = m * v
    BY <1>5, <1>6 DEF Multiple
  <2>2. m * (u - v) = m * u - m * v /\ m * u \in Int /\ m * v \in Int
    OBVIOUS
  <2>2a. PICK w \in Int : w = u - v
    OBVIOUS
  <2>2b. x - a = m * w
    BY <2>1, <2>2, <2>2a
  <2>3. PICK k \in Int : x - a = m * k
    BY <2>2b
  <2>4. m * k \in Int /\ m * k = k * m
    OBVIOUS
  <2>5. x = a + k * m
    BY <2>3, <2>4
  <2> QED
    BY <2>5
<1>9. k >= 0
  <2>1. k <= -1 => m * k <= -m
    BY ProductGrows
  <2>2. m * k = k * m /\ m * k \in Int
    OBVIOUS
  <2> QED
    BY <1>8, <2>1, <2>2
<1>10. k <= (CRT_MAX_VALUE - 1 - a) \div m
  <2>1. PICK y \in Int : y = CRT_MAX_VALUE - 1 - a
    BY <1>0
  <2>2. m * k = k * m /\ m * k \in Int
    OBVIOUS
  <2>3. m * k <= y
    BY <1>0, <1>4, <1>8, <2>1, <2>2
  <2>4. k <= y \div m
    BY <2>3, QuotientAtLeast
  <2> QED
    BY <2>1, <2>4
<1>11. x \in Candidates(i, a)
  <2>1. PICK top \in Int : top = (CRT_MAX_VALUE - 1 - a) \div m
    BY <1>0
  <2>2. k \in 0 .. top
    BY <1>9, <1>10, <2>1
  <2>3. k \in 0 .. ((CRT_MAX_VALUE - 1 - a) \div Modulus[i]) /\ x = a + k * Modulus[i]
    BY <1>1, <1>8, <2>1, <2>2
  <2> QED
    BY <2>3, Zenon DEF Candidates
<1>12. ASSUME NEW c \in Candidates(i, a), c % n = b PROVE c \in Int /\ x <= c
  <2>1. PICK l \in 0 .. ((CRT_MAX_VALUE - 1 - a) \div m) : c = a + l * m
    BY <1>1, <1>12, Zenon DEF Candidates
  <2>2. l \in Nat
    BY <1>0
  <2>3. l * m \in Nat /\ l * m = m * l
    BY <2>2
  <2>4. c \in Nat
    BY <2>1, <2>3
  <2>5. Multiple(c - a, m)
    <3>1. c - a = m * l /\ l \in Int
      BY <2>1, <2>2, <2>3
    <3> QED
      BY <3>1 DEF Multiple
  <2>6. Multiple(c - r, m)
    <3>1. c \in Int
      BY <2>4
    <3> QED
      BY <1>3a, <1>5, <2>5, <3>1, Congruent
  <2>7. Multiple(c - r, n)
    <3>1. c % n = r % n
      BY <1>3, <1>12
    <3>2. c \in Int
      BY <2>4
    <3> QED
      BY <1>3a, <3>1, <3>2, SameRemainder
  <2>8. Multiple(c - r, p)
    BY <1>1, <1>2, <1>3a, <2>6, <2>7, CommonMultiple
  <2>9. c % p = r % p
    BY <1>3a, <2>4, <2>8, SameRemainder
  <2>10. c % p <= c
    BY <2>4, RemainderAtMost
  <2> QED
    BY <1>3, <2>4, <2>9, <2>10
<1> DEFINE fits == {c \in Candidates(i, a) : c % n = b}
<1>13. x \in fits /\ \A c \in fits : c \in Int /\ x <= c
  BY <1>7, <1>11, <1>12
<1>14. Min(fits) = x
  <2>1. fits \in SUBSET Int
    BY <1>13
  <2> HIDE DEF fits
  <2> QED
    BY <1>13, <2>1, MinIs
<1>15. crt_decode(i, a, j, b) = x
  <2>1. fits = {c \in Candidates(i, a) : c % Modulus[j] = b}
    BY <1>1
  <2>2. fits # {}
    BY <1>13
  <2> HIDE DEF fits
  <2> QED
    BY <1>14, <2>1, <2>2, Zenon DEF crt_decode
<1> QED
  BY <1>1, <1>2, <1>3, <1>15, Zenon

-----------------------------------------------------------------------------
(* What arrives, two residues or three.                                    *)
LEMMA TwoOrThree ==
  ASSUME NEW I \in SUBSET Indices, Cardinality(I) >= 2
  PROVE  I = Indices \/ \E i, j \in Indices : i # j /\ I = {i, j}
<1>1. Indices = {0, 1, 2}
  BY DEF Indices
<1>2. I # {}
  <2>1. Cardinality({}) = 0
    BY FS_EmptySet
  <2> QED
    BY <2>1
<1>3. \A x : I # {x}
  <2>1. \A x : Cardinality({x}) = 1
    BY FS_Singleton
  <2> QED
    BY <2>1
<1>4. PICK x \in I : TRUE
  BY <1>2
<1>5. PICK y \in I : y # x
  BY <1>3, <1>4
<1>6. I = {x, y} \/ I = {0, 1, 2}
  <2>1. CASE \A z \in I : z = x \/ z = y
    BY <1>4, <1>5, <2>1
  <2>2. CASE \E z \in I : z # x /\ z # y
    <3>1. PICK z \in I : z # x /\ z # y
      BY <2>2
    <3>2. x \in {0, 1, 2} /\ y \in {0, 1, 2} /\ z \in {0, 1, 2}
      BY <1>1
    <3>3. 0 \in I /\ 1 \in I /\ 2 \in I
      BY <1>5, <3>1, <3>2
    <3> QED
      BY <1>1, <3>3
  <2> QED
    BY <2>1, <2>2
<1>7. CASE I = {x, y}
  BY <1>4, <1>5, <1>7
<1>8. CASE I = {0, 1, 2}
  BY <1>1, <1>8
<1> QED
  BY <1>6, <1>7, <1>8

(* The gateway's decoder inverts the encoder, modulo the product of the     *)
(* moduli that arrived, whatever the coprime moduli and whatever the        *)
(* reading (crt_decode.py:55-79, crt_encode.c:22-36).                       *)
THEOREM DecodeInverts ==
  ASSUME NEW r \in Int, NEW I \in SUBSET Indices, Cardinality(I) >= 2
  PROVE  /\ decode(Arriving(r, I)) = r % ProductOf(I)
         /\ ProductOf(I) \in Nat \ {0}
<1>1. CASE I = Indices
  <2>1. ProductOf(Indices) \in Nat \ {0}
    BY ProductOfAll
  <2> QED
    BY <1>1, <2>1, AllDecode, Zenon
<1>2. ASSUME NEW i \in Indices, NEW j \in Indices, i # j, I = {i, j}
      PROVE  /\ decode(Arriving(r, I)) = r % ProductOf(I)
             /\ ProductOf(I) \in Nat \ {0}
  <2>1. ProductOf({i, j}) \in Nat \ {0}
    BY <1>2, ProductOfPair
  <2>2. decode(Arriving(r, {i, j})) = r % ProductOf({i, j})
    BY <1>2, PairDecodes, Zenon
  <2> QED
    BY <1>2, <2>1, <2>2, Zenon
<1> QED
  BY <1>1, <1>2, TwoOrThree, Zenon

(* A reading below the product of the moduli that arrived comes back.       *)
LEMMA SmallReadingDecodes ==
  ASSUME NEW r \in Nat, NEW I \in SUBSET Indices, Cardinality(I) >= 2, r < ProductOf(I)
  PROVE  decode(Arriving(r, I)) = r
<1>1. PICK p \in Nat \ {0} : p = ProductOf(I)
  BY DecodeInverts
<1>2. r \in Int /\ r < p
  BY <1>1
<1>3. r % p = r
  BY <1>2
<1>4. decode(Arriving(r, I)) = r % p
  BY <1>1, <1>2, DecodeInverts, Zenon
<1> QED
  BY <1>3, <1>4
=============================================================================
