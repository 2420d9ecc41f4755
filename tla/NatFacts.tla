------------------------------ MODULE NatFacts ------------------------------
(***************************************************************************)
(* Division, least elements and powers of two, for the other proofs.       *)
(***************************************************************************)
EXTENDS WellFoundedInduction, TLAPS

\* A number has one quotient and one remainder by a positive divisor.
LEMMA UniqueDivision ==
  ASSUME NEW b \in Nat \ {0}, NEW q \in Int, NEW p \in Int,
         NEW r \in 0 .. b - 1, NEW s \in 0 .. b - 1,
         b * q + r = b * p + s
  PROVE  q = p /\ r = s
OBVIOUS

\* Euclidean division, with the product as the provers handle it best.
LEMMA NatDivision ==
  ASSUME NEW a \in Nat, NEW b \in Nat \ {0}
  PROVE  /\ a \div b \in Nat
         /\ (a % b) \in 0 .. b - 1
         /\ a = b * (a \div b) + (a % b)
OBVIOUS

\* A larger number has a larger quotient or the same, and then a larger remainder.
LEMMA QuotientOrder ==
  ASSUME NEW b \in Nat \ {0}, NEW q \in Nat, NEW n \in Nat, NEW r \in 0 .. b - 1
  PROVE  q < n <=> b * q + r < b * n
<1>1. ASSUME q < n PROVE b * q + r < b * n
  <2>1. PICK d \in Nat : n = q + 1 + d
    <3>1. n - q - 1 \in Nat /\ n = q + 1 + (n - q - 1)
      BY <1>1
    <3> QED
      BY <3>1
  <2>2. b * n = b * q + b + b * d /\ b * d \in Nat
    BY <2>1
  <2> QED
    BY <2>2
<1>2. ASSUME ~(q < n) PROVE ~(b * q + r < b * n)
  <2>1. PICK d \in Nat : q = n + d
    <3>1. q - n \in Nat /\ q = n + (q - n)
      BY <1>2
    <3> QED
      BY <3>1
  <2>2. b * q = b * n + b * d /\ b * d \in Nat /\ b * n \in Nat
    BY <2>1
  <2> QED
    BY <2>2
<1> QED
  BY <1>1, <1>2

\* A number that is so many divisors and less than one more has that quotient.
LEMMA QuotientIs ==
  ASSUME NEW b \in Nat \ {0}, NEW q \in Nat, NEW r \in 0 .. b - 1
  PROVE  (b * q + r) \div b = q
<1> DEFINE a == b * q + r
           p == a \div b
           s == (a % b)
<1>1. a \in Nat
  <2>1. b * q \in Nat
    OBVIOUS
  <2> QED
    BY <2>1
<1>2. p \in Nat /\ s \in 0 .. b - 1 /\ a = b * p + s
  BY <1>1, NatDivision
<1> HIDE DEF p, s
<1>3. ~(p < q)
  <2>1. p < q <=> b * p + s < b * q
    BY <1>2, QuotientOrder
  <2>2. b * q \in Nat
    OBVIOUS
  <2> QED
    BY <1>1, <1>2, <2>1, <2>2
<1>4. ~(q < p)
  <2>1. q < p <=> b * q + r < b * p
    BY <1>2, QuotientOrder
  <2>2. b * p \in Nat
    BY <1>2
  <2> QED
    BY <1>1, <1>2, <2>1, <2>2
<1>5. p = q
  BY <1>2, <1>3, <1>4
<1> QED
  BY <1>5 DEF p

\* One more divisor makes one more, and a larger number no less.
LEMMA QuotientSteps ==
  ASSUME NEW b \in Nat \ {0}, NEW a \in Nat
  PROVE  /\ (a + b) \div b = (a \div b) + 1
         /\ \A c \in 0 .. a : c \div b \in Nat /\ c \div b <= a \div b
<1> DEFINE q == a \div b
           r == (a % b)
<1>1. q \in Nat /\ r \in 0 .. b - 1 /\ a = b * q + r
  BY NatDivision
<1> HIDE DEF q, r
<1>2. (a + b) \div b = q + 1
  <2>1. b * (q + 1) = b * q + b /\ b * q \in Nat
    BY <1>1
  <2>2. a + b = b * (q + 1) + r
    BY <1>1, <2>1
  <2>3. q + 1 \in Nat
    BY <1>1
  <2> QED
    BY <1>1, <2>2, <2>3, QuotientIs
<1>3. ASSUME NEW c \in 0 .. a
      PROVE  c \div b \in Nat /\ c \div b <= q
  <2> DEFINE p == c \div b
             s == (c % b)
  <2>1. p \in Nat /\ s \in 0 .. b - 1 /\ c = b * p + s
    <3>1. c \in Nat
      OBVIOUS
    <3> QED
      BY <3>1, NatDivision
  <2> HIDE DEF p, s
  <2>2. q < p <=> b * q + r < b * p
    BY <1>1, <2>1, QuotientOrder
  <2>3. b * p \in Nat
    BY <2>1
  <2>4. ~(q < p)
    BY <1>1, <2>1, <2>2, <2>3
  <2> QED
    BY <1>1, <2>1, <2>4 DEF p
<1> QED
  BY <1>2, <1>3 DEF q

\* A set of natural numbers has a least element: what stands for induction here,
\* for the theorems of induction take an operator, and this one a set.
LEMMA LeastOf ==
  ASSUME NEW T \in SUBSET Nat, T # {}
  PROVE  \E x \in T : \A y \in T : x <= y
<1> DEFINE R == OpToRel(<, Nat)
<1>1. IsWellFoundedOn(R, Nat)
  BY NatLessThanWellFounded
<1>2. \A x, y \in Nat : y < x => <<y, x>> \in R
  BY DEF OpToRel
<1> HIDE DEF R
<1>3. \E x \in T : \A y \in T : ~ (<<y, x>> \in R)
  BY <1>1, WFMin
<1>4. PICK x \in T : \A y \in T : ~ (<<y, x>> \in R)
  BY <1>3
<1>5. \A y \in T : ~(y < x)
  BY <1>2, <1>4
<1> QED
  BY <1>5
-----------------------------------------------------------------------------
\* The powers of two within a word: a power has no meaning for the provers but
\* for the numbers that are written out.
LEMMA PowerNext ==
  ASSUME NEW k \in 0 .. 30
  PROVE  2^k \in Nat \ {0} /\ 2^(k + 1) = 2 * 2^k
<1> k = 0 => 2^k = 1 /\ 2^(k + 1) = 2
  BY SMT
<1> k = 1 => 2^k = 2 /\ 2^(k + 1) = 4
  BY SMT
<1> k = 2 => 2^k = 4 /\ 2^(k + 1) = 8
  BY SMT
<1> k = 3 => 2^k = 8 /\ 2^(k + 1) = 16
  BY SMT
<1> k = 4 => 2^k = 16 /\ 2^(k + 1) = 32
  BY SMT
<1> k = 5 => 2^k = 32 /\ 2^(k + 1) = 64
  BY SMT
<1> k = 6 => 2^k = 64 /\ 2^(k + 1) = 128
  BY SMT
<1> k = 7 => 2^k = 128 /\ 2^(k + 1) = 256
  BY SMT
<1> k = 8 => 2^k = 256 /\ 2^(k + 1) = 512
  BY SMT
<1> k = 9 => 2^k = 512 /\ 2^(k + 1) = 1024
  BY SMT
<1> k = 10 => 2^k = 1024 /\ 2^(k + 1) = 2048
  BY SMT
<1> k = 11 => 2^k = 2048 /\ 2^(k + 1) = 4096
  BY SMT
<1> k = 12 => 2^k = 4096 /\ 2^(k + 1) = 8192
  BY SMT
<1> k = 13 => 2^k = 8192 /\ 2^(k + 1) = 16384
  BY SMT
<1> k = 14 => 2^k = 16384 /\ 2^(k + 1) = 32768
  BY SMT
<1> k = 15 => 2^k = 32768 /\ 2^(k + 1) = 65536
  BY SMT
<1> k = 16 => 2^k = 65536 /\ 2^(k + 1) = 131072
  BY SMT
<1> k = 17 => 2^k = 131072 /\ 2^(k + 1) = 262144
  BY SMT
<1> k = 18 => 2^k = 262144 /\ 2^(k + 1) = 524288
  BY SMT
<1> k = 19 => 2^k = 524288 /\ 2^(k + 1) = 1048576
  BY SMT
<1> k = 20 => 2^k = 1048576 /\ 2^(k + 1) = 2097152
  BY SMT
<1> k = 21 => 2^k = 2097152 /\ 2^(k + 1) = 4194304
  BY SMT
<1> k = 22 => 2^k = 4194304 /\ 2^(k + 1) = 8388608
  BY SMT
<1> k = 23 => 2^k = 8388608 /\ 2^(k + 1) = 16777216
  BY SMT
<1> k = 24 => 2^k = 16777216 /\ 2^(k + 1) = 33554432
  BY SMT
<1> k = 25 => 2^k = 33554432 /\ 2^(k + 1) = 67108864
  BY SMT
<1> k = 26 => 2^k = 67108864 /\ 2^(k + 1) = 134217728
  BY SMT
<1> k = 27 => 2^k = 134217728 /\ 2^(k + 1) = 268435456
  BY SMT
<1> k = 28 => 2^k = 268435456 /\ 2^(k + 1) = 536870912
  BY SMT
<1> k = 29 => 2^k = 536870912 /\ 2^(k + 1) = 1073741824
  BY SMT
<1> k = 30 => 2^k = 1073741824 /\ 2^(k + 1) = 2147483648
  BY SMT
<1> QED
  BY SMT

LEMMA PowerPositive ==
  ASSUME NEW k \in 0 .. 31
  PROVE  2^k \in Nat \ {0}
<1>1. k = 31 => 2^k = 2 * 2^30
  BY SMT
<1>2. 2^30 \in Nat \ {0}
  BY SMT
<1>3. k \in 0 .. 30 => 2^k \in Nat \ {0}
  BY ONLY PowerNext, Zenon
<1>4. 2 * 2^30 \in Nat \ {0}
  BY <1>2
<1>5. k \in 0 .. 30 \/ k = 31
  OBVIOUS
<1> QED
  BY ONLY <1>1, <1>3, <1>4, <1>5, Zenon

\* The exponents of a product add up.
LEMMA PowersMultiply ==
  ASSUME NEW k \in Nat, NEW d \in Nat, k + d <= 31
  PROVE  2^(k + d) = 2^k * 2^d
<1> DEFINE T == {e \in 0 .. d : 2^(k + e) # 2^k * 2^e}
<1>1. ASSUME T # {} PROVE FALSE
  <2>1. T \in SUBSET Nat
    OBVIOUS
  <2>2. PICK e \in T : \A i \in T : e <= i
    BY ONLY <1>1, <2>1, LeastOf
  <2>3. 2^k \in Nat
    <3>1. k \in 0 .. 31
      OBVIOUS
    <3> QED
      BY ONLY <3>1, PowerPositive, Zenon
  <2>4. CASE e = 0
    <3>1. 2^0 = 1 /\ k + 0 = k
      OBVIOUS
    <3>2. 2^(k + e) = 2^k /\ 2^e = 1
      BY <2>4, <3>1
    <3> QED
      BY <2>2, <2>3, <3>2
  <2>5. CASE e # 0
    <3> DEFINE a == e - 1
    <3>1. /\ e \in Nat /\ a \in 0 .. 30 /\ k + a \in 0 .. 30 /\ a \in 0 .. d
          /\ e = a + 1 /\ k + e = (k + a) + 1
      BY <2>2, <2>5
    <3>2. ~(e <= a)
      BY <3>1
    <3>3. 2^(k + a) = 2^k * 2^a
      BY <2>2, <3>1, <3>2
    <3>4. 2^(a + 1) = 2 * 2^a /\ 2^((k + a) + 1) = 2 * 2^(k + a) /\ 2^a \in Nat
      BY <3>1, PowerNext
    <3> HIDE DEF a
    <3>5. 2^e = 2 * 2^a /\ 2^(k + e) = 2 * (2^k * 2^a)
      BY ONLY <3>1, <3>3, <3>4, Zenon
    <3> DEFINE x == 2^a
               y == 2^k
    <3>6. x \in Nat /\ y \in Nat
      BY <2>3, <3>4
    <3> HIDE DEF x, y
    <3>7. y * (2 * x) = 2 * (y * x)
      BY ONLY <3>6
    <3>8. 2^k * 2^e = 2^(k + e)
      BY ONLY <3>5, <3>7, Zenon DEF x, y
    <3> QED
      BY <2>2, <3>8
  <2> QED
    BY <2>4, <2>5
<1>2. d \in 0 .. d
  OBVIOUS
<1> QED
  BY ONLY <1>1, <1>2, Zenon

\* The divisors of a power of two are powers of two.
LEMMA DivisorOfPower ==
  ASSUME NEW m \in 0 .. 30, NEW c \in Nat, NEW r \in Nat, 2^m = c * r
  PROVE  \E i \in 0 .. m : r = 2^i
<1> DEFINE Bad(j) == \E a \in Nat, b \in Nat : 2^j = a * b /\ \A i \in 0 .. j : b # 2^i
           T == {j \in 0 .. 30 : Bad(j)}
<1>1. ASSUME T # {} PROVE FALSE
  <2>1. T \in SUBSET Nat
    OBVIOUS
  <2>2. PICK j \in T : \A i \in T : j <= i
    BY ONLY <1>1, <2>1, LeastOf
  <2>3. PICK a \in Nat, b \in Nat : 2^j = a * b /\ \A i \in 0 .. j : b # 2^i
    BY <2>2
  <2>4. 2^0 = 1
    OBVIOUS
  <2>5. CASE j = 0
    <3>1. a * b = 1 /\ b # 1
      BY <2>2, <2>3, <2>4, <2>5
    <3>2. b = 0 \/ a = 0 \/ b >= 2
      BY <3>1
    <3>3. b >= 2 /\ a >= 1 => a * b >= 2
      OBVIOUS
    <3> QED
      BY <3>1, <3>2, <3>3
  <2>6. CASE j # 0
    <3> DEFINE h == j - 1
               x == 2^h
    <3>1. h \in 0 .. 30 /\ j = h + 1 /\ ~(j <= h) /\ j \in 0 .. 30
      BY <2>2, <2>6
    <3>2. x \in Nat /\ 2^j = 2 * x
      BY <3>1, PowerNext
    <3>3. 2 * x = a * b
      BY <2>3, <3>2
    <3>4. ~Bad(h)
      BY <2>2, <3>1
    <3> DEFINE p == a \div 2
               q == b \div 2
    <3>5. /\ p \in Nat /\ (a = 2 * p \/ a = 2 * p + 1)
          /\ q \in Nat /\ (b = 2 * q \/ b = 2 * q + 1)
      OBVIOUS
    <3> HIDE DEF p, q, x
    <3>6. CASE b = 2 * q
      <4>1. x = a * q
        BY ONLY <3>2, <3>3, <3>5, <3>6, a \in Nat
      <4>2. PICK i \in 0 .. h : q = 2^i
        BY <3>4, <3>5, <4>1 DEF x
      <4>3. i \in 0 .. 30 /\ i + 1 \in 0 .. j
        BY <3>1, <4>2
      <4>4. 2^(i + 1) = 2 * 2^i
        BY ONLY <4>3, PowerNext, Zenon
      <4> QED
        BY ONLY <2>3, <3>6, <4>2, <4>3, <4>4, Zenon
    <3>7. CASE a = 2 * p
      <4>1. x = p * b
        BY ONLY <3>2, <3>3, <3>5, <3>7, b \in Nat
      <4>2. PICK i \in 0 .. h : b = 2^i
        BY <3>4, <3>5, <4>1 DEF x
      <4>3. i \in 0 .. j
        BY <3>1, <4>2
      <4> QED
        BY <2>3, <4>2, <4>3
    <3>8. CASE a = 2 * p + 1 /\ b = 2 * q + 1
      <4> DEFINE z == 2 * (p * q) + p + q
      <4>1. a * b = 2 * z + 1 /\ z \in Nat
        BY ONLY <3>5, <3>8
      <4> HIDE DEF z
      <4> QED
        BY <3>2, <3>3, <4>1
    <3> QED
      BY <3>5, <3>6, <3>7, <3>8
  <2> QED
    BY <2>5, <2>6
<1>2. m \notin T
  BY <1>1
<1> QED
  BY <1>2
=============================================================================
