--------------------------- MODULE FSBitmap_proofs ---------------------------
(***************************************************************************)
(* Facts about the masks and calls of fs_bitmap.h that hold for every size *)
(* of byte, sector and file and for whatever ranges the callers pass, and  *)
(* for careful callers that it implements SectorMap.                       *)
(***************************************************************************)
EXTENDS FSBitmap, NatFacts

\* A meta sector has bits.
LEMMA SectorBitsType == SectorBits \in Nat \ {0}
BY MaskAssumption DEF SectorBits

\* The remainder by SectorBits splits into the front byte and the place in it.
LEMMA FrontPosition ==
  ASSUME NEW x \in Nat
  PROVE  /\ FrontByte(x) \in Nat
         /\ (x % ByteBits) \in 0 .. ByteBits - 1
         /\ (x % SectorBits) = ByteBits * FrontByte(x) + (x % ByteBits)
         /\ FrontByte(x) < SectorBytes
<1> DEFINE B == ByteBits
           m == x \div SectorBits
           y == (x % SectorBits)
           r == y \div B
           f == (y % B)
<1>1. B \in Nat \ {0} /\ SectorBytes \in Nat \ {0}
  BY MaskAssumption
<1>2. m \in Nat /\ y \in Nat /\ x = SectorBits * m + y
  BY NatDivision, SectorBitsType
<1>3. r \in Nat /\ f \in 0 .. B - 1 /\ y = B * r + f
  BY <1>1, <1>2, NatDivision
<1> HIDE DEF m, r, f
<1>4. (x \div B) \in Nat /\ (x % B) \in 0 .. B - 1 /\ x = B * (x \div B) + (x % B)
  BY <1>1, NatDivision
<1>5. x = B * (SectorBytes * m + r) + f
  <2>1. x = (B * SectorBytes) * m + (B * r + f)
    BY <1>2, <1>3 DEF SectorBits
  <2>2. (B * SectorBytes) * m = B * (SectorBytes * m)
    BY <1>1, <1>2
  <2>3. B * (SectorBytes * m + r) = B * (SectorBytes * m) + B * r
    BY <1>1, <1>2, <1>3
  <2> QED
    BY <2>1, <2>2, <2>3, <1>1, <1>2, <1>3
<1>6. (x % B) = f
  <2> DEFINE p == SectorBytes * m + r
             g == x \div B
             h == (x % B)
  <2>1. p \in Int /\ g \in Int /\ h \in 0 .. B - 1 /\ B * g + h = B * p + f
    BY <1>1, <1>2, <1>3, <1>4, <1>5
  <2> HIDE DEF p, g, h, B
  <2>2. h = f
    BY <2>1, <1>1, <1>3, UniqueDivision
  <2> QED
    BY <2>2 DEF h, B
<1>7. r < SectorBytes
  <2>1. B * r < B * SectorBytes
    <3>1. y < SectorBits
      BY NatDivision, SectorBitsType
    <3> QED
      BY <3>1, <1>1, <1>2, <1>3 DEF SectorBits
  <2> QED
    BY <2>1, <1>1, <1>3
<1> QED
  BY <1>1, <1>3, <1>6, <1>7 DEF FrontByte, r

\* The front byte has at least one bit of the range and at most all of its own.
LEMMA FrontBitsType ==
  ASSUME NEW x \in Nat
  PROVE  FrontBits(x) \in 1 .. ByteBits
<1>1. (x % ByteBits) \in 0 .. ByteBits - 1
  BY FrontPosition
<1> QED
  BY <1>1, MaskAssumption DEF FrontBits

\* Past the front byte, b whole bytes and a bits make up the rest of the range.
LEMMA RestOfRange ==
  ASSUME NEW x \in Nat, NEW num \in Nat, ReachesByteEnd(x, num)
  PROVE  /\ InnerBytes(x, num) \in Nat
         /\ BackBits(x, num) \in 0 .. ByteBits - 1
         /\ num = FrontBits(x) + ByteBits * InnerBytes(x, num) + BackBits(x, num)
<1> DEFINE d == num - FrontBits(x)
           b == d \div ByteBits
<1>1. FrontBits(x) \in Nat /\ d \in Nat
  BY FrontBitsType, MaskAssumption DEF ReachesByteEnd
<1>2. ByteBits \in Nat \ {0}
  BY MaskAssumption
<1> HIDE DEF d
<1>3. b \in Nat /\ (d % ByteBits) \in 0 .. ByteBits - 1 /\ d = ByteBits * b + (d % ByteBits)
  BY <1>1, <1>2, NatDivision
<1>4. CDiv(d, ByteBits) = b /\ CRem(d, ByteBits) = d - b * ByteBits
  BY <1>1 DEF CDiv, CRem
<1>5. InnerBytes(x, num) = b /\ BackBits(x, num) = d - b * ByteBits
  BY <1>4 DEF InnerBytes, BackBits, d
<1>6. d = num - FrontBits(x)
  BY DEF d
<1> HIDE DEF b
<1> QED
  BY <1>1, <1>2, <1>3, <1>5, <1>6

\* In the buffer, the mask of a range that reaches the end of its front byte
\* is the range itself, from the position of its first bit.
LEMMA MaskIsRange ==
  ASSUME NEW x \in Nat, NEW num \in Nat, ReachesByteEnd(x, num)
  PROVE  Mask(x, num) = Range0((x % SectorBits), num)
<1> DEFINE r == FrontByte(x)
           f == (x % ByteBits)
           z == FrontBits(x)
           b == InnerBytes(x, num)
           a == BackBits(x, num)
           inner == (r + 1) * ByteBits
           back == (r + 1 + b) * ByteBits
           y == (x % SectorBits)
<1>1. ByteBits \in Nat \ {0}
  BY MaskAssumption
<1>2. r \in Nat /\ f \in 0 .. ByteBits - 1 /\ y = ByteBits * r + f
  BY FrontPosition
<1>3. z = ByteBits - f
  BY DEF FrontBits
<1>4. b \in Nat /\ a \in 0 .. ByteBits - 1 /\ num = z + ByteBits * b + a
  BY RestOfRange
<1>5. Mask(x, num) = Range0(inner - z, z) \cup (inner .. back - 1) \cup Range0(back, a)
  BY DEF Mask, BackByte
<1>6. inner = ByteBits * r + ByteBits /\ back = inner + ByteBits * b /\ ByteBits * b \in Nat
        /\ ByteBits * r \in Nat
  BY <1>1, <1>2, <1>4
<1> HIDE DEF r, f, z, b, a, inner, back, y
<1>7. inner - z = y /\ back + a = y + num
  BY <1>1, <1>2, <1>3, <1>4, <1>6
<1>8. y \in Nat /\ z \in Nat /\ inner \in Nat /\ back \in Nat /\ a \in Nat
        /\ y <= inner /\ inner <= back
  BY <1>1, <1>2, <1>3, <1>4, <1>6
<1> QED
  BY <1>5, <1>7, <1>8 DEF Range0, y

\* fs_bitmap.h:72-86 and 144-157: when the range reaches the end of its front
\* byte, the masks touch the bits of exactly the sectors of the range: none is
\* missed and no neighbour's bit is set or cleared.
THEOREM MaskExact ==
  ASSUME NEW first \in Nat, NEW num \in Nat, ReachesByteEnd(first, num)
  PROVE  MaskedSectors(first, num) = Range0(first, num)
<1> DEFINE base == MetaSector(first) * SectorBits
           y == (first % SectorBits)
<1>1. base \in Nat /\ y \in Nat /\ first = base + y
  <2> DEFINE m == first \div SectorBits
  <2>1. m \in Nat /\ y \in 0 .. SectorBits - 1 /\ first = SectorBits * m + y
    BY NatDivision, SectorBitsType
  <2> HIDE DEF m, y
  <2>2. SectorBits * m \in Nat /\ SectorBits * m = m * SectorBits /\ y \in Nat
    BY <2>1, SectorBitsType
  <2> QED
    BY <2>1, <2>2 DEF MetaSector, m
<1>2. MaskedSectors(first, num) = {base + p : p \in Range0(y, num)}
  BY MaskIsRange DEF MaskedSectors
<1> HIDE DEF base, y
<1>3. \A s \in Range0(first, num) : s - base \in Range0(y, num) /\ s = base + (s - base)
  BY <1>1 DEF Range0
<1>4. \A p \in Range0(y, num) : base + p \in Range0(first, num)
  BY <1>1 DEF Range0
<1> QED
  BY <1>2, <1>3, <1>4

\* A range of whole bytes reaches the end of its front byte wherever it begins:
\* what makes the cluster layer (fs_cluster.h:39-45) safe, one cluster being a
\* whole number of bytes of the bitmap.
THEOREM WholeBytesReachByteEnd ==
  ASSUME NEW first \in Nat, NEW bytes \in Nat \ {0}
  PROVE  ReachesByteEnd(first, bytes * ByteBits)
<1>1. FrontBits(first) <= ByteBits /\ FrontBits(first) \in Nat
  BY FrontBitsType, MaskAssumption
<1>2. ByteBits <= bytes * ByteBits /\ bytes * ByteBits \in Nat
  BY MaskAssumption
<1> QED
  BY <1>1, <1>2, MaskAssumption DEF ReachesByteEnd

\* A range that ends inside its front byte has no inner byte: C divides the
\* negative num - z toward zero.
LEMMA ShortRangeHasNoInnerByte ==
  ASSUME NEW first \in Nat, NEW num \in Nat \ {0}, ~ReachesByteEnd(first, num)
  PROVE  InnerBytes(first, num) = 0
<1> DEFINE n == FrontBits(first) - num
<1>1. n \in 1 .. ByteBits - 1 /\ num - FrontBits(first) = -n
  BY FrontBitsType, MaskAssumption DEF ReachesByteEnd
<1> HIDE DEF n
<1>2. n \div ByteBits = 0
  BY <1>1, MaskAssumption
<1>3. ~(-n >= 0) /\ -(-n) = n
  BY <1>1, MaskAssumption
<1> QED
  BY <1>1, <1>2, <1>3 DEF InnerBytes, CDiv

\* fs_bitmap.h:58-60 and 79-84: whatever the range, the bytes the masks write,
\* the back byte q included, are in the buffer of rwsec sectors.
THEOREM BackByteInBuffer ==
  ASSUME NEW first \in Nat, NEW num \in Nat \ {0}
  PROVE  BackByte(first, num) < RwSectors(num) * SectorBytes
<1> DEFINE k == num \div SectorBits
           b == InnerBytes(first, num)
           S == SectorBytes
<1>1. S \in Nat \ {0} /\ ByteBits \in Nat \ {0} /\ SectorBits \in Nat \ {0} /\ SectorBits = ByteBits * S
  BY MaskAssumption, SectorBitsType DEF SectorBits
<1>2. k \in Nat /\ num < SectorBits * (k + 1)
  BY NatDivision, <1>1
<1>3. b \in Nat /\ ByteBits * b < num
  <2>1. CASE ReachesByteEnd(first, num)
    BY <2>1, RestOfRange, FrontBitsType, MaskAssumption
  <2>2. CASE ~ReachesByteEnd(first, num)
    BY <2>2, ShortRangeHasNoInnerByte, MaskAssumption
  <2> QED
    BY <2>1, <2>2
<1> HIDE DEF k, b, S
<1>4. ByteBits * b < ByteBits * (S * (k + 1))
  <2>1. SectorBits * (k + 1) = ByteBits * (S * (k + 1)) /\ S * (k + 1) \in Nat
    BY <1>1, <1>2
  <2> QED
    BY <2>1, <1>1, <1>2, <1>3
<1>5. b < S * (k + 1)
  <2>1. S * (k + 1) \in Nat
    BY <1>1, <1>2
  <2> DEFINE t == S * (k + 1)
  <2> HIDE DEF t
  <2>2. b < t
    BY <2>1, <1>1, <1>3, <1>4 DEF t
  <2> QED
    BY <2>2 DEF t
<1>6. FrontByte(first) \in Nat /\ FrontByte(first) < S
  BY FrontPosition DEF S
<1>7. (k + 2) * S = S * (k + 1) + S /\ S * (k + 1) \in Nat
  BY <1>1, <1>2
<1> QED
  BY <1>1, <1>3, <1>5, <1>6, <1>7 DEF BackByte, RwSectors, k, b, S
-----------------------------------------------------------------------------
\* A meta file has bits.
LEMMA RegionBitsType == RegionBits \in Nat \ {0}
<1>1. SectorBits \in Nat \ {0} /\ ChunkSectors \in Nat \ {0}
  BY SectorBitsType, BitmapAssumption
<1> QED
  BY <1>1 DEF RegionBits

\* The buffer of a read-modify-write begins at the meta sector of the range's
\* first bit: past the reserved sectors when the range is, and past the files
\* when the range begins there.
LEMMA WindowStart ==
  ASSUME NEW b \in Nat
  PROVE  /\ MetaSector(b) \in Nat /\ MetaSector(b) * SectorBits \in Nat
         /\ b >= SectorBits => MetaSector(b) * SectorBits >= SectorBits
         /\ \A f \in Nat :
              b >= f * RegionBits => MetaSector(b) * SectorBits >= f * RegionBits
<1> DEFINE S == SectorBits
           m == MetaSector(b)
           y == (b % S)
<1>1. S \in Nat \ {0}
  BY SectorBitsType
<1>2. m \in Nat /\ y \in 0 .. S - 1 /\ b = S * m + y
  BY <1>1, NatDivision DEF MetaSector
<1> HIDE DEF S, m, y
<1>3. m * S \in Nat /\ m * S = S * m
  BY <1>1, <1>2
<1>4. ASSUME NEW k \in Nat, b >= k * S
      PROVE  m * S >= k * S
  <2>1. m >= k
    <3>1. CASE m < k
      <4>1. m + 1 <= k
        BY <3>1, <1>2
      <4>2. (m + 1) * S <= k * S
        BY <4>1, <1>1, <1>2
      <4>3. (m + 1) * S = m * S + S /\ k * S \in Nat
        BY <1>1, <1>2
      <4> QED
        BY <4>2, <4>3, <1>1, <1>2, <1>3, <1>4
    <3> QED
      BY <3>1, <1>2
  <2> QED
    BY <2>1, <1>1, <1>2
<1>5. ASSUME NEW f \in Nat, b >= f * RegionBits
      PROVE  m * S >= f * RegionBits
  <2> DEFINE k == f * ChunkSectors
  <2>1. k \in Nat /\ f * RegionBits = k * S
    BY <1>1, BitmapAssumption DEF RegionBits, S
  <2> HIDE DEF k
  <2> QED
    BY <2>1, <1>4, <1>5
<1>6. b >= S => m * S >= S
  <2>1. 1 * S = S
    BY <1>1
  <2> QED
    BY <2>1, <1>4
<1> QED
  BY <1>2, <1>3, <1>5, <1>6 DEF S, m

\* Every sector whose bit a mask touches is in the buffer.
LEMMA MaskedInWindow ==
  ASSUME NEW b \in Nat, NEW n \in Nat \ {0}
  PROVE  MaskedSectors(b, n) \subseteq Window(b, n)
<1> DEFINE S == SectorBits
           R == RwSectors(n)
           base == MetaSector(b) * S
           inner == (FrontByte(b) + 1) * ByteBits
           z == FrontBits(b)
           c == InnerBytes(b, n)
           a == BackBits(b, n)
           back == (FrontByte(b) + 1 + c) * ByteBits
<1>1. S \in Nat \ {0} /\ base \in Nat /\ ByteBits \in Nat \ {0} /\ SectorBytes \in Nat \ {0}
  BY SectorBitsType, WindowStart, MaskAssumption
<1>2. R \in Nat
  BY NatDivision, SectorBitsType DEF RwSectors
<1>3. FrontByte(b) \in Nat /\ z \in 1 .. ByteBits
  BY FrontPosition, FrontBitsType
<1>4. c \in Nat /\ a \in Int /\ a < ByteBits
  <2>1. CASE ReachesByteEnd(b, n)
    BY <2>1, RestOfRange, <1>1
  <2>2. CASE ~ReachesByteEnd(b, n)
    <3>1. c = 0
      BY <2>2, ShortRangeHasNoInnerByte
    <3>2. n - z < 0
      BY <2>2, <1>1, <1>3 DEF ReachesByteEnd
    <3>3. CDiv(n - z, ByteBits) = 0
      BY <3>1 DEF InnerBytes
    <3>4. a = n - z
      BY <3>3, <1>1, <1>3 DEF BackBits, CRem
    <3> QED
      BY <3>1, <3>2, <3>4, <1>1, <1>3
  <2> QED
    BY <2>1, <2>2
<1>5. FrontByte(b) + 1 + c < R * SectorBytes
  BY BackByteInBuffer DEF BackByte
<1> DEFINE q == FrontByte(b) + 1 + c
           T == R * SectorBytes
<1>6. q \in Nat /\ T \in Nat /\ q + 1 <= T
  BY <1>1, <1>2, <1>3, <1>4, <1>5
<1>7. R * S = T * ByteBits /\ R * S \in Nat
  BY <1>1, <1>2 DEF SectorBits
<1>8. inner = FrontByte(b) * ByteBits + ByteBits /\ FrontByte(b) * ByteBits \in Nat
        /\ back = inner + c * ByteBits /\ c * ByteBits \in Nat
  BY <1>1, <1>3, <1>4
<1>9. back + ByteBits <= R * S
  <2>1. (q + 1) * ByteBits <= T * ByteBits
    <3> HIDE DEF q, T
    <3> QED
      BY <1>6, <1>1
  <2>2. (q + 1) * ByteBits = back + ByteBits
    BY <1>1, <1>3, <1>4
  <2> QED
    BY <2>1, <2>2, <1>7
<1>10. Mask(b, n) = Range0(inner - z, z) \cup (inner .. back - 1) \cup Range0(back, a)
  BY DEF Mask, BackByte
<1> HIDE DEF R, base, inner, z, c, a, back, q, T, S
<1>11. \A p \in Mask(b, n) : p \in 0 .. R * S - 1
  BY <1>1, <1>2, <1>3, <1>4, <1>7, <1>8, <1>9, <1>10 DEF Range0
<1>12. Window(b, n) = base .. base + R * S - 1
  BY DEF Window, Range0, base, R, S
<1>13. MaskedSectors(b, n) = {base + p : p \in Mask(b, n)}
  BY DEF MaskedSectors, base, S
<1> QED
  BY <1>1, <1>7, <1>11, <1>12, <1>13

\* The buffer lies within the files when the files are as many as its write needs.
LEMMA WindowInFiles ==
  ASSUME NEW b \in Nat, NEW n \in Nat \ {0}, NEW f \in Nat,
         f >= FilesNeeded(b, n)
  PROVE  Window(b, n) \subseteq Range0(0, f * RegionBits)
<1> DEFINE S == SectorBits
           C == ChunkSectors
           end == MetaSector(b) + RwSectors(n)
           k == (end - 1) \div C
<1>1. S \in Nat \ {0} /\ C \in Nat \ {0}
  BY SectorBitsType, BitmapAssumption
<1>2. MetaSector(b) \in Nat /\ RwSectors(n) \in Nat \ {0} /\ end - 1 \in Nat
  <2>1. n \div SectorBits \in Nat
    BY NatDivision, SectorBitsType
  <2>2. MetaSector(b) \in Nat
    BY WindowStart
  <2> QED
    BY <2>1, <2>2 DEF RwSectors
<1>3. k \in Nat /\ end - 1 < C * (k + 1)
  <2> DEFINE e == end - 1
             r == (e % C)
  <2>1. e \div C \in Nat /\ r \in 0 .. C - 1 /\ e = C * (e \div C) + r
    BY <1>1, <1>2, NatDivision
  <2>2. k = e \div C
    OBVIOUS
  <2> HIDE DEF e, k, C, r
  <2>3. C * (k + 1) = C * k + C
    BY <1>1, <2>1, <2>2
  <2>4. C * k \in Nat
    BY <1>1, <2>1, <2>2
  <2>5. e < C * (k + 1)
    BY <1>1, <2>1, <2>2, <2>3, <2>4
  <2> QED
    BY <2>1, <2>2, <2>5 DEF e
<1>4. MetaSector(b) * S + RwSectors(n) * S = end * S /\ MetaSector(b) * S \in Nat
        /\ RwSectors(n) * S \in Nat
  BY <1>1, <1>2
<1>5. end <= C * f
  <2>1. C * (k + 1) <= C * f
    <3>1. f >= k + 1
      BY <1>1, <1>2, <1>3 DEF FilesNeeded
    <3> HIDE DEF k, C
    <3> QED
      BY <3>1, <1>1, <1>3
  <2>2. C * (k + 1) \in Nat /\ C * f \in Nat /\ end \in Nat
    BY <1>1, <1>2, <1>3
  <2> QED
    BY <2>1, <2>2, <1>3
<1>6. end * S <= f * RegionBits
  <2> DEFINE t == C * f
  <2>1. t \in Nat /\ end \in Nat /\ end <= t
    BY <1>1, <1>2, <1>5
  <2>2. f * RegionBits = t * S
    BY <1>1 DEF RegionBits
  <2> HIDE DEF t, end, S
  <2> QED
    BY <2>1, <2>2, <1>1
<1>7. f * RegionBits \in Nat /\ end * S \in Nat
  BY RegionBitsType, <1>1, <1>2
<1> HIDE DEF end, k
<1> QED
  BY <1>4, <1>6, <1>7 DEF Window, Range0, S

\* More files keep the bits of more sectors.
LEMMA CapacityGrows ==
  ASSUME NEW m \in Nat, NEW n \in Nat, m <= n
  PROVE  /\ m * RegionBits \in Nat /\ m * RegionBits <= n * RegionBits
         /\ Range0(0, m * RegionBits) \subseteq Range0(0, n * RegionBits)
<1>1. RegionBits \in Nat
  BY RegionBitsType
<1>2. m * RegionBits \in Nat /\ n * RegionBits \in Nat /\ m * RegionBits <= n * RegionBits
  BY <1>1
<1> QED
  BY <1>2 DEF Range0

\* A write past the files needs more of them than there are.
LEMMA GrowthEnlarges ==
  ASSUME NEW b \in Nat, NEW n \in Nat \ {0}, NEW m \in Nat, b >= m * RegionBits
  PROVE  /\ FilesNeeded(b, n) \in Nat
         /\ FilesNeeded(b, n) > m
<1> DEFINE C == ChunkSectors
           S == SectorBits
           M == MetaSector(b)
           e == M + RwSectors(n) - 1
           k == e \div C
           r == (e % C)
<1>1. S \in Nat \ {0} /\ C \in Nat \ {0}
  BY SectorBitsType, BitmapAssumption
<1>2. n \div SectorBits \in Nat
  BY NatDivision, SectorBitsType
<1>3. M \in Nat /\ M * S >= m * RegionBits
  BY WindowStart
<1>4. e \in Nat /\ e >= M
  BY <1>2, <1>3 DEF RwSectors
<1>5. k \in Nat /\ r \in 0 .. C - 1 /\ e = C * k + r
  BY <1>1, <1>4, NatDivision
<1>6. m * RegionBits = (m * C) * S /\ m * C \in Nat
  BY <1>1 DEF RegionBits
<1> DEFINE t == m * C
<1> HIDE DEF C, S, M, e, k, r, t
<1>7. M >= t
  <2>1. M * S >= t * S /\ t \in Nat
    BY <1>3, <1>6 DEF t
  <2> QED
    BY <2>1, <1>1, <1>3
<1>8. C * k + C > m * C
  BY <1>1, <1>3, <1>4, <1>5, <1>6, <1>7 DEF t
<1>9. C * (k + 1) > C * m
  BY <1>1, <1>5, <1>8
<1>10. k + 1 > m
  BY <1>1, <1>5, <1>9
<1> QED
  BY <1>5, <1>10 DEF FilesNeeded, k, e, C, M
-----------------------------------------------------------------------------
\* The first sectors of the volume are the reserved ones.
LEMMA ReservedFirst == Reserved = 0 .. SectorBits - 1 /\ SectorBits <= RegionBits
<1>1. SectorBits \in Nat \ {0} /\ ChunkSectors \in Nat \ {0}
  BY SectorBitsType, BitmapAssumption
<1>2. 1 * SectorBits <= ChunkSectors * SectorBits
  BY <1>1
<1> QED
  BY <1>1, <1>2 DEF Reserved, Range0, RegionBits

\* TypeOK in two parts: what is in the files, and what the call in progress keeps.
FilesOK ==
  /\ fmeta_num \in 1 .. MaxMetaFiles /\ files \in 1 .. fmeta_num
  /\ absent \subseteq Range0(0, FirstMissing)
  /\ marks \subseteq Readable /\ stored \subseteq Readable
CallOK ==
  /\ indexRw \in BOOLEAN /\ used \in BOOLEAN
  /\ status \in Statuses
  /\ pc \in {"idle", "mask", "search", "fallback", "wild"}
  /\ req \in [op : {"none", "set", "clear", "find"}, begin : Nat, num : Nat \ {0}]
  /\ pc = "mask" => req.op \in {"set", "clear"}
  /\ ite \in Nat /\ begin \in Nat

LEMMA TypeParts == (TypeOK <=> FilesOK /\ CallOK) /\ (TypeOK' <=> FilesOK' /\ CallOK')
BY DEF TypeOK, FilesOK, CallOK

\* The sizes of the volume are numbers, and what can be read is below them.
LEMMA SizesType ==
  ASSUME FilesOK
  PROVE  /\ fmeta_num \in Nat /\ files \in Nat /\ files <= fmeta_num /\ MaxMetaFiles \in Nat
         /\ FirstMissing \in Nat /\ Capacity \in Nat /\ FirstMissing <= Capacity
         /\ RegionBits <= FirstMissing
         /\ Readable \subseteq Range0(0, FirstMissing)
<1>1. /\ fmeta_num \in Nat /\ files \in Nat /\ 1 <= files /\ files <= fmeta_num
      /\ MaxMetaFiles \in Nat
  BY BitmapAssumption DEF FilesOK
<1>2. FirstMissing \in Nat /\ FirstMissing <= Capacity
  BY <1>1, CapacityGrows DEF FirstMissing, Capacity
<1>3. 1 * RegionBits <= FirstMissing /\ 1 * RegionBits = RegionBits /\ Capacity \in Nat
  BY <1>1, CapacityGrows, RegionBitsType DEF FirstMissing, Capacity
<1> QED
  BY <1>1, <1>2, <1>3 DEF Readable

\* What may be done to the files without changing a bit: nothing, writing out all
\* buffers, or writing out those of the files of some sectors.
Flushing == stored' = stored \/ stored' = marks \/ \E sectors : stored' = Flushed(sectors)

\* A flush writes out what is buffered and nothing else.
LEMMA FlushWrites ==
  ASSUME Flushing
  PROVE  /\ stored' \subseteq marks \cup stored
         /\ \A s : (s \in stored' <=> s \in stored) \/ (s \in stored' <=> s \in marks)
<1>1. CASE stored' = stored \/ stored' = marks
  BY <1>1
<1>2. CASE \E sectors : stored' = Flushed(sectors)
  <2>1. PICK sectors : stored' = Flushed(sectors)
    BY <1>2
  <2> QED
    BY <2>1 DEF Flushed
<1> QED
  BY <1>1, <1>2 DEF Flushing

\* What a query reads, however it ends, changes the files only by its seeks.
LEMMA GetmaskEffect ==
  ASSUME NEW sectors, NEW bit \in BOOLEAN, CallOK, Getmask(sectors, bit)
  PROVE  /\ Flushing
         /\ used' \in BOOLEAN /\ status' \in Statuses
         /\ UNCHANGED <<pc, req, ite>> \/ (pc' = "wild" /\ req' = NoCall /\ ite' = 0)
<1>1. CASE /\ status' = "success" /\ UNCHANGED <<pc, req, ite>>
           /\ \/ used' = ~bit /\ \E t \in sectors : AnsweredAt(sectors, bit, t)
              \/ used' = bit /\ Unanswered(sectors, bit)
  <2>1. Flushing
    BY <1>1 DEF AnsweredAt, Unanswered, Flushing
  <2>2. used' \in BOOLEAN
    BY <1>1, Zenon
  <2> QED
    BY <2>1, <2>2, <1>1 DEF Statuses
<1>2. CASE /\ status' = "drive_rw" /\ UNCHANGED <<pc, req, ite>>
           /\ \E t \in sectors : /\ FailsAt(sectors, bit, t)
                                 /\ used' = IF \E s \in sectors : s < t THEN bit ELSE used
  <2>1. PICK t \in sectors : /\ FailsAt(sectors, bit, t)
                             /\ used' = IF \E s \in sectors : s < t THEN bit ELSE used
    BY <1>2
  <2>2. used' = bit \/ used' = used
    BY <2>1
  <2>3. used' \in BOOLEAN
    BY <2>2, Zenon DEF CallOK
  <2>4. Flushing
    BY <2>1 DEF FailsAt, Flushing
  <2> QED
    BY <1>2, <2>3, <2>4 DEF Statuses
<1>3. CASE GoWild /\ UNCHANGED used /\ \E t \in sectors : WildAt(sectors, bit, t)
  <2>1. Flushing
    BY <1>3 DEF WildAt, Flushing
  <2>2. used' \in BOOLEAN
    BY <1>3, Zenon DEF CallOK
  <2> QED
    BY <1>3, <2>1, <2>2 DEF GoWild, CallOK
<1> QED
  BY <1>1, <1>2, <1>3 DEF Getmask

\* A call of the bitmap's, for whatever range it is given, and the search change no
\* bit; the files change by flushes, and a reopening counts those that are there.
Quiet ==
  /\ marks' = marks /\ UNCHANGED <<files, absent>>
  /\ fmeta_num' \in {fmeta_num, files}
  /\ Flushing

LEMMA QueryEffect ==
  ASSUME CallOK, NEW b \in Nat, NEW n \in Nat \ {0},
         GetmaskSomeused(b, n) \/ GetmaskAllused(b, n)
  PROVE  /\ Quiet /\ CallOK' /\ pc = "idle" /\ pc' \in {"idle", "wild"}
         /\ UNCHANGED req \/ req' = NoCall
<1>1. PICK bit \in BOOLEAN :
        /\ pc = "idle" /\ UNCHANGED <<metafiles, marks, indexRw, begin>>
        /\ OutOfRange \/ Getmask(Range0(b, n), bit)
  BY DEF GetmaskSomeused, GetmaskAllused
<1>2. UNCHANGED <<fmeta_num, files, absent, marks, begin>> /\ indexRw' \in BOOLEAN
  BY <1>1, Zenon DEF metafiles, CallOK
<1>3. CASE OutOfRange
  <2>1. used' \in BOOLEAN
    BY <1>3, Zenon DEF OutOfRange
  <2> QED
    BY <1>1, <1>2, <1>3, <2>1 DEF OutOfRange, Quiet, Flushing, CallOK, Statuses
<1>4. CASE Getmask(Range0(b, n), bit)
  <2>1. /\ Flushing /\ used' \in BOOLEAN /\ status' \in Statuses
        /\ UNCHANGED <<pc, req, ite>> \/ (pc' = "wild" /\ req' = NoCall /\ ite' = 0)
    BY <1>4, GetmaskEffect
  <2> QED
    BY <1>1, <1>2, <2>1 DEF Quiet, CallOK, NoCall
<1> QED
  BY <1>1, <1>3, <1>4

\* The calls that only begin, the unlooked read, and closing and opening.
LEMMA CallEffect ==
  ASSUME CallOK, NEW b \in Nat, NEW n \in Nat \ {0},
         \/ DiskwithBitmapWrite(b, n) \/ DiskwithBitmapErase(b, n) \/ GetmaskFreesector(n, b)
         \/ DiskwithBitmapRead \/ CloseAndOpen \/ CloseWild
  PROVE  /\ Quiet /\ CallOK' /\ pc = "idle"
         /\ pc' = "mask" => req' \in {[op |-> op, begin |-> b, num |-> n] : op \in {"set", "clear"}}
         /\ pc' = "search" => GetmaskFreesector(n, b)
         /\ pc' # "fallback"
<1> USE DEF Quiet, Flushing, CallOK, Statuses, NoCall, Return, metafiles
<1>1. CASE DiskwithBitmapWrite(b, n)
  <2>1. indexRw' \in BOOLEAN /\ used' \in BOOLEAN
    BY <1>1, Zenon DEF DiskwithBitmapWrite
  <2>2. /\ \/ pc' = "mask" /\ req' = [op |-> "set", begin |-> b, num |-> n]
              /\ status' = status /\ ite' = ite
           \/ Return("drive_rw")
        /\ UNCHANGED <<fmeta_num, files, absent, marks, stored, begin>> /\ pc = "idle"
    BY <1>1, Zenon DEF DiskwithBitmapWrite
  <2> QED
    BY <2>1, <2>2
<1>2. CASE DiskwithBitmapErase(b, n)
  BY <1>2 DEF DiskwithBitmapErase
<1>3. CASE GetmaskFreesector(n, b)
  BY <1>3, SectorBitsType DEF GetmaskFreesector
<1>4. CASE DiskwithBitmapRead
  <2>1. indexRw' \in BOOLEAN /\ used' \in BOOLEAN
    BY <1>4, Zenon DEF DiskwithBitmapRead
  <2>2. /\ UNCHANGED <<fmeta_num, files, absent, marks, stored, pc, req, ite, begin>>
        /\ pc = "idle" /\ status' \in {"success", "drive_rw"}
    BY <1>4 DEF DiskwithBitmapRead
  <2> QED
    BY <2>1, <2>2
<1>5. CASE CloseAndOpen
  <2>1. indexRw' \in BOOLEAN /\ used' \in BOOLEAN
    BY <1>5, Zenon DEF CloseAndOpen
  <2>2. /\ UNCHANGED <<files, absent, marks, pc, req, ite, begin>>
        /\ pc = "idle" /\ status' = "success" /\ fmeta_num' = files /\ stored' = marks
    BY <1>5 DEF CloseAndOpen
  <2> QED
    BY <2>1, <2>2
<1>6. CASE CloseWild
  <2>1. indexRw' \in BOOLEAN /\ used' \in BOOLEAN
    BY <1>6, Zenon DEF CloseWild
  <2>2. /\ UNCHANGED <<fmeta_num, files, absent, marks, stored, begin, status>>
        /\ pc = "idle" /\ pc' = "wild" /\ req' = NoCall /\ ite' = 0
    BY <1>6 DEF CloseWild, GoWild
  <2> QED
    BY <2>1, <2>2
<1> QED
  BY <1>1, <1>2, <1>3, <1>4, <1>5, <1>6

\* The search changes no bit, and where it goes on or steps back it stays at a
\* position from its offset on.
LEMMA SearchEffect ==
  ASSUME TypeOK, SearchStep
  PROVE  /\ Quiet /\ CallOK' /\ pc \in {"search", "fallback"} /\ pc' # "mask"
         /\ fmeta_num' = fmeta_num
<1> USE DEF TypeOK, CallOK, Quiet, Statuses, NoCall, Return, metafiles
<1>1. CASE SearchAdvance
  <2>1. NextPosition \in Nat
    <3>1. MaxMetaFiles * RegionBits \in Nat
      BY RegionBitsType, BitmapAssumption
    <3> DEFINE t == MaxMetaFiles * RegionBits
    <3>2. ite \in Nat /\ req.num \in Nat /\ req.begin \in Nat
      OBVIOUS
    <3> HIDE DEF t
    <3>3. NextPosition = IF ite <= t + req.begin + req.num THEN ite + req.num ELSE ite - req.num
      BY DEF NextPosition, t
    <3> QED
      BY <3>1, <3>2, <3>3 DEF t
  <2>2. /\ ite' = NextPosition /\ pc = "search"
        /\ UNCHANGED <<fmeta_num, files, absent, marks, status, pc, req, begin>>
    BY <1>1 DEF SearchAdvance, Searching
  <2>3. indexRw' \in BOOLEAN /\ used' \in BOOLEAN
    BY <1>1, Zenon DEF SearchAdvance, Searching
  <2>4. Flushing
    BY <1>1 DEF SearchAdvance, AnsweredAt, Flushing
  <2> QED
    BY <2>1, <2>2, <2>3, <2>4
<1>2. CASE SearchFound
  <2>1. indexRw' \in BOOLEAN /\ used' \in BOOLEAN
    BY <1>2, Zenon DEF SearchFound, Searching
  <2>2. Flushing
    BY <1>2 DEF SearchFound, Unanswered, Flushing
  <2>3. /\ UNCHANGED <<fmeta_num, files, absent, marks>> /\ begin' = ite /\ Return("success")
        /\ pc = "search"
    BY <1>2 DEF SearchFound, Searching
  <2> QED
    BY <2>1, <2>2, <2>3
<1>3. CASE SearchReadFails
  <2>1. indexRw' \in BOOLEAN /\ used' \in BOOLEAN
    BY <1>3, Zenon DEF SearchReadFails, Searching
  <2>2. Flushing
    BY <1>3 DEF SearchReadFails, FailsAt, Flushing
  <2>3. /\ UNCHANGED <<fmeta_num, files, absent, marks, begin>> /\ pc = "search"
        /\ \/ pc' = "fallback" /\ ite' = ite + req.num /\ UNCHANGED <<status, req>>
           \/ Return("memory")
    BY <1>3 DEF SearchReadFails, Searching
  <2> QED
    BY <2>1, <2>2, <2>3
<1>4. CASE SearchWild
  <2>1. indexRw' \in BOOLEAN /\ used' \in BOOLEAN
    BY <1>4, Zenon DEF SearchWild, Searching
  <2>2. Flushing
    BY <1>4 DEF SearchWild, WildAt, Flushing
  <2>3. /\ UNCHANGED <<fmeta_num, files, absent, marks, begin, status>> /\ pc = "search"
        /\ pc' = "wild" /\ req' = NoCall /\ ite' = 0
    BY <1>4 DEF SearchWild, Searching, GoWild
  <2> QED
    BY <2>1, <2>2, <2>3
<1>5. CASE SearchFallback
  <2>1. indexRw' \in BOOLEAN /\ used' \in BOOLEAN
    BY <1>5, Zenon DEF SearchFallback
  <2>2. /\ \/ begin' = ite /\ Return("success")
           \/ begin' = begin /\ Return("drive_rw")
        /\ UNCHANGED <<fmeta_num, files, absent, marks, stored>> /\ pc = "fallback"
    BY <1>5, Zenon DEF SearchFallback
  <2> QED
    BY <2>1, <2>2 DEF Flushing
<1> QED
  BY <1>1, <1>2, <1>3, <1>4, <1>5 DEF SearchStep

\* Such steps leave the files as they have to be.
LEMMA QuietFiles ==
  ASSUME FilesOK, Quiet
  PROVE  FilesOK' /\ FirstMissing' = FirstMissing /\ Readable' = Readable
<1>1. FirstMissing' = FirstMissing /\ Readable' = Readable
  BY DEF Quiet, FirstMissing, Readable, RegionBits, SectorBits
<1>2. stored' \subseteq marks \cup stored
  BY FlushWrites DEF Quiet
<1>3. fmeta_num' \in 1 .. MaxMetaFiles /\ files' \in 1 .. fmeta_num'
  BY SizesType DEF FilesOK, Quiet
<1> QED
  BY <1>1, <1>2, <1>3 DEF FilesOK, Quiet

\* However an update ends, its call is over.
LEMMA MaskEnds ==
  ASSUME CallOK, MaskStep
  PROVE  /\ CallOK' /\ pc = "mask" /\ pc' \in {"idle", "wild"}
         /\ req' = NoCall /\ ite' = 0 /\ UNCHANGED <<indexRw, begin, used>>
         /\ req.begin \in Nat /\ req.num \in Nat \ {0}
<1>1. Masking /\ (GoWild \/ \E st \in Statuses : Return(st))
  BY DEF MaskStep, MaskReserved, MaskNoMemory, MaskReadFails, MaskReadWild, MaskUpdate, MaskWriteFails,
         Growing, MaskGrow, MaskGrowFails, MaskGrowPartly, MaskGrowWriteFails, Statuses
<1>2. indexRw' \in BOOLEAN /\ used' \in BOOLEAN
  BY <1>1, Zenon DEF Masking, CallOK
<1>3. /\ pc = "mask" /\ pc' \in {"idle", "wild"} /\ req' = NoCall /\ ite' = 0
      /\ UNCHANGED <<indexRw, begin, used>> /\ status' \in Statuses
  BY <1>1 DEF Masking, GoWild, Return, CallOK
<1> QED
  BY <1>2, <1>3 DEF CallOK, NoCall

\* What a growth goes by: it begins at the end of the files and ends within the bound.
LEMMA GrowthFacts ==
  ASSUME FilesOK, CallOK, req.begin >= Capacity, WithinBound
  PROVE  /\ Needed \in Nat /\ Needed > files /\ Needed <= MaxMetaFiles
         /\ files = fmeta_num /\ Capacity = FirstMissing
         /\ MaskWindow \subseteq Range0(0, Needed * RegionBits)
         /\ MaskWindow \cap Range0(0, FirstMissing) = {}
         /\ req.begin \notin Reserved
<1>1. req.begin \in Nat /\ req.num \in Nat \ {0}
  BY DEF CallOK
<1>2. files = fmeta_num /\ Needed <= MaxMetaFiles /\ Capacity = FirstMissing
  BY DEF WithinBound, Capacity, FirstMissing
<1>3. /\ fmeta_num \in Nat /\ files \in Nat /\ FirstMissing \in Nat /\ RegionBits <= FirstMissing
  BY SizesType
<1>4. Needed \in Nat /\ Needed > files
  BY <1>1, <1>2, <1>3, GrowthEnlarges DEF Needed, Capacity
<1>5. MaskWindow \subseteq Range0(0, Needed * RegionBits)
  <2>1. Needed >= FilesNeeded(req.begin, req.num)
    BY <1>4 DEF Needed
  <2> QED
    BY <1>1, <1>4, <2>1, WindowInFiles DEF MaskWindow
<1>6. MaskWindow \cap Range0(0, FirstMissing) = {}
  <2> DEFINE base == MetaSector(req.begin) * SectorBits
  <2>1. base \in Nat /\ base >= FirstMissing
    BY <1>1, <1>2, <1>3, WindowStart DEF FirstMissing
  <2>2. MaskWindow = base .. base + RwSectors(req.num) * SectorBits - 1
    BY DEF MaskWindow, Window, Range0
  <2> HIDE DEF base
  <2>3. \A s \in base .. base + RwSectors(req.num) * SectorBits - 1 : s >= base
    OBVIOUS
  <2> QED
    BY <2>1, <2>2, <2>3, <1>3 DEF Range0
<1>7. req.begin \notin Reserved
  BY <1>1, <1>2, <1>3, ReservedFirst, RegionBitsType, SectorBitsType
<1> QED
  BY <1>2, <1>4, <1>5, <1>6, <1>7

\* Files that are created keep what was there, though the last may be short.
LEMMA FilesCreated ==
  ASSUME FilesOK, files' \in Nat, files' >= files,
         \/ absent' = absent
         \/ files' > files /\ \E c \in Nat : absent' = absent \cup Rest(files' - 1, c)
  PROVE  /\ FirstMissing' \in Nat /\ FirstMissing <= FirstMissing'
         /\ absent' \subseteq Range0(0, FirstMissing') /\ Readable \subseteq Readable'
         /\ absent' \cap Range0(0, FirstMissing) \subseteq absent
<1>1. files \in Nat /\ FirstMissing \in Nat /\ RegionBits \in Nat
  BY SizesType, RegionBitsType
<1> DEFINE F == FirstMissing'
<1>2. F = files' * RegionBits /\ Readable' = Range0(0, F) \ absent'
  BY DEF FirstMissing, Readable, RegionBits, SectorBits
<1> HIDE DEF F
<1>0. ASSUME NEW n \in Nat, n >= files
      PROVE  n * RegionBits \in Nat /\ FirstMissing <= n * RegionBits
  <2>1. files * RegionBits <= n * RegionBits
    BY <1>0, <1>1, CapacityGrows
  <2> QED
    BY <2>1, <1>0, <1>1 DEF FirstMissing
<1>3. F \in Nat /\ FirstMissing <= F
  BY <1>0, <1>2
<1>31. Range0(0, FirstMissing) \subseteq Range0(0, F) /\ absent \subseteq Range0(0, FirstMissing)
  BY <1>1, <1>3 DEF FilesOK, Range0
<1>4. CASE absent' = absent
  BY <1>2, <1>3, <1>31, <1>4 DEF Readable, F
<1>5. CASE files' > files /\ \E c \in Nat : absent' = absent \cup Rest(files' - 1, c)
  <2>1. PICK c \in Nat : absent' = absent \cup Rest(files' - 1, c)
    BY <1>5
  <2> DEFINE low == (files' - 1) * RegionBits
             top == (files' - 1 + 1) * RegionBits
             skip == c * SectorBits
  <2>2. low \in Nat /\ FirstMissing <= low
    <3>1. \A n \in Nat : \A m \in Nat : n > m => n - 1 \in Nat /\ n - 1 >= m
      OBVIOUS
    <3>2. files' > files
      BY <1>5
    <3>3. files' - 1 \in Nat /\ files' - 1 >= files
      BY <1>1, <3>1, <3>2, Zenon
    <3> QED
      BY <3>3, <1>0
  <2>3. top = F /\ skip \in Nat
    <3>1. \A n \in Nat : n - 1 + 1 = n
      OBVIOUS
    <3>2. files' - 1 + 1 = files'
      BY <3>1, Zenon
    <3> QED
      BY <1>2, <3>2, SectorBitsType
  <2>4. Rest(files' - 1, c) = low + skip .. top - 1
    BY DEF Rest
  <2> HIDE DEF low, top, skip
  <2>5. Rest(files' - 1, c) \subseteq Range0(0, F)
        /\ Rest(files' - 1, c) \cap Range0(0, FirstMissing) = {}
    BY <1>1, <1>3, <2>2, <2>3, <2>4 DEF Range0
  <2> QED
    BY <1>2, <1>3, <1>31, <2>1, <2>5 DEF Readable, F
<1> QED
  BY <1>4, <1>5

\* The bits that an update may touch are in its buffer.
LEMMA MaskedWithin ==
  ASSUME CallOK
  PROVE  /\ MaskedSectors(req.begin, req.num) \subseteq MaskWindow
         /\ \A bits : Masked(bits) \subseteq bits \cup MaskWindow
<1>1. MaskedSectors(req.begin, req.num) \subseteq MaskWindow
  BY MaskedInWindow DEF MaskWindow, CallOK
<1> QED
  BY <1>1 DEF Masked

\* How an update can change the bits and the files: not at all, within the files that
\* there are, or by files that it creates.
Untouched ==
  /\ marks' = marks /\ UNCHANGED metafiles /\ Flushing
  /\ status' = "success" /\ pc' = "idle" => req.begin \in Reserved
Updated ==
  /\ UNCHANGED metafiles /\ MaskWindow \subseteq Readable /\ stored' = Flushed(MaskWindow)
  /\ req.begin \notin Reserved /\ pc' = "idle"
  /\ \/ status' = "success" /\ marks' = Masked(marks)
     \/ /\ status' = "drive_rw"
        /\ \E cut \in MaskWindow :
             marks' = {s \in Masked(marks) : s < cut} \cup {s \in marks : s >= cut}
Grown ==
  /\ req.begin >= Capacity /\ WithinBound /\ stored' = stored /\ pc' = "idle"
  /\ fmeta_num' = Needed /\ files' \in files .. Needed
  /\ \/ absent' = absent
     \/ files' > files /\ \E c \in Nat : absent' = absent \cup Rest(files' - 1, c)
  /\ \/ marks' = marks /\ status' = "drive_rw"
     \/ /\ files' = Needed /\ absent' = absent
        /\ \E new : /\ status' = "success"
                    /\ marks' = marks \cup Masked(new \cap MaskWindow)
     \/ /\ files' = Needed /\ absent' = absent
        /\ \E new : \E cut \in MaskWindow :
             /\ status' = "drive_rw"
             /\ marks' = marks \cup {s \in Masked(new \cap MaskWindow) : s < cut}

LEMMA MaskEffect ==
  ASSUME FilesOK, CallOK, MaskStep
  PROVE  Untouched \/ Updated \/ Grown
<1>1. CASE MaskReserved \/ MaskNoMemory \/ MaskReadFails \/ MaskReadWild \/ MaskGrowFails
  <2>1. Flushing
    BY <1>1 DEF MaskReserved, MaskNoMemory, MaskReadFails, MaskReadError, MaskReadWild,
         MaskGrowFails, Flushing
  <2>2. marks' = marks /\ UNCHANGED metafiles
    BY <1>1 DEF MaskReserved, MaskNoMemory, MaskReadFails, MaskReadWild, MaskGrowFails
  <2>3. status' = "success" /\ pc' = "idle" => req.begin \in Reserved
    BY <1>1 DEF MaskReserved, MaskNoMemory, MaskReadFails, MaskReadWild, MaskGrowFails, Return,
         GoWild
  <2> QED
    BY <2>1, <2>2, <2>3 DEF Untouched
<1>2. CASE MaskUpdate
  BY <1>2 DEF MaskUpdate, Updated, Return
<1>3. CASE MaskWriteFails
  BY <1>3 DEF MaskWriteFails, Updated, Return
<1>4. CASE MaskGrow \/ MaskGrowPartly \/ MaskGrowWriteFails
  <2>1. req.begin >= Capacity /\ WithinBound
    BY <1>4 DEF MaskGrow, MaskGrowPartly, MaskGrowWriteFails, Growing
  <2>2. Needed \in Nat /\ Needed > files /\ files \in Nat /\ ChunkSectors \in Nat
    BY <2>1, GrowthFacts, SizesType, BitmapAssumption
  <2>3. CASE MaskGrow
    <3>1. /\ stored' = stored /\ absent' = absent /\ pc' = "idle" /\ status' = "success"
          /\ fmeta_num' = Needed /\ files' = Needed
      BY <2>3 DEF MaskGrow, Return
    <3>2. \E new : marks' = marks \cup Masked(new \cap MaskWindow)
      BY <2>3, Zenon DEF MaskGrow
    <3>3. files' \in files .. Needed
      BY <2>2, <3>1
    <3> QED
      BY <2>1, <3>1, <3>2, <3>3, Zenon DEF Grown
  <2>4. CASE MaskGrowPartly
    <3>1. /\ marks' = marks /\ stored' = stored /\ pc' = "idle" /\ status' = "drive_rw"
          /\ fmeta_num' = Needed
      BY <2>4 DEF MaskGrowPartly, Return
    <3>2. PICK i \in files .. Needed - 1 :
            \/ files' = i /\ UNCHANGED absent
            \/ files' = i + 1 /\ \E c \in 0 .. ChunkSectors : absent' = absent \cup Rest(i, c)
      BY <2>4 DEF MaskGrowPartly
    <3>3. CASE files' = i /\ UNCHANGED absent
      BY <2>1, <2>2, <3>1, <3>3 DEF Grown
    <3>4. CASE files' = i + 1 /\ \E c \in 0 .. ChunkSectors : absent' = absent \cup Rest(i, c)
      <4>1. files' > files /\ files' \in files .. Needed /\ files' - 1 = i
        BY <2>2, <3>4
      <4>2. \E c \in Nat : absent' = absent \cup Rest(files' - 1, c)
        BY <2>2, <3>4, <4>1
      <4> QED
        BY <2>1, <3>1, <4>1, <4>2 DEF Grown
    <3> QED
      BY <3>2, <3>3, <3>4
  <2>5. CASE MaskGrowWriteFails
    <3>1. /\ stored' = stored /\ absent' = absent /\ pc' = "idle" /\ status' = "drive_rw"
          /\ fmeta_num' = Needed /\ files' = Needed
      BY <2>5 DEF MaskGrowWriteFails, Return
    <3>2. \E new : \E cut \in MaskWindow :
            marks' = marks \cup {s \in Masked(new \cap MaskWindow) : s < cut}
      BY <2>5, Zenon DEF MaskGrowWriteFails
    <3>3. files' \in files .. Needed
      BY <2>2, <3>1
    <3> QED
      BY <2>1, <3>1, <3>2, <3>3, Zenon DEF Grown
  <2> QED
    BY <1>4, <2>3, <2>4, <2>5
<1> QED
  BY <1>1, <1>2, <1>3, <1>4 DEF MaskStep

\* A growth sets bits of the new files only.
LEMMA GrownBits ==
  ASSUME FilesOK, CallOK, Grown
  PROVE  marks \subseteq marks' /\ marks' \subseteq marks \cup (MaskWindow \cap Readable')
<1>1. /\ Needed \in Nat /\ Needed > files /\ MaskWindow \subseteq Range0(0, Needed * RegionBits)
      /\ MaskWindow \cap Range0(0, FirstMissing) = {}
  BY GrowthFacts DEF Grown
<1>2. \A bits : Masked(bits) \subseteq bits \cup MaskWindow
  BY MaskedWithin
<1>3. CASE marks' = marks
  BY <1>3
<1>4. CASE files' = Needed /\ absent' = absent
  <2>1. marks \subseteq marks' /\ marks' \subseteq marks \cup MaskWindow
    <3>1. CASE marks' = marks
      BY <3>1
    <3>2. CASE \E new : marks' = marks \cup Masked(new \cap MaskWindow)
      BY <3>2, <1>2
    <3>3. CASE \E new : \E cut \in MaskWindow :
                 marks' = marks \cup {s \in Masked(new \cap MaskWindow) : s < cut}
      BY <3>3, <1>2
    <3> QED
      BY <3>1, <3>2, <3>3, Zenon DEF Grown
  <2>2. Readable' = Range0(0, Needed * RegionBits) \ absent
    BY <1>4 DEF Readable, FirstMissing, RegionBits, SectorBits
  <2>3. MaskWindow \subseteq Readable'
    BY <1>1, <2>2 DEF FilesOK
  <2> QED
    BY <2>1, <2>3
<1> QED
  BY <1>3, <1>4 DEF Grown

\* No way an update can end sets a bit outside the files there are.
LEMMA MaskFiles ==
  ASSUME FilesOK, CallOK, Untouched \/ Updated \/ Grown
  PROVE  /\ FilesOK' /\ FirstMissing' \in Nat /\ FirstMissing <= FirstMissing'
         /\ Readable \subseteq Readable'
<1>1. CASE Untouched \/ Updated
  <2>1. UNCHANGED <<fmeta_num, files, absent>>
    BY <1>1 DEF Untouched, Updated, metafiles
  <2>2. FirstMissing' = FirstMissing /\ Readable' = Readable
    BY <2>1 DEF FirstMissing, Readable, RegionBits, SectorBits
  <2>3. stored' \subseteq marks \cup stored
    BY <1>1, FlushWrites DEF Untouched, Updated, Flushed
  <2>4. marks' \subseteq Readable
    BY <1>1, MaskedWithin DEF Untouched, Updated, FilesOK
  <2>5. FirstMissing \in Nat
    BY SizesType
  <2> QED
    BY <2>1, <2>2, <2>3, <2>4, <2>5 DEF FilesOK
<1>2. CASE Grown
  <2>1. /\ files \in Nat /\ fmeta_num \in Nat /\ 1 <= files /\ MaxMetaFiles \in Nat
    BY SizesType DEF FilesOK
  <2>2. Needed \in Nat /\ Needed > files /\ Needed <= MaxMetaFiles
    BY <1>2, GrowthFacts DEF Grown
  <2>3. files' \in Nat /\ files' >= files /\ files' \in 1 .. fmeta_num'
        /\ fmeta_num' \in 1 .. MaxMetaFiles
    BY <1>2, <2>1, <2>2 DEF Grown
  <2>4. /\ FirstMissing' \in Nat /\ FirstMissing <= FirstMissing'
        /\ absent' \subseteq Range0(0, FirstMissing') /\ Readable \subseteq Readable'
    BY <1>2, <2>3, FilesCreated DEF Grown
  <2>5. marks' \subseteq Readable' /\ stored' \subseteq Readable'
    BY <1>2, <2>4, GrownBits DEF FilesOK, Grown
  <2> QED
    BY <2>3, <2>4, <2>5 DEF FilesOK
<1> QED
  BY <1>1, <1>2

\* What is left of the bits after a crash is a part of what was there, and what had
\* reached the files is left; a growth in progress may have created files.
LEMMA CrashEffect ==
  ASSUME FilesOK, CallOK, Crash
  PROVE  /\ FilesOK' /\ CallOK'
         /\ marks' \subseteq marks \cup stored /\ marks \cap stored \subseteq marks'
         /\ stored' = marks' /\ pc' = "idle" /\ req' = NoCall
         /\ FirstMissing' \in Nat /\ FirstMissing <= FirstMissing'
         /\ FirstMissing' # FirstMissing => pc = "mask"
         /\ files <= files' /\ fmeta_num' = files'
<1>1. marks' \subseteq marks \cup stored /\ marks \cap stored \subseteq marks' /\ stored' = marks'
  BY DEF Crash
<1>2. /\ pc' = "idle" /\ status' = "success" /\ req' = NoCall /\ ite' = 0
      /\ begin' = 0 /\ fmeta_num' = files'
  BY DEF Crash, Return
<1>3. indexRw' \in BOOLEAN /\ used' \in BOOLEAN
  BY Zenon DEF Crash
<1>4. CallOK'
  BY <1>2, <1>3 DEF CallOK, Statuses, NoCall
<1>5. /\ files \in Nat /\ files \in 1 .. MaxMetaFiles
      /\ ChunkSectors \in Nat /\ MaxMetaFiles \in Nat
  BY SizesType, BitmapAssumption DEF FilesOK
<1>6. /\ files' \in 1 .. MaxMetaFiles /\ files' >= files
      /\ \/ absent' = absent
         \/ files' > files /\ \E c \in Nat : absent' = absent \cup Rest(files' - 1, c)
      /\ files' # files => pc = "mask"
  <2>1. CASE UNCHANGED <<files, absent>>
    BY <1>5, <2>1
  <2>2. CASE /\ pc = "mask" /\ req.begin >= Capacity /\ WithinBound
             /\ files' \in files + 1 .. Needed
             /\ \E c \in 0 .. ChunkSectors : absent' = absent \cup Rest(files' - 1, c)
    <3>1. Needed \in Nat /\ Needed <= MaxMetaFiles
      BY <2>2, GrowthFacts
    <3>2. \E c \in Nat : absent' = absent \cup Rest(files' - 1, c)
      <4>1. PICK c \in 0 .. ChunkSectors : absent' = absent \cup Rest(files' - 1, c)
        BY <2>2
      <4>2. c \in Nat
        BY <1>5
      <4> QED
        BY <4>1, <4>2
    <3>3. files' \in 1 .. MaxMetaFiles /\ files' > files
      BY <1>5, <2>2, <3>1
    <3> QED
      BY <1>5, <2>2, <3>2, <3>3
  <2> QED
    BY <2>1, <2>2 DEF Crash
<1>7. /\ FirstMissing' \in Nat /\ FirstMissing <= FirstMissing'
      /\ absent' \subseteq Range0(0, FirstMissing') /\ Readable \subseteq Readable'
  BY <1>6, FilesCreated
<1>8. FirstMissing' # FirstMissing => pc = "mask"
  <2>1. files' = files => FirstMissing' = FirstMissing
    BY DEF FirstMissing, RegionBits, SectorBits
  <2> QED
    BY <1>6, <2>1
<1>9. FilesOK'
  BY <1>1, <1>2, <1>6, <1>7 DEF FilesOK
<1> QED
  BY <1>1, <1>2, <1>4, <1>5, <1>6, <1>7, <1>8, <1>9

\* The updates that callers ask for.
Updates == {[op |-> op, begin |-> r.begin, num |-> r.num] :
              op \in {"set", "clear"}, r \in Ranges}

\* A call of the bitmap's changes no bit, and begins an update or a search at most.
LEMMA BitmapCallEffect ==
  ASSUME CallOK, BitmapCall
  PROVE  /\ Quiet /\ CallOK' /\ pc = "idle" /\ pc' # "fallback"
         /\ pc' = "mask" => req' \in Updates
         /\ pc' = "search" => \E q \in Searches : GetmaskFreesector(q.num, q.offset)
<1>1. ASSUME NEW r \in Ranges,
             DiskwithBitmapWrite(r.begin, r.num) \/ DiskwithBitmapErase(r.begin, r.num)
      PROVE  /\ Quiet /\ CallOK' /\ pc = "idle" /\ pc' # "fallback" /\ pc' # "search"
             /\ pc' = "mask" => req' \in Updates
  <2>1. r.begin \in Nat /\ r.num \in Nat \ {0}
    BY BitmapAssumption
  <2>2. /\ Quiet /\ CallOK' /\ pc = "idle" /\ pc' # "fallback"
        /\ pc' = "mask" => req' \in {[op |-> op, begin |-> r.begin, num |-> r.num] : op \in {"set", "clear"}}
    BY <1>1, <2>1, CallEffect
  <2>3. pc' # "search"
    BY <1>1 DEF DiskwithBitmapWrite, DiskwithBitmapErase, Return
  <2> QED
    BY <2>2, <2>3 DEF Updates
<1>2. ASSUME NEW r \in Ranges,
             GetmaskSomeused(r.begin, r.num) \/ GetmaskAllused(r.begin, r.num)
      PROVE  Quiet /\ CallOK' /\ pc = "idle" /\ pc' \in {"idle", "wild"}
  BY <1>2, QueryEffect, BitmapAssumption
<1>3. ASSUME NEW q \in Searches, GetmaskFreesector(q.num, q.offset)
      PROVE  Quiet /\ CallOK' /\ pc = "idle" /\ pc' = "search"
  <2>1. q.num \in Nat \ {0} /\ q.offset \in Nat
    BY BitmapAssumption
  <2> QED
    BY <1>3, <2>1, CallEffect DEF GetmaskFreesector
<1>4. ASSUME DiskwithBitmapRead \/ CloseAndOpen \/ CloseWild
      PROVE  Quiet /\ CallOK' /\ pc = "idle" /\ pc' \in {"idle", "wild"}
  <2>1. 0 \in Nat /\ 1 \in Nat \ {0}
    OBVIOUS
  <2>2. Quiet /\ CallOK' /\ pc = "idle"
    BY <1>4, <2>1, CallEffect
  <2> QED
    BY <1>4, <2>2 DEF DiskwithBitmapRead, CloseAndOpen, CloseWild, GoWild
<1>5. CASE \E r \in Ranges :
             DiskwithBitmapWrite(r.begin, r.num) \/ DiskwithBitmapErase(r.begin, r.num)
  BY <1>1, <1>5
<1>6. CASE \E r \in Ranges :
             GetmaskSomeused(r.begin, r.num) \/ GetmaskAllused(r.begin, r.num)
  BY <1>2, <1>6
<1>7. CASE \E q \in Searches : GetmaskFreesector(q.num, q.offset)
  BY <1>3, <1>7
<1>8. CASE DiskwithBitmapRead \/ CloseAndOpen \/ CloseWild
  BY <1>4, <1>8
<1> QED
  BY <1>5, <1>6, <1>7, <1>8 DEF BitmapCall

\* When nothing happens, nothing changes.
LEMMA StutterEffect ==
  ASSUME FilesOK, UNCHANGED vars
  PROVE  /\ Quiet /\ pc' = pc /\ req' = req /\ ite' = ite /\ begin' = begin /\ status' = status
         /\ (indexRw' <=> indexRw) /\ fmeta_num' = fmeta_num
<1>1. (indexRw' <=> indexRw)
  BY Zenon DEF vars
<1> QED
  BY <1>1 DEF vars, metafiles, Quiet, Flushing

\* The volume begins as it has to be.
LEMMA BitmapTypeInit == BitmapInit => TypeOK
<1> SUFFICES ASSUME BitmapInit
             PROVE  TypeOK
  OBVIOUS
<1>1. MaxMetaFiles \in Nat \ {0}
  BY BitmapAssumption
<1>2. indexRw \in BOOLEAN /\ used \in BOOLEAN
  BY Zenon DEF BitmapInit
<1> QED
  BY <1>1, <1>2 DEF BitmapInit, TypeOK, Statuses, NoCall

\* Type correctness of the bitmap: among it, that every bit in use is in a meta file
\* that exists and reaches so far, also when an update has grown the volume or failed
\* half way through that (fs_bitmap.h:56-66, fs_disk.h:219-262).
THEOREM BitmapTypeOK == BitmapSpec => []TypeOK
<1>1. BitmapInit => TypeOK
  BY BitmapTypeInit
<1>2. TypeOK /\ [BitmapNext]_vars => TypeOK'
  <2> SUFFICES ASSUME FilesOK, CallOK, TypeOK, [BitmapNext]_vars
               PROVE  FilesOK' /\ CallOK'
    BY TypeParts
  <2>1. CASE BitmapCall
    BY <2>1, BitmapCallEffect, QuietFiles
  <2>2. CASE MaskStep
    BY <2>2, MaskEnds, MaskEffect, MaskFiles
  <2>3. CASE SearchStep
    BY <2>3, SearchEffect, QuietFiles
  <2>4. CASE Crash
    BY <2>4, CrashEffect
  <2>5. CASE UNCHANGED vars
    <3>1. CallOK'
      BY <2>5, Zenon DEF CallOK, vars
    <3>2. UNCHANGED <<fmeta_num, files, absent, marks, stored>>
      BY <2>5 DEF vars, metafiles
    <3> QED
      BY <3>1, <3>2 DEF FilesOK, FirstMissing, Readable, RegionBits, SectorBits
  <2> QED
    BY <2>1, <2>2, <2>3, <2>4, <2>5 DEF BitmapNext, BitmapStep
<1> QED
  BY <1>1, <1>2, PTL DEF BitmapSpec
-----------------------------------------------------------------------------
\* ReservedHasNoBits speaks of the bits as read; a crash brings back those in
\* the files.
NoReservedBits == marks \cap Reserved = {} /\ stored \cap Reserved = {}

\* The buffer of a range past the reserved sectors has no bit of a reserved one.
LEMMA WindowPastReserved ==
  ASSUME CallOK, req.begin \notin Reserved
  PROVE  MaskWindow \cap Reserved = {}
<1>1. req.begin \in Nat /\ req.begin >= SectorBits /\ SectorBits \in Nat
  BY ReservedFirst, SectorBitsType DEF CallOK
<1>2. MetaSector(req.begin) * SectorBits >= SectorBits /\ MetaSector(req.begin) * SectorBits \in Nat
  BY <1>1, WindowStart
<1> DEFINE base == MetaSector(req.begin) * SectorBits
<1>3. MaskWindow = base .. base + RwSectors(req.num) * SectorBits - 1
  BY DEF MaskWindow, Window, Range0
<1> HIDE DEF base
<1>4. \A s \in base .. base + RwSectors(req.num) * SectorBits - 1 : s >= base
  OBVIOUS
<1> QED
  BY <1>1, <1>2, <1>3, <1>4 DEF Reserved, Range0, base

\* An update sets no bit of a reserved sector, neither as read nor in the files.
LEMMA MaskStepReserved ==
  ASSUME FilesOK, CallOK, NoReservedBits, Untouched \/ Updated \/ Grown
  PROVE  NoReservedBits'
<1>1. Reserved' = Reserved
  BY DEF Reserved, Range0, SectorBits
<1>2. CASE Untouched
  BY <1>1, <1>2, FlushWrites DEF Untouched, NoReservedBits
<1>3. CASE Updated
  <2>1. MaskWindow \cap Reserved = {}
    BY <1>3, WindowPastReserved DEF Updated
  <2>2. marks' \subseteq marks \cup MaskWindow
    BY <1>3, MaskedWithin DEF Updated
  <2>3. stored' \subseteq marks \cup stored
    BY <1>3, FlushWrites DEF Updated, Flushing
  <2> QED
    BY <1>1, <2>1, <2>2, <2>3 DEF NoReservedBits
<1>4. CASE Grown
  <2>1. MaskWindow \cap Reserved = {}
    BY <1>4, GrowthFacts, WindowPastReserved DEF Grown
  <2>2. marks' \subseteq marks \cup MaskWindow /\ stored' = stored
    BY <1>4, GrownBits DEF Grown
  <2> QED
    BY <1>1, <2>1, <2>2 DEF NoReservedBits
<1> QED
  BY <1>2, <1>3, <1>4

\* fs_bitmap.h:27 and 57: whatever ranges the callers write and release, no call
\* sets the bit of a reserved sector.
THEOREM NoReservedBitIsSet == BitmapSpec => []ReservedHasNoBits
<1>1. BitmapInit => NoReservedBits
  BY DEF BitmapInit, NoReservedBits
<1>2. TypeOK /\ NoReservedBits /\ [BitmapNext]_vars => NoReservedBits'
  <2> SUFFICES ASSUME FilesOK, CallOK, TypeOK, NoReservedBits, [BitmapNext]_vars
               PROVE  NoReservedBits'
    BY TypeParts
  <2>1. Reserved' = Reserved
    BY DEF Reserved, Range0, SectorBits
  <2>2. CASE BitmapCall \/ SearchStep \/ UNCHANGED vars
    <3>1. Quiet
      BY <2>2, BitmapCallEffect, SearchEffect, StutterEffect
    <3> QED
      BY <2>1, <3>1, FlushWrites DEF Quiet, NoReservedBits
  <2>3. CASE MaskStep
    BY <2>3, MaskEffect, MaskStepReserved
  <2>4. CASE Crash
    BY <2>1, <2>4, CrashEffect DEF NoReservedBits
  <2> QED
    BY <2>2, <2>3, <2>4 DEF BitmapNext, BitmapStep
<1>3. NoReservedBits => ReservedHasNoBits
  BY DEF NoReservedBits, ReservedHasNoBits
<1> QED
  BY <1>1, <1>2, <1>3, BitmapTypeOK, PTL DEF BitmapSpec
-----------------------------------------------------------------------------
\* The update in progress is one that a caller asked for.
AskedFor == pc = "mask" => req \in Updates

LEMMA UpdatesAskedFor == BitmapSpec => []AskedFor
<1>1. BitmapInit => AskedFor
  BY DEF BitmapInit, AskedFor
<1>2. TypeOK /\ AskedFor /\ [BitmapNext]_vars => AskedFor'
  <2> SUFFICES ASSUME FilesOK, CallOK, TypeOK, AskedFor, [BitmapNext]_vars
               PROVE  AskedFor'
    BY TypeParts
  <2>1. Updates' = Updates
    BY DEF Updates
  <2>2. CASE BitmapCall
    BY <2>1, <2>2, BitmapCallEffect DEF AskedFor
  <2>3. CASE MaskStep \/ Crash
    BY <2>3, MaskEnds, CrashEffect DEF AskedFor
  <2>4. CASE SearchStep
    BY <2>4, SearchEffect DEF AskedFor
  <2>5. CASE UNCHANGED vars
    BY <2>1, <2>5, StutterEffect DEF AskedFor
  <2> QED
    BY <2>2, <2>3, <2>4, <2>5 DEF BitmapNext, BitmapStep
<1> QED
  BY <1>1, <1>2, BitmapTypeOK, PTL DEF BitmapSpec

\* Callers whose ranges reach the end of their first byte, as a range of whole bytes
\* does: their masks are exact.
ExactCallers == \A r \in Ranges : ReachesByteEnd(r.begin, r.num)

\* And lie in the reserved sectors or past them, but not across their end.
CarefulCallers ==
  ExactCallers /\ \A r \in Ranges : r.begin >= SectorBits \/ r.begin + r.num <= SectorBits

\* What the update in progress touches is the range of a caller.
LEMMA UpdateRange ==
  ASSUME ExactCallers, CallOK, AskedFor, pc = "mask"
  PROVE  /\ MaskedSectors(req.begin, req.num) = Range0(req.begin, req.num)
         /\ Range0(req.begin, req.num) \subseteq MaskWindow
         /\ \E r \in Ranges : req.begin = r.begin /\ req.num = r.num
         /\ req.op \in {"set", "clear"}
<1>1. req.begin \in Nat /\ req.num \in Nat \ {0}
  BY DEF CallOK
<1>2. PICK r \in Ranges, op \in {"set", "clear"} :
        req = [op |-> op, begin |-> r.begin, num |-> r.num]
  BY DEF AskedFor, Updates
<1>3. ReachesByteEnd(req.begin, req.num)
  BY <1>2 DEF ExactCallers
<1>4. MaskedSectors(req.begin, req.num) = Range0(req.begin, req.num)
  BY <1>1, <1>3, MaskExact
<1> QED
  BY <1>2, <1>4, MaskedWithin

\* fs_bitmap.h:88-91, for such callers, of any volume: a write that reports
\* success has set the bit of every sector it wrote that has one.
THEOREM SuccessIsRecorded ==
  ASSUME CarefulCallers
  PROVE  BitmapSpec => WriteRecorded
<1>1. ASSUME TypeOK, AskedFor, [BitmapNext]_vars,
             pc = "mask", req.op = "set", pc' = "idle", status' = "success", ~Crash
      PROVE  Range0(req.begin, req.num) \ Reserved \subseteq marks'
  <2>1. FilesOK /\ CallOK
    BY <1>1, TypeParts
  <2>2. MaskStep
    BY <1>1, <2>1, BitmapCallEffect, SearchEffect, StutterEffect DEF BitmapNext, BitmapStep
  <2>3. Untouched \/ Updated \/ Grown
    BY <2>1, <2>2, MaskEffect
  <2>4. /\ MaskedSectors(req.begin, req.num) = Range0(req.begin, req.num)
        /\ req.begin >= SectorBits \/ req.begin + req.num <= SectorBits
    BY CarefulCallers, <1>1, <2>1, UpdateRange DEF CarefulCallers
  <2>5. CASE Untouched
    <3>1. req.begin \in Reserved
      BY <1>1, <2>5 DEF Untouched
    <3>2. req.begin \in Nat /\ req.num \in Nat /\ SectorBits \in Nat
      BY <2>1, SectorBitsType DEF CallOK
    <3> QED
      BY <2>4, <3>1, <3>2 DEF Reserved, Range0
  <2>6. ASSUME NEW bits
        PROVE  Range0(req.begin, req.num) \subseteq Masked(bits)
    BY <1>1, <2>4 DEF Masked
  <2>7. CASE Updated
    BY <1>1, <2>6, <2>7 DEF Updated
  <2>8. CASE Grown
    BY <1>1, <2>6, <2>8 DEF Grown
  <2> QED
    BY <2>3, <2>5, <2>7, <2>8
<1>2. TypeOK /\ AskedFor /\ [BitmapNext]_vars
        => [pc = "mask" /\ req.op = "set" /\ pc' = "idle" /\ status' = "success" /\ ~Crash
              => Range0(req.begin, req.num) \ Reserved \subseteq marks']_vars
  BY <1>1
<1> QED
  BY <1>2, BitmapTypeOK, UpdatesAskedFor, PTL DEF BitmapSpec, WriteRecorded
-----------------------------------------------------------------------------
\* A candidate is free, and what the search knows where it stands: it has come by
\* steps of its number of sectors, past no free candidate; in the fallback, past none
\* but perhaps the one whose read failed.
Free(p) == Range0(p, req.num) \subseteq Range0(0, Capacity) \ marks
InSteps == \E k \in Nat : ite = SearchStart + k * req.num
SearchInv ==
  /\ pc = "search" => InSteps /\ FreeBefore(ite) = {}
  /\ pc = "fallback" => indexRw /\ \A p \in FreeBefore(ite) : p >= ite - req.num

\* Of the numbers from one multiple to the next, only the first is one.
LEMMA OneMultiple ==
  ASSUME NEW n \in Nat \ {0}, NEW k \in Nat, NEW a \in Nat,
         k * n <= a, a < k * n + n, (a % n) = 0
  PROVE  a = k * n
<1> DEFINE q == a \div n
           d == a - k * n
<1>1. q \in Nat /\ a = n * q + 0
  BY NatDivision
<1> HIDE DEF q
<1>2. k * n \in Nat /\ k * n = n * k
  OBVIOUS
<1>3. d \in 0 .. n - 1 /\ n * k + d = n * q + 0
  BY <1>1, <1>2
<1> HIDE DEF d
<1>4. d = 0
  BY <1>1, <1>3, UniqueDivision
<1> QED
  BY <1>2, <1>4 DEF d

\* FreeBefore in terms of Free.
LEMMA FreeCandidates ==
  ASSUME NEW limit
  PROVE  FreeBefore(limit)
           = {p \in SearchStart .. limit - 1 : ((p - SearchStart) % req.num) = 0 /\ Free(p)}
BY DEF FreeBefore, Free

\* A query that is answered before its last candidate sector has seen that the
\* candidate is not free; one that is not answered, that it has no used sector.
LEMMA CandidateRead ==
  ASSUME FilesOK, CallOK
  PROVE  /\ (\E t \in Candidate : AnsweredAt(Candidate, FALSE, t)) => ~Free(ite)
         /\ Unanswered(Candidate, FALSE) => Candidate \cap marks = {}
<1>1. Capacity \in Nat /\ marks \subseteq Range0(0, FirstMissing) /\ FirstMissing <= Capacity
        /\ FirstMissing \in Nat
  BY SizesType DEF FilesOK
<1>2. Candidate \subseteq Nat
  BY DEF Candidate, Range0, CallOK
<1>3. ASSUME NEW t \in Candidate, AnsweredAt(Candidate, FALSE, t)
      PROVE  ~Free(ite)
  <2>1. t >= Capacity \/ t \in marks
    BY <1>3 DEF AnsweredAt
  <2> QED
    BY <1>1, <1>2, <2>1 DEF Free, Candidate, Range0
<1>4. ASSUME Unanswered(Candidate, FALSE), NEW s \in Candidate
      PROVE  s \notin marks
  <2>1. s >= Capacity \/ s \notin marks
    BY <1>4, Zenon DEF Unanswered
  <2> QED
    BY <1>1, <1>2, <2>1 DEF Range0
<1> QED
  BY <1>3, <1>4

\* The search moves on by a candidate that is not free, or steps back.
LEMMA SearchSkips ==
  ASSUME FilesOK, CallOK, SearchInv, SearchAdvance
  PROVE  SearchInv'
<1> DEFINE n == req.num
           st == SearchStart
           t == MaxMetaFiles * RegionBits
<1>1. /\ pc = "search" /\ pc' = pc /\ UNCHANGED <<fmeta_num, marks, req>> /\ ~Free(ite)
      /\ ite' = NextPosition
  BY CandidateRead DEF SearchAdvance, Searching, metafiles
<1>2. /\ n \in Nat \ {0} /\ st \in Nat /\ st >= SectorBits /\ st >= req.begin /\ req.begin \in Nat
      /\ SectorBits \in Nat /\ ite \in Nat
  BY SectorBitsType DEF CallOK, SearchStart
<1>3. t \in Nat /\ t >= SectorBits
  <2>1. MaxMetaFiles \in Nat /\ 1 <= MaxMetaFiles
    BY BitmapAssumption
  <2>2. 1 * RegionBits <= t /\ 1 * RegionBits = RegionBits /\ t \in Nat
    BY <2>1, CapacityGrows, RegionBitsType
  <2> QED
    BY <2>2, ReservedFirst, RegionBitsType, SectorBitsType
<1>4. PICK k \in Nat : ite = st + k * n
  BY <1>1 DEF SearchInv, InSteps
<1>5. k * n \in Nat
  BY <1>2
<1>6. SearchStart' = st /\ req'.num = n /\ \A p : Free(p)' <=> Free(p)
  BY <1>1 DEF SearchStart, Free, Capacity, Range0, RegionBits, SectorBits
<1>7. \A p \in st .. ite - 1 : ((p - st) % n) = 0 => ~Free(p)
  BY <1>1, FreeCandidates DEF SearchInv
<1>8. ASSUME NEW k2 \in Nat, ite' = st + k2 * n,
             \A p \in st .. ite' - 1 : ((p - st) % n) = 0 => ~Free(p)
      PROVE  SearchInv'
  <2>1. InSteps'
    BY <1>6, <1>8 DEF InSteps
  <2>2. FreeBefore(ite)'
          = {p \in SearchStart' .. ite' - 1 : ((p - SearchStart') % req'.num) = 0 /\ Free(p)'}
    BY DEF FreeBefore, Free
  <2>3. FreeBefore(ite)' = {}
    BY <1>6, <1>8, <2>2
  <2> QED
    BY <1>1, <2>1, <2>3 DEF SearchInv
<1> HIDE DEF n, st, t
<1>9. NextPosition = IF ite <= t + req.begin + n THEN ite + n ELSE ite - n
  BY DEF NextPosition, n, t
<1>10. CASE ite <= t + req.begin + n
  <2>1. ite' = st + (k + 1) * n /\ k + 1 \in Nat
    <3>1. (k + 1) * n = k * n + n
      BY <1>2
    <3> QED
      BY <1>1, <1>2, <1>4, <1>5, <1>9, <1>10, <3>1
  <2>2. ASSUME NEW p \in st .. ite' - 1, ((p - st) % n) = 0
        PROVE  ~Free(p)
    <3>1. ite' = ite + n
      BY <1>1, <1>9, <1>10
    <3>2. CASE p \in st .. ite - 1
      BY <1>7, <2>2, <3>2
    <3>3. CASE p \notin st .. ite - 1
      <4> DEFINE a == p - st
      <4>1. a \in Nat /\ k * n <= a /\ a < k * n + n
        BY <1>2, <1>4, <1>5, <3>1, <3>3
      <4>2. (a % n) = 0
        BY <2>2
      <4> HIDE DEF a
      <4>3. a = k * n
        BY <1>2, <4>1, <4>2, OneMultiple
      <4>4. p = ite
        BY <1>2, <1>4, <1>5, <4>3 DEF a
      <4> QED
        BY <1>1, <4>4
    <3> QED
      BY <3>2, <3>3
  <2> QED
    BY <1>8, <2>1, <2>2
<1>11. CASE ~(ite <= t + req.begin + n)
  <2>1. ite' = ite - n
    BY <1>1, <1>9, <1>11
  <2>2. k # 0
    <3>1. CASE k = 0
      <4>1. k * n = 0
        BY <1>2, <3>1
      <4>2. st <= t + req.begin
        BY <1>2, <1>3 DEF st, SearchStart
      <4> QED
        BY <1>2, <1>3, <1>4, <1>11, <4>1, <4>2
    <3> QED
      BY <3>1
  <2>3. k - 1 \in Nat /\ (k - 1) * n = k * n - n
    BY <1>2, <2>2
  <2>4. ite' = st + (k - 1) * n
    BY <1>2, <1>4, <1>5, <2>1, <2>3
  <2>5. \A p \in st .. ite' - 1 : p \in st .. ite - 1
    BY <1>2, <2>1
  <2> QED
    BY <1>7, <1>8, <2>3, <2>4, <2>5
<1> QED
  BY <1>10, <1>11

\* What a read that fails makes it skip is one candidate, and only when the index
\* file has failed too.
LEMMA FallbackSkips ==
  ASSUME FilesOK, CallOK, SearchInv, SearchReadFails
  PROVE  SearchInv'
<1>1. CASE Return("memory")
  BY <1>1 DEF SearchInv, Return
<1>2. CASE indexRw /\ pc' = "fallback" /\ ite' = ite + req.num /\ UNCHANGED req
  <2>1. UNCHANGED <<fmeta_num, marks, req>> /\ pc = "search" /\ (indexRw' <=> indexRw)
    BY <1>2, Zenon DEF SearchReadFails, Searching, metafiles
  <2>2. FreeBefore(ite) = {}
    BY <2>1 DEF SearchInv
  <2>3. SearchStart' = SearchStart /\ \A p : Free(p)' <=> Free(p)
    BY <2>1 DEF SearchStart, Free, Capacity, Range0, RegionBits, SectorBits
  <2>4. FreeBefore(ite)'
          = {p \in SearchStart' .. ite' - 1 : ((p - SearchStart') % req'.num) = 0 /\ Free(p)'}
    BY DEF FreeBefore, Free
  <2>5. ite \in Nat /\ req.num \in Nat /\ SearchStart \in Nat
    BY SectorBitsType DEF CallOK, SearchStart
  <2>6. ASSUME NEW p \in FreeBefore(ite)'
        PROVE  p >= ite' - req'.num
    <3>1. p \in SearchStart .. ite' - 1 /\ ((p - SearchStart) % req.num) = 0 /\ Free(p)
      BY <2>1, <2>3, <2>4, <2>6
    <3>2. p \notin SearchStart .. ite - 1
      BY <2>2, <3>1, FreeCandidates
    <3> QED
      BY <1>2, <2>1, <2>5, <3>1, <3>2
  <2> QED
    BY <1>2, <2>1, <2>6 DEF SearchInv
<1> QED
  BY <1>1, <1>2 DEF SearchReadFails

\* fs_bitmap.h:126-141: the search of any number of sectors from any offset is first
\* fit, but for the one candidate that the fallback skips and the next, which it
\* returns unread.
THEOREM SearchIsFirstFit == BitmapSpec => FoundIsFirst
<1>1. BitmapInit => SearchInv
  BY DEF BitmapInit, SearchInv
<1>2. TypeOK /\ SearchInv /\ [BitmapNext]_vars => SearchInv'
  <2> SUFFICES ASSUME FilesOK, CallOK, TypeOK, SearchInv, [BitmapNext]_vars
               PROVE  SearchInv'
    BY TypeParts
  <2>1. pc' \notin {"search", "fallback"} => SearchInv'
    BY DEF SearchInv
  <2>2. ASSUME NEW q \in Searches, GetmaskFreesector(q.num, q.offset)
        PROVE  SearchInv'
    <3>1. q.num \in Nat \ {0} /\ q.offset \in Nat /\ SectorBits \in Nat
      BY BitmapAssumption, SectorBitsType
    <3>2. /\ req' = [op |-> "find", begin |-> q.offset, num |-> q.num] /\ pc' = "search"
          /\ ite' = IF q.offset < SectorBits THEN SectorBits ELSE q.offset
      BY <2>2 DEF GetmaskFreesector
    <3>3. ite' = SearchStart' /\ ite' \in Nat /\ req'.num = q.num
      BY <3>1, <3>2 DEF SearchStart, SectorBits
    <3>4. ite' = SearchStart' + 0 * req'.num /\ 0 \in Nat
      BY <3>1, <3>3
    <3>5. InSteps'
      BY <3>4 DEF InSteps
    <3>6. FreeBefore(ite)' = {}
      <4> DEFINE i == ite'
      <4>1. i \in Nat /\ SearchStart' = i
        BY <3>3
      <4>2. FreeBefore(ite)' \subseteq SearchStart' .. i - 1
        BY DEF FreeBefore
      <4> HIDE DEF i
      <4>3. SearchStart' .. i - 1 = {}
        BY <4>1
      <4> QED
        BY <4>2, <4>3
    <3> QED
      BY <3>2, <3>5, <3>6 DEF SearchInv
  <2>3. CASE BitmapCall
    <3>1. CASE pc' = "search"
      BY <2>2, <2>3, <3>1, BitmapCallEffect
    <3>2. CASE pc' # "search"
      BY <2>1, <2>3, <3>2, BitmapCallEffect
    <3> QED
      BY <3>1, <3>2
  <2>4. CASE MaskStep \/ Crash
    BY <2>1, <2>4, MaskEnds, CrashEffect
  <2>5. CASE SearchAdvance
    BY <2>5, SearchSkips
  <2>6. CASE SearchReadFails
    BY <2>6, FallbackSkips
  <2>7. CASE SearchFound \/ SearchWild \/ SearchFallback
    <3>1. pc' \notin {"search", "fallback"}
      BY <2>7 DEF SearchFound, SearchWild, SearchFallback, Return, GoWild
    <3> QED
      BY <2>1, <3>1
  <2>8. CASE UNCHANGED vars
    <3>1. /\ UNCHANGED <<fmeta_num, marks, req, ite, pc>> /\ (indexRw' <=> indexRw)
      BY <2>8, StutterEffect DEF Quiet
    <3>2. SearchStart' = SearchStart /\ FreeBefore(ite)' = FreeBefore(ite)
      BY <3>1 DEF SearchStart, FreeBefore, Capacity, Range0, RegionBits, SectorBits
    <3> QED
      BY <3>1, <3>2 DEF SearchInv, InSteps
  <2> QED
    BY <2>3, <2>4, <2>5, <2>6, <2>7, <2>8 DEF BitmapNext, BitmapStep, SearchStep
<1>3. ASSUME TypeOK, SearchInv, [BitmapNext]_vars, Found
      PROVE  NoneSkipped
  <2>1. FilesOK /\ CallOK
    BY <1>3, TypeParts
  <2>2. SearchFound \/ (SearchFallback /\ status' = "success")
    <3>1. SearchStep
      BY <1>3, <2>1, BitmapCallEffect, MaskEnds, StutterEffect DEF Found, BitmapNext, BitmapStep
    <3>2. ~SearchAdvance /\ ~SearchReadFails /\ ~SearchWild
      BY <1>3 DEF Found, SearchAdvance, SearchReadFails, SearchWild, Searching, Return, GoWild
    <3> QED
      BY <1>3, <3>1, <3>2 DEF SearchStep, Found
  <2>3. CASE SearchFound
    <3>1. begin' = ite /\ pc = "search" /\ Unanswered(Candidate, FALSE)
      BY <2>3, Zenon DEF SearchFound, Searching
    <3>2. FreeBefore(begin') = {}
      BY <1>3, <3>1 DEF SearchInv
    <3>3. Range0(begin', req.num) \cap marks = {}
      BY <2>1, <3>1, CandidateRead DEF Candidate
    <3> QED
      BY <3>2, <3>3 DEF NoneSkipped
  <2>4. CASE SearchFallback /\ status' = "success"
    <3>1. begin' = ite /\ pc = "fallback"
      BY <2>4 DEF SearchFallback, Return
    <3> QED
      BY <1>3, <3>1 DEF SearchInv, NoneSkipped
  <2> QED
    BY <2>2, <2>3, <2>4
<1>4. TypeOK /\ SearchInv /\ [BitmapNext]_vars => [Found => NoneSkipped]_vars
  BY <1>3
<1> QED
  BY <1>1, <1>2, <1>4, BitmapTypeOK, PTL DEF BitmapSpec, FoundIsFirst
-----------------------------------------------------------------------------
\* unsettled of the refinement: the bits that differ from those in the files.
Unsettled == (marks \ stored) \cup (stored \ marks)

\* Writing out buffers settles bits and unsettles none.
LEMMA FlushSettles ==
  ASSUME Flushing, marks' = marks
  PROVE  Unsettled' \subseteq Unsettled
BY FlushWrites DEF Unsettled

\* An update that has flushed the files of its buffer leaves unsettled at most
\* its own sectors and those of other files.
LEMMA UpdateSettles ==
  ASSUME NEW R, NEW W, R \subseteq W, stored' = Flushed(W),
         marks \ R \subseteq marks', marks' \subseteq marks \cup R
  PROVE  Unsettled' \subseteq R \cup {s \in Unsettled : \A r \in R : FileOf(s) # FileOf(r)}
<1>1. ASSUME NEW s \in Unsettled', s \notin R
      PROVE  s \in Unsettled /\ \A r \in R : FileOf(s) # FileOf(r)
  <2>1. s \in marks' <=> s \in marks
    BY <1>1
  <2>2. FileOf(s) \notin {FileOf(w) : w \in W}
    BY <1>1, <2>1 DEF Unsettled, Flushed
  <2>3. s \in stored' <=> s \in stored
    BY <2>2 DEF Flushed
  <2>4. s \in Unsettled
    BY <1>1, <2>1, <2>3 DEF Unsettled
  <2>5. \A r \in R : FileOf(s) # FileOf(r)
    BY <2>2
  <2> QED
    BY <2>4, <2>5
<1> QED
  BY <1>1

\* The bits below the first missing file and those past it are in different files.
LEMMA RegionsApart ==
  ASSUME FilesOK, NEW s \in Nat, NEW r \in Nat, s < FirstMissing, r >= FirstMissing
  PROVE  FileOf(s) # FileOf(r)
<1> DEFINE B == RegionBits
           q == s \div B
           p == r \div B
           x == (s % B)
           y == (r % B)
<1>1. B \in Nat \ {0} /\ files \in Nat /\ FirstMissing = files * B
  BY RegionBitsType, SizesType DEF FirstMissing
<1>2. q \in Nat /\ x \in 0 .. B - 1 /\ s = B * q + x
  BY <1>1, NatDivision
<1>3. p \in Nat /\ y \in 0 .. B - 1 /\ r = B * p + y
  BY <1>1, NatDivision
<1>4. FileOf(s) = q /\ FileOf(r) = p
  BY DEF FileOf
<1> HIDE DEF B, q, p, x, y
<1>5. ~(q >= files)
  <2>1. q >= files => B * q >= files * B
    BY <1>1, <1>2
  <2>2. B * q \in Nat /\ files * B \in Nat
    BY <1>1, <1>2
  <2> QED
    BY <1>1, <1>2, <2>1, <2>2
<1>6. ~(p + 1 <= files)
  <2>1. p + 1 <= files => B * (p + 1) <= files * B
    BY <1>1, <1>3
  <2>2. B * (p + 1) = B * p + B /\ B * p \in Nat /\ files * B \in Nat
    BY <1>1, <1>3
  <2> QED
    BY <1>1, <1>3, <2>1, <2>2
<1> QED
  BY <1>1, <1>2, <1>3, <1>4, <1>5, <1>6

\* What the map calls Room and Named.
LEMMA MapTerms ==
  ASSUME FirstMissing \in Nat, FirstMissing' \in Nat
  PROVE  /\ Map!Room = Range0(0, FirstMissing)
         /\ Map!Room' = Range0(0, FirstMissing')
<1>1. \A n \in Nat : 0 .. n - 1 = Range0(0, n)
  BY DEF Range0
<1>2. Map!Room = 0 .. FirstMissing - 1 /\ Map!Room' = 0 .. FirstMissing' - 1
  BY DEF Map!Room
<1> QED
  BY <1>1, <1>2, Zenon

LEMMA MapNamed ==
  ASSUME ExactCallers, CallOK, AskedFor, pc = "mask"
  PROVE  /\ req.begin \in Reserved => Map!Named = {}
         /\ req.begin \notin Reserved => Map!Named = MaskedSectors(req.begin, req.num)
<1>1. req.begin \in Nat /\ SectorBits \in Nat
  BY SectorBitsType DEF CallOK
<1>2. req.begin \in Reserved <=> req.begin < SectorBits
  BY <1>1, ReservedFirst
<1>3. Map!Named = IF req.begin < SectorBits THEN {} ELSE Range0(req.begin, req.num)
  BY DEF Map!Named, Range0
<1> QED
  BY <1>2, <1>3, UpdateRange

\* Each way an update can end is a success or a failure of the map's.
LEMMA MaskStepRefines ==
  ASSUME ExactCallers, FilesOK, CallOK, AskedFor, MaskStep
  PROVE  Map!Succeed \/ Map!Fail
<1> DEFINE M == MaskedSectors(req.begin, req.num)
           Room == Range0(0, FirstMissing)
           NewRoom == Range0(0, FirstMissing')
           ok == status' = "success" /\ pc' # "wild"
           N == Map!Named
           set == req.op = "set"
           others == {s \in Unsettled : \A r \in N : FileOf(s) # FileOf(r)}
<1>1. /\ pc = "mask" /\ pc' \in {"idle", "wild"} /\ req' = NoCall
      /\ FilesOK' /\ FirstMissing' \in Nat /\ FirstMissing <= FirstMissing' /\ FirstMissing \in Nat
  BY MaskEnds, MaskEffect, MaskFiles, SizesType
<1>2. req.op \in {"set", "clear"} /\ M \subseteq MaskWindow
  BY <1>1, UpdateRange, MaskedWithin
<1>3. /\ req.begin \in Reserved => N = {}
      /\ req.begin \notin Reserved => N = M
  BY <1>1, MapNamed
<1>4. /\ marks \subseteq Room /\ stored \subseteq Room /\ marks' \subseteq NewRoom
      /\ Room \subseteq NewRoom
  <2>1. FirstMissing' \in Nat /\ Range0(0, FirstMissing) \subseteq Range0(0, FirstMissing')
    <3>1. \A m \in Nat : \A n \in Nat : m <= n => Range0(0, m) \subseteq Range0(0, n)
      BY DEF Range0
    <3> QED
      BY <1>1, <3>1, Zenon
  <2>2. Readable' = Range0(0, FirstMissing') \ absent'
    BY DEF Readable, FirstMissing, RegionBits, SectorBits
  <2> QED
    BY <1>1, <2>1, <2>2 DEF FilesOK, Readable
<1>5. Map!Ending
  <2>1. req # NoCall
    BY <1>2 DEF NoCall
  <2>2. Map!Idle = NoCall
    BY DEF Map!Idle, NoCall
  <2> QED
    BY <1>1, <1>4, <2>1, <2>2, MapTerms DEF Map!Ending, Map!Idle, NoCall
<1>6. ASSUME ok, IF set THEN N \subseteq marks' ELSE N \cap marks' = {},
             (marks' \cap Room) \ N = marks \ N,
             Unsettled' \subseteq (N \cup others) \cup (NewRoom \ Room)
      PROVE  Map!Succeed
  <2>1. Map!OtherRegions(Map!Named) = others
    BY DEF Map!OtherRegions, Map!Region, FileOf, Unsettled
  <2> QED
    BY <1>1, <1>5, <1>6, <2>1, MapTerms DEF Map!Succeed, Unsettled
<1>7. ASSUME ~ok, IF set THEN marks \subseteq marks' ELSE marks' \cap Room \subseteq marks,
             (marks' \cap Room) \ N = marks \ N,
             Unsettled' \subseteq (Unsettled \cup N) \cup (NewRoom \ Room)
      PROVE  Map!Fail
  BY <1>1, <1>5, <1>7, MapTerms DEF Map!Fail, Unsettled
<1>8. \A bits : /\ set => Masked(bits) = bits \cup M
                /\ ~set => Masked(bits) = bits \ M
  BY DEF Masked
<1> HIDE DEF M, Room, NewRoom, N, set
<1>9. CASE Untouched
  <2>1. marks' = marks /\ Unsettled' \subseteq Unsettled
    BY <1>9, FlushSettles DEF Untouched
  <2>2. (marks' \cap Room) \ N = marks \ N
    BY <1>4, <2>1
  <2>3. CASE ok
    <3>1. N = {}
      BY <1>1, <1>3, <1>9, <2>3 DEF Untouched
    <3>2. Unsettled' \subseteq (N \cup others) \cup (NewRoom \ Room)
      BY <2>1, <3>1
    <3> QED
      BY <1>6, <2>2, <2>3, <3>1, <3>2
  <2>4. CASE ~ok
    BY <1>4, <1>7, <2>1, <2>2, <2>4
  <2> QED
    BY <2>3, <2>4
<1>10. CASE Updated
  <2>1. N = M /\ stored' = Flushed(MaskWindow) /\ pc' = "idle"
    BY <1>3, <1>10 DEF Updated
  <2>2. CASE status' = "success" /\ marks' = Masked(marks)
    <3>1. marks \ N \subseteq marks' /\ marks' \subseteq marks \cup N
      BY <1>8, <2>1, <2>2
    <3>2. Unsettled' \subseteq N \cup others
      BY <1>2, <2>1, <3>1, UpdateSettles
    <3>3. (marks' \cap Room) \ N = marks \ N
      BY <1>4, <3>1
    <3>4. IF set THEN N \subseteq marks' ELSE N \cap marks' = {}
      BY <1>8, <2>1, <2>2
    <3> QED
      BY <1>6, <2>1, <2>2, <3>2, <3>3, <3>4
  <2>3. CASE /\ status' = "drive_rw"
             /\ \E cut \in MaskWindow :
                  marks' = {s \in Masked(marks) : s < cut} \cup {s \in marks : s >= cut}
    <3>1. PICK cut \in MaskWindow :
            marks' = {s \in Masked(marks) : s < cut} \cup {s \in marks : s >= cut}
      BY <2>3
    <3>2. \A s \in marks : s < cut \/ s >= cut
      BY <1>4 DEF Room, MaskWindow, Window, Range0
    <3>3. /\ set => marks \subseteq marks'
          /\ ~set => marks' \subseteq marks
          /\ marks \ N \subseteq marks' /\ marks' \subseteq marks \cup N
      BY <1>8, <2>1, <3>1, <3>2
    <3>4. Unsettled' \subseteq N \cup others
      BY <1>2, <2>1, <3>3, UpdateSettles
    <3>5. (marks' \cap Room) \ N = marks \ N
      BY <1>4, <3>3
    <3> QED
      BY <1>7, <2>3, <3>3, <3>4, <3>5
  <2> QED
    BY <1>10, <2>2, <2>3 DEF Updated
<1>11. CASE Grown
  <2>1. /\ MaskWindow \cap Room = {} /\ N = M
    BY <1>3, <1>11, GrowthFacts DEF Grown, Room
  <2>2. marks \subseteq marks' /\ marks' \subseteq marks \cup MaskWindow /\ stored' = stored
    BY <1>11, GrownBits DEF Grown
  <2>3. (marks' \cap Room) \ N = marks \ N /\ marks' \cap Room \subseteq marks
    BY <1>2, <1>4, <2>1, <2>2
  <2>4. Unsettled' \subseteq Unsettled \cup (NewRoom \ Room)
    BY <1>4, <2>1, <2>2 DEF Unsettled
  <2>5. Unsettled \subseteq others
    <3>1. ASSUME NEW s \in Unsettled, NEW r \in N
          PROVE  FileOf(s) # FileOf(r)
      <4>1. s \in Nat /\ s < FirstMissing
        BY <1>1, <1>4, <3>1 DEF Unsettled, Room, Range0
      <4>2. r \in Nat /\ r >= FirstMissing
        <5>1. r \in MaskWindow /\ r \notin Room
          BY <1>2, <2>1, <3>1
        <5>2. r \in Nat
          BY <5>1, WindowStart DEF MaskWindow, Window, Range0, CallOK
        <5> QED
          BY <1>1, <5>1, <5>2 DEF Room, Range0
      <4> QED
        BY <4>1, <4>2, RegionsApart
    <3> QED
      BY <3>1
  <2>6. CASE ok
    <3>1. PICK new : marks' = marks \cup Masked(new \cap MaskWindow)
      BY <1>11, <2>6 DEF Grown
    <3>2. IF set THEN N \subseteq marks' ELSE N \cap marks' = {}
      BY <1>2, <1>4, <1>8, <2>1, <3>1
    <3> QED
      BY <1>6, <2>3, <2>4, <2>5, <2>6, <3>2
  <2>7. CASE ~ok
    BY <1>7, <2>2, <2>3, <2>4, <2>7
  <2> QED
    BY <2>6, <2>7
<1> QED
  BY <1>9, <1>10, <1>11, MaskEffect

\* The promise of the bitmap, of any volume and however reads, writes, growths and
\* creations of files fail: an update that succeeds has changed the bits of exactly its
\* range, one that fails those of no other sector, and a crash loses no more than the
\* latest update in each meta file (fs_bitmap.h:56-66, fs_disk.h:219-262).
THEOREM BitmapImplementsMap ==
  ASSUME ExactCallers
  PROVE  BitmapSpec => MapSpec
<1>1. BitmapInit => Map!Init
  <2>1. RegionBits \in Nat
    BY RegionBitsType
  <2> QED
    BY <2>1 DEF BitmapInit, Map!Init, Map!Idle, NoCall, FirstMissing
<1>2. TypeOK /\ AskedFor /\ AskedFor' /\ [BitmapNext]_vars => [Map!Next]_(Map!mapVars)
  <2> SUFFICES ASSUME FilesOK, CallOK, AskedFor, AskedFor', TypeOK, [BitmapNext]_vars
               PROVE  [Map!Next]_(Map!mapVars)
    BY TypeParts
  <2>1. NoCall = Map!Idle
    BY DEF NoCall, Map!Idle
  <2>2. ASSUME Quiet, pc # "mask", pc' = "mask" => req' \in Updates
        PROVE  Map!Other
    <3>1. FirstMissing' = FirstMissing /\ marks' = marks
      BY <2>2, QuietFiles DEF Quiet
    <3>2. Unsettled' \subseteq Unsettled
      BY <2>2, FlushSettles DEF Quiet
    <3>3. (IF pc = "mask" THEN req ELSE NoCall) = NoCall
      BY <2>2
    <3>4. (IF pc' = "mask" THEN req' ELSE NoCall) \in Updates \cup {NoCall}
      BY <2>2
    <3> QED
      BY <2>1, <3>1, <3>2, <3>3, <3>4 DEF Map!Other, Map!Idle, NoCall, Unsettled, Updates
  <2>3. CASE BitmapCall
    BY <2>2, <2>3, BitmapCallEffect DEF Map!Next
  <2>4. CASE MaskStep
    BY <2>4, ExactCallers, MaskStepRefines DEF Map!Next
  <2>5. CASE SearchStep
    BY <2>2, <2>5, SearchEffect DEF Map!Next
  <2>6. CASE Crash
    <3>1. /\ marks' \subseteq marks \cup stored /\ marks \cap stored \subseteq marks'
          /\ stored' = marks' /\ pc' = "idle" /\ FirstMissing' \in Nat
          /\ FirstMissing \in Nat /\ FirstMissing <= FirstMissing'
          /\ FirstMissing' # FirstMissing => pc = "mask"
      BY <2>6, CrashEffect, SizesType
    <3>2. pc = "mask" => req # NoCall
      BY DEF CallOK, NoCall
    <3>3. marks' \ Unsettled = marks \ Unsettled /\ Unsettled' = {}
      BY <3>1 DEF Unsettled
    <3>4. (IF pc' = "mask" THEN req' ELSE NoCall) = NoCall
      BY <3>1
    <3>5. FirstMissing' # FirstMissing => (IF pc = "mask" THEN req ELSE NoCall) # NoCall
      BY <3>1, <3>2
    <3>6. FirstMissing' >= FirstMissing
      BY <3>1
    <3>7. Map!Crash
      BY <2>1, <3>3, <3>4, <3>5, <3>6, Zenon DEF Map!Crash, Unsettled, NoCall
    <3> QED
      BY <3>7 DEF Map!Next
  <2>7. CASE UNCHANGED vars
    <3>1. UNCHANGED <<marks, stored, files, pc, req, status>>
      BY <2>7 DEF vars, metafiles
    <3>2. FirstMissing' = FirstMissing
      BY <3>1 DEF FirstMissing, RegionBits, SectorBits
    <3> QED
      BY <3>1, <3>2 DEF Map!mapVars
  <2> QED
    BY <2>3, <2>4, <2>5, <2>6, <2>7 DEF BitmapNext, BitmapStep
<1> QED
  BY <1>1, <1>2, BitmapTypeOK, UpdatesAskedFor, PTL DEF BitmapSpec, MapSpec, Map!Spec
=============================================================================
