---------------------------- MODULE Sha256_proofs ----------------------------
(***************************************************************************)
(* What holds of fs_sha256.h for blocks of any size, pieces of any size and*)
(* any number of messages: no write leaves the buffer, and what is         *)
(* compressed is the message, padded.                                      *)
(***************************************************************************)
EXTENDS Sha256, NatFacts, SequenceTheorems

Byte == Int \X Int

\* A state of the hash whose blocks are whole, and as many as were filled.
WellFormed(h) ==
  /\ h.bytes \in Nat /\ h.buf \in Seq(Byte) /\ Len(h.buf) = BlockBytes
  /\ h.s \in Seq(Seq(Byte)) /\ Len(h.s) = h.bytes \div BlockBytes
  /\ \A b \in 1 .. Len(h.s) : Len(h.s[b]) = BlockBytes

LEMMA BlockSize == BlockBytes \in Nat \ {0} /\ LengthBytes \in Nat \ {0} /\ LengthBytes < BlockBytes
BY Sha256Assumption

\* Where a byte is: the place p of the block b, counted from 0.
LEMMA PlaceOf ==
  ASSUME NEW i \in Nat \ {0}
  PROVE  \E b \in Nat, p \in 1 .. BlockBytes : i = BlockBytes * b + p
<1> DEFINE q == (i - 1) \div BlockBytes
           r == ((i - 1) % BlockBytes)
<1>1. q \in Nat /\ r \in 0 .. BlockBytes - 1 /\ i - 1 = BlockBytes * q + r
  <2>1. i - 1 \in Nat
    OBVIOUS
  <2> QED
    BY ONLY <2>1, BlockSize, NatDivision
<1> HIDE DEF q, r
<1>2. BlockBytes * q \in Nat
  BY <1>1, BlockSize
<1>3. r + 1 \in 1 .. BlockBytes /\ i = BlockBytes * q + (r + 1)
  BY <1>1, <1>2, BlockSize
<1> QED
  BY <1>1, <1>3

LEMMA PlaceIs ==
  ASSUME NEW b \in Nat, NEW p \in 1 .. BlockBytes
  PROVE  /\ (BlockBytes * b + p - 1) \div BlockBytes = b
         /\ ((BlockBytes * b + p - 1) % BlockBytes) = p - 1
<1> DEFINE a == BlockBytes * b + p - 1
           q == a \div BlockBytes
           r == (a % BlockBytes)
<1>1. BlockBytes * b \in Nat /\ a \in Nat
  <2>1. BlockBytes * b \in Nat
    BY BlockSize
  <2> QED
    BY <2>1, BlockSize
<1>2. q \in Nat /\ r \in 0 .. BlockBytes - 1 /\ a = BlockBytes * q + r
  BY <1>1, BlockSize, NatDivision
<1>3. p - 1 \in 0 .. BlockBytes - 1 /\ a = BlockBytes * b + (p - 1)
  BY <1>1, BlockSize
<1> HIDE DEF a, q, r
<1>4. BlockBytes * q + r = BlockBytes * b + (p - 1)
  BY <1>2, <1>3
<1>5. q = b /\ r = p - 1
  BY <1>2, <1>3, <1>4, BlockSize, UniqueDivision
<1> QED
  BY <1>5 DEF q, r, a

\* The same of a sum without the 1, as the counter has it.
LEMMA RemainderIs ==
  ASSUME NEW b \in Nat, NEW r \in 0 .. BlockBytes - 1
  PROVE  /\ (BlockBytes * b + r) \div BlockBytes = b
         /\ ((BlockBytes * b + r) % BlockBytes) = r
<1> DEFINE p == r + 1
<1>1. p \in 1 .. BlockBytes /\ BlockBytes * b + p - 1 = BlockBytes * b + r /\ p - 1 = r
  <2>1. BlockBytes * b \in Nat
    BY BlockSize
  <2> QED
    BY <2>1, BlockSize
<1> HIDE DEF p
<1>2. /\ (BlockBytes * b + p - 1) \div BlockBytes = b
      /\ ((BlockBytes * b + p - 1) % BlockBytes) = p - 1
  BY <1>1, PlaceIs
<1> QED
  BY <1>1, <1>2

\* An earlier block ends before a later one begins.
LEMMA BlocksApart ==
  ASSUME NEW b \in Int, NEW c \in Int, b < c
  PROVE  BlockBytes * b + BlockBytes <= BlockBytes * c
<1>1. PICK d \in Nat : c = b + 1 + d
  <2>1. c - b - 1 \in Nat /\ c = b + 1 + (c - b - 1)
    OBVIOUS
  <2> QED
    BY <2>1
<1>2. BlockBytes * c = BlockBytes * b + BlockBytes + BlockBytes * d /\ BlockBytes * d \in Nat
        /\ BlockBytes * b \in Int
  BY <1>1, BlockSize
<1> QED
  BY <1>2, BlockSize

\* A byte of the content by its place.
LEMMA ContentAt ==
  ASSUME NEW h, NEW b \in Nat, NEW p \in 1 .. BlockBytes, WellFormed(h),
         BlockBytes * b + p <= h.bytes
  PROVE  Content(h)[BlockBytes * b + p] = IF b < Len(h.s) THEN h.s[b + 1][p] ELSE h.buf[p]
<1> DEFINE i == BlockBytes * b + p
           c == ((i - 1) \div BlockBytes) + 1
           r == ((i - 1) % BlockBytes) + 1
<1>1. BlockBytes * b \in Nat
  BY BlockSize
<1>2. i \in 1 .. h.bytes
  BY <1>1 DEF WellFormed
<1>3. c = b + 1 /\ r = p
  <2>1. /\ (BlockBytes * b + p - 1) \div BlockBytes = b
        /\ ((BlockBytes * b + p - 1) % BlockBytes) = p - 1
    BY PlaceIs
  <2> QED
    BY <2>1, BlockSize
<1>4. Content(h)[i] = IF c <= Len(h.s) THEN h.s[c][r] ELSE h.buf[r]
  BY <1>2 DEF Content
<1>5. Len(h.s) \in Nat
  BY LenProperties DEF WellFormed
<1> HIDE DEF i, c, r
<1> QED
  BY <1>3, <1>4, <1>5 DEF i

\* The content is a sequence of as many bytes as were counted.
LEMMA ContentIsSeq ==
  ASSUME NEW h, WellFormed(h)
  PROVE  Content(h) \in Seq(Byte) /\ Len(Content(h)) = h.bytes
<1>1. h.bytes \in Nat
  BY DEF WellFormed
<1>2. ASSUME NEW i \in 1 .. h.bytes
      PROVE  Content(h)[i] \in Byte
  <2>1. PICK b \in Nat, p \in 1 .. BlockBytes : i = BlockBytes * b + p
    BY <1>1, PlaceOf
  <2>2. Content(h)[i] = IF b < Len(h.s) THEN h.s[b + 1][p] ELSE h.buf[p]
    BY <1>1, <2>1, ContentAt
  <2>3. Len(h.s) \in Nat /\ p \in 1 .. Len(h.buf) /\ h.buf \in Seq(Byte) /\ h.s \in Seq(Seq(Byte))
    BY LenProperties DEF WellFormed
  <2>4. h.buf[p] \in Byte
    BY <2>3, ElementOfSeq
  <2>5. CASE b < Len(h.s)
    <3>1. b + 1 \in 1 .. Len(h.s)
      BY <2>3, <2>5
    <3>2. h.s[b + 1] \in Seq(Byte) /\ Len(h.s[b + 1]) = BlockBytes
      BY <2>3, <3>1, ElementOfSeq DEF WellFormed
    <3>3. h.s[b + 1][p] \in Byte
      BY <3>2, ElementOfSeq
    <3> QED
      BY <2>2, <2>5, <3>3
  <2> QED
    BY <2>2, <2>4, <2>5
<1>3. Content(h) = [i \in 1 .. h.bytes |-> Content(h)[i]]
  BY DEF Content
<1>4. Content(h) \in [1 .. h.bytes -> Byte]
  BY <1>2, <1>3
<1> QED
  BY <1>1, <1>4
-----------------------------------------------------------------------------
\* A memcpy that fits changes the bytes it names and no length.
LEMMA CopiedFits ==
  ASSUME NEW to \in Seq(Byte), NEW at \in Nat, NEW data \in Seq(Byte), at + Len(data) <= Len(to)
  PROVE  /\ Copied(to, at, data) \in Seq(Byte) /\ Len(Copied(to, at, data)) = Len(to)
         /\ \A i \in 1 .. Len(to) : Copied(to, at, data)[i] =
              IF at < i /\ i <= at + Len(data) THEN data[i - at] ELSE to[i]
<1> DEFINE f == Copied(to, at, data)
<1>1. Len(to) \in Nat /\ Len(data) \in Nat
  BY LenProperties
<1>2. f = [i \in 1 .. Len(to) |-> IF i \in at + 1 .. at + Len(data) THEN data[i - at] ELSE to[i]]
  BY <1>1 DEF Copied
<1>3. \A i \in 1 .. Len(to) : f[i] = IF at < i /\ i <= at + Len(data) THEN data[i - at] ELSE to[i]
  BY <1>1, <1>2
<1>4. ASSUME NEW i \in 1 .. Len(to)
      PROVE  f[i] \in Byte
  <2>1. CASE at < i /\ i <= at + Len(data)
    <3>1. i - at \in 1 .. Len(data)
      BY <1>1, <2>1
    <3> QED
      BY <1>3, <2>1, <3>1, ElementOfSeq
  <2>2. CASE ~(at < i /\ i <= at + Len(data))
    BY <1>3, <2>2, ElementOfSeq
  <2> QED
    BY <2>1, <2>2
<1>5. f \in [1 .. Len(to) -> Byte]
  <2>1. f = [i \in 1 .. Len(to) |-> f[i]]
    BY <1>2
  <2> HIDE DEF f
  <2> QED
    BY <1>4, <2>1
<1> HIDE DEF f
<1>6. f \in Seq(Byte) /\ Len(f) = Len(to)
  BY <1>1, <1>5
<1> QED
  BY <1>3, <1>6 DEF f

\* What is left of the data behind the first n bytes.
LEMMA Skipped ==
  ASSUME NEW data \in Seq(Byte), NEW n \in 0 .. Len(data)
  PROVE  /\ Skip(data, n) \in Seq(Byte) /\ Len(Skip(data, n)) = Len(data) - n
         /\ \A i \in 1 .. Len(data) - n : Skip(data, n)[i] = data[n + i]
<1>1. Len(data) \in Nat
  BY LenProperties
<1>2. \A i \in n + 1 .. Len(data) : data[i] \in Byte
  BY <1>1, ElementOfSeq
<1>3. /\ SubSeq(data, n + 1, Len(data)) \in Seq(Byte)
      /\ Len(SubSeq(data, n + 1, Len(data))) = IF n + 1 <= Len(data) THEN Len(data) - (n + 1) + 1 ELSE 0
      /\ \A i \in 1 .. Len(data) - (n + 1) + 1 :
           SubSeq(data, n + 1, Len(data))[i] = data[n + 1 + i - 1]
  BY <1>1, <1>2, SubSeqProperties
<1>4. \A i \in 1 .. Len(data) - n : n + 1 + i - 1 = n + i
  BY <1>1
<1> QED
  BY <1>1, <1>3, <1>4 DEF Skip

\* A part of the data of a given length.
LEMMA PartOf ==
  ASSUME NEW data \in Seq(Byte), NEW t \in Nat, NEW k \in Nat, t + k <= Len(data)
  PROVE  /\ SubSeq(data, t + 1, t + k) \in Seq(Byte) /\ Len(SubSeq(data, t + 1, t + k)) = k
         /\ \A i \in 1 .. k : SubSeq(data, t + 1, t + k)[i] = data[t + i]
<1> DEFINE m == t + 1
           n == t + k
<1>1. Len(data) \in Nat
  BY LenProperties
<1>2. \A i \in m .. n : data[i] \in Byte
  BY <1>1, ElementOfSeq
<1>3. m \in Int /\ n \in Int /\ n - m + 1 = k /\ \A i \in 1 .. k : m + i - 1 = t + i
  OBVIOUS
<1>4. m <= n <=> k > 0
  OBVIOUS
<1> HIDE DEF m, n
<1>5. /\ SubSeq(data, m, n) \in Seq(Byte)
      /\ Len(SubSeq(data, m, n)) = IF m <= n THEN n - m + 1 ELSE 0
      /\ \A i \in 1 .. n - m + 1 : SubSeq(data, m, n)[i] = data[m + i - 1]
  BY <1>2, <1>3, SubSeqProperties
<1>6. /\ SubSeq(data, m, n) \in Seq(Byte) /\ Len(SubSeq(data, m, n)) = k
      /\ \A i \in 1 .. k : SubSeq(data, m, n)[i] = data[t + i]
  BY <1>3, <1>4, <1>5
<1> QED
  BY <1>6 DEF m, n

\* The blocks that are compressed straight from the data.
LEMMA Transformed ==
  ASSUME NEW state \in Seq(Seq(Byte)), NEW data \in Seq(Byte), NEW k \in Nat,
         BlockBytes * k <= Len(data)
  PROVE  /\ Transform(state, data, k) \in Seq(Seq(Byte))
         /\ Len(Transform(state, data, k)) = Len(state) + k
         /\ \A c \in 1 .. Len(state) : Transform(state, data, k)[c] = state[c]
         /\ \A b \in 0 .. k - 1 :
              /\ Len(Transform(state, data, k)[Len(state) + b + 1]) = BlockBytes
              /\ \A p \in 1 .. BlockBytes :
                   Transform(state, data, k)[Len(state) + b + 1][p] = data[BlockBytes * b + p]
<1> DEFINE Block(c) == SubSeq(data, (c - 1) * BlockBytes + 1, c * BlockBytes)
           blocks == [c \in 1 .. k |-> Block(c)]
           n == Len(data)
<1>1. n \in Nat /\ BlockBytes \in Nat \ {0} /\ Len(state) \in Nat
  BY LenProperties, BlockSize
<1>2. ASSUME NEW b \in 0 .. k - 1
      PROVE  /\ Block(b + 1) \in Seq(Byte) /\ Len(Block(b + 1)) = BlockBytes
             /\ \A p \in 1 .. BlockBytes : Block(b + 1)[p] = data[BlockBytes * b + p]
  <2> DEFINE t == BlockBytes * b
  <2>1. t \in Nat /\ t + BlockBytes <= BlockBytes * k /\ b \in Nat
    <3>1. b \in Nat /\ b \in Int /\ k \in Int /\ b < k
      OBVIOUS
    <3> QED
      BY <1>1, <3>1, BlocksApart
  <2>2. ((b + 1) - 1) * BlockBytes + 1 = t + 1 /\ (b + 1) * BlockBytes = t + BlockBytes
    BY <1>1, <2>1
  <2> HIDE DEF t
  <2>3. Block(b + 1) = SubSeq(data, t + 1, t + BlockBytes)
    BY <2>2, Zenon
  <2> HIDE DEF Block
  <2>4. /\ SubSeq(data, t + 1, t + BlockBytes) \in Seq(Byte)
        /\ Len(SubSeq(data, t + 1, t + BlockBytes)) = BlockBytes
        /\ \A i \in 1 .. BlockBytes : SubSeq(data, t + 1, t + BlockBytes)[i] = data[t + i]
    <3>1. t + BlockBytes <= Len(data)
      BY <1>1, <2>1
    <3> QED
      BY <1>1, <2>1, <3>1, PartOf
  <2> QED
    BY <2>3, <2>4 DEF t
<1> HIDE DEF Block
<1>3. blocks \in Seq(Seq(Byte)) /\ Len(blocks) = k
  <2>1. \A c \in 1 .. k : Block(c) \in Seq(Byte)
    <3>1. ASSUME NEW c \in 1 .. k
          PROVE  Block(c) \in Seq(Byte)
      <4>1. c - 1 \in 0 .. k - 1 /\ c - 1 + 1 = c
        OBVIOUS
      <4> QED
        BY <1>2, <4>1
    <3> QED
      BY <3>1
  <2> QED
    BY <2>1
<1>4. \A b \in 0 .. k - 1 : b + 1 \in 1 .. k /\ blocks[b + 1] = Block(b + 1)
  OBVIOUS
<1>5. Transform(state, data, k) = state \o blocks
  BY DEF Transform, Block
<1> HIDE DEF blocks
<1>6. /\ state \o blocks \in Seq(Seq(Byte))
      /\ Len(state \o blocks) = Len(state) + k
      /\ \A i \in 1 .. Len(state) + k : (state \o blocks)[i] =
           IF i <= Len(state) THEN state[i] ELSE blocks[i - Len(state)]
  BY <1>3, ConcatProperties
<1>7. \A c \in 1 .. Len(state) : (state \o blocks)[c] = state[c]
  BY <1>1, <1>6
<1>8. \A b \in 0 .. k - 1 : (state \o blocks)[Len(state) + b + 1] = Block(b + 1)
  <2>1. ASSUME NEW b \in 0 .. k - 1
        PROVE  (state \o blocks)[Len(state) + b + 1] = Block(b + 1)
    <3>1. /\ Len(state) + b + 1 \in 1 .. Len(state) + k /\ ~(Len(state) + b + 1 <= Len(state))
          /\ Len(state) + b + 1 - Len(state) = b + 1
      BY <1>1
    <3> QED
      BY <1>4, <1>6, <3>1
  <2> QED
    BY <2>1
<1> QED
  BY <1>2, <1>5, <1>6, <1>7, <1>8

\* Data that need no block to be filled first: what has begun is at a block's end
\* or stays within a block.
LEMMA AbsorbedIsAppended ==
  ASSUME NEW h, WellFormed(h), NEW data \in Seq(Byte),
         (h.bytes % BlockBytes) = 0 \/ (h.bytes % BlockBytes) + Len(data) < BlockBytes
  PROVE  /\ WellFormed(Absorbed(h, data)) /\ Absorbed(h, data).bytes = h.bytes + Len(data)
         /\ Content(Absorbed(h, data)) = Content(h) \o data
<1> DEFINE B == BlockBytes
           n == Len(data)
           q == h.bytes \div B
           r == (h.bytes % B)
           k == n \div B
           t == (n % B)
           g == Absorbed(h, data)
           rest == Skip(data, k * B)
<1>1. B \in Nat \ {0} /\ n \in Nat /\ h.bytes \in Nat
  BY BlockSize, LenProperties DEF WellFormed
<1>2. q \in Nat /\ r \in 0 .. B - 1 /\ h.bytes = B * q + r
  BY <1>1, NatDivision
<1>3. k \in Nat /\ t \in 0 .. B - 1 /\ n = B * k + t
  BY <1>1, NatDivision
<1>4. /\ g.s = Transform(h.s, data, k) /\ g.buf = Copied(h.buf, r, rest)
      /\ g.bytes = h.bytes + n
  BY DEF Absorbed
<1>5. r = 0 \/ r + n < B
  OBVIOUS
<1>6. /\ h.s \in Seq(Seq(Byte)) /\ Len(h.s) = q /\ h.buf \in Seq(Byte) /\ Len(h.buf) = B
      /\ \A b \in 1 .. q : Len(h.s[b]) = B
  BY DEF WellFormed
<1> HIDE DEF g, q, r, k, t
<1>7. B * q \in Nat /\ B * k \in Nat /\ k * B = B * k
  BY <1>1, <1>2, <1>3
<1>8. r = 0 \/ k = 0
  <2>1. ASSUME r + n < B, k # 0 PROVE FALSE
    <3>1. k \in Int /\ 0 \in Int /\ 0 < k
      BY <1>3, <2>1
    <3>2. B * 0 + B <= B * k
      BY <3>1, BlocksApart
    <3> QED
      BY <1>1, <1>2, <1>3, <1>7, <2>1, <3>2
  <2> QED
    BY <1>5, <2>1
<1>9. r + t < B
  <2>1. k = 0 => t = n
    BY <1>1, <1>3
  <2> QED
    BY <1>1, <1>2, <1>3, <1>5, <1>8, <2>1
<1>10. rest \in Seq(Byte) /\ Len(rest) = t /\ \A i \in 1 .. t : rest[i] = data[B * k + i]
  <2>1. k * B \in 0 .. n /\ n - k * B = t
    BY <1>1, <1>3, <1>7
  <2> DEFINE m == k * B
  <2>2. m = B * k
    BY <1>7
  <2> HIDE DEF m
  <2>3. /\ Skip(data, m) \in Seq(Byte) /\ Len(Skip(data, m)) = n - m
        /\ \A i \in 1 .. n - m : Skip(data, m)[i] = data[m + i]
    BY <2>1, Skipped DEF m
  <2> QED
    BY <2>1, <2>2, <2>3 DEF m
<1> HIDE DEF rest
<1>11. /\ g.buf \in Seq(Byte) /\ Len(g.buf) = B
       /\ \A i \in 1 .. B : g.buf[i] = IF r < i /\ i <= r + t THEN rest[i - r] ELSE h.buf[i]
  <2>1. r + Len(rest) <= Len(h.buf) /\ r \in Nat
    BY <1>1, <1>2, <1>3, <1>6, <1>9, <1>10
  <2>2. /\ Copied(h.buf, r, rest) \in Seq(Byte) /\ Len(Copied(h.buf, r, rest)) = Len(h.buf)
        /\ \A i \in 1 .. Len(h.buf) : Copied(h.buf, r, rest)[i] =
             IF r < i /\ i <= r + Len(rest) THEN rest[i - r] ELSE h.buf[i]
    BY <1>6, <1>10, <2>1, CopiedFits
  <2> QED
    BY <1>4, <1>6, <1>10, <2>2
<1>12. /\ g.s \in Seq(Seq(Byte)) /\ Len(g.s) = q + k
       /\ \A c \in 1 .. q : g.s[c] = h.s[c]
       /\ \A b \in 0 .. k - 1 : /\ Len(g.s[q + b + 1]) = B
                                /\ \A p \in 1 .. B : g.s[q + b + 1][p] = data[B * b + p]
  <2>1. B * k <= Len(data)
    BY <1>1, <1>3, <1>7
  <2> DEFINE w == Transform(h.s, data, k)
  <2>2. /\ w \in Seq(Seq(Byte)) /\ Len(w) = Len(h.s) + k
        /\ \A c \in 1 .. Len(h.s) : w[c] = h.s[c]
        /\ \A b \in 0 .. k - 1 :
             /\ Len(w[Len(h.s) + b + 1]) = B
             /\ \A p \in 1 .. B : w[Len(h.s) + b + 1][p] = data[B * b + p]
    BY <1>3, <1>6, <2>1, Transformed
  <2>3. g.s = w
    BY <1>4
  <2> HIDE DEF w
  <2> QED
    BY <1>6, <2>2, <2>3
<1>13. g.bytes \in Nat /\ g.bytes \div B = q + k
  <2>1. q + k \in Nat /\ r + t \in 0 .. B - 1
    BY <1>1, <1>2, <1>3, <1>9
  <2>2. B * (q + k) = B * q + B * k
    BY <1>1, <1>2, <1>3
  <2>3. g.bytes = B * (q + k) + (r + t)
    BY <1>1, <1>2, <1>3, <1>4, <1>7, <2>2
  <2>4. (B * (q + k) + (r + t)) \div B = q + k
    BY <2>1, RemainderIs
  <2> QED
    BY <1>1, <1>4, <2>3, <2>4
<1>14. WellFormed(g)
  <2>1. \A b \in 1 .. q + k : Len(g.s[b]) = B
    <3>1. ASSUME NEW b \in 1 .. q + k
          PROVE  Len(g.s[b]) = B
      <4>1. CASE b <= q
        <5>1. b \in 1 .. q
          BY <1>2, <4>1
        <5>2. g.s[b] = h.s[b] /\ Len(h.s[b]) = B
          BY ONLY <1>6, <1>12, <5>1, Zenon
        <5> QED
          BY ONLY <5>2, Zenon
      <4>2. CASE ~(b <= q)
        <5> DEFINE e == (b - q) - 1
        <5>1. e \in 0 .. k - 1 /\ q + e + 1 = b
          BY <1>2, <1>3, <4>2
        <5>2. Len(g.s[q + e + 1]) = B
          BY <1>12, <5>1
        <5> QED
          BY <5>1, <5>2
      <4> QED
        BY <4>1, <4>2
    <3> QED
      BY <3>1
  <2> QED
    BY <1>11, <1>12, <1>13, <2>1 DEF WellFormed
<1>15. /\ Content(h) \in Seq(Byte) /\ Len(Content(h)) = h.bytes
       /\ Content(g) \in Seq(Byte) /\ Len(Content(g)) = h.bytes + n
  BY <1>4, <1>14, ContentIsSeq
<1>16. /\ Content(h) \o data \in Seq(Byte) /\ Len(Content(h) \o data) = h.bytes + n
       /\ \A i \in 1 .. h.bytes + n : (Content(h) \o data)[i] =
            IF i <= h.bytes THEN Content(h)[i] ELSE data[i - h.bytes]
  BY <1>15, ConcatProperties
<1>17. ASSUME NEW i \in 1 .. h.bytes + n
       PROVE  Content(g)[i] = IF i <= h.bytes THEN Content(h)[i] ELSE data[i - h.bytes]
  <2>1. PICK b \in Nat, p \in 1 .. B : i = B * b + p
    <3>1. i \in Nat \ {0}
      BY <1>1
    <3> QED
      BY <3>1, PlaceOf
  <2>2. B * b \in Nat
    BY <1>1, <2>1
  <2>3. Content(g)[i] = IF b < q + k THEN g.s[b + 1][p] ELSE g.buf[p]
    <3>1. B * b + p <= g.bytes
      BY <1>4, <2>1
    <3>2. Content(g)[B * b + p] = IF b < Len(g.s) THEN g.s[b + 1][p] ELSE g.buf[p]
      BY <1>14, <2>1, <3>1, ContentAt
    <3> QED
      BY <1>12, <2>1, <3>2
  <2>4. q < b => B * q + B <= B * b
    BY <1>2, <2>1, BlocksApart
  <2>5. b < q => B * b + B <= B * q
    BY <1>2, <2>1, BlocksApart
  <2>6. CASE i <= h.bytes
    <3>1. Content(h)[i] = IF b < q THEN h.s[b + 1][p] ELSE h.buf[p]
      BY <1>6, <2>1, <2>6, ContentAt
    <3>2. b <= q /\ (b = q => p <= r)
      BY <1>1, <1>2, <1>7, <2>1, <2>2, <2>4, <2>6
    <3>3. CASE b < q
      <4>1. b + 1 \in 1 .. q /\ b < q + k
        BY <1>2, <1>3, <2>1, <3>3
      <4> QED
        BY <1>12, <2>3, <2>6, <3>1, <3>3, <4>1
    <3>4. CASE b = q
      <4>1. k = 0 /\ p <= r
        BY <1>2, <1>8, <2>1, <3>2, <3>4
      <4>2. ~(b < q + k) /\ ~(b < q)
        BY <1>2, <3>4, <4>1
      <4>3. g.buf[p] = h.buf[p]
        BY <1>2, <1>11, <2>1, <4>1
      <4> QED
        BY <2>3, <2>6, <3>1, <4>2, <4>3
    <3> QED
      BY <1>2, <2>1, <3>2, <3>3, <3>4
  <2>7. CASE ~(i <= h.bytes)
    <3>1. b >= q
      BY <1>1, <1>2, <1>7, <2>1, <2>2, <2>5, <2>7
    <3> DEFINE d == b - q
    <3>2. d \in Nat /\ b = q + d
      BY <1>2, <2>1, <3>1
    <3> HIDE DEF d
    <3>3. B * b = B * q + B * d /\ B * d \in Nat
      BY <1>1, <1>2, <3>2
    <3>4. k < d => B * k + B <= B * d
      BY <1>3, <3>2, BlocksApart
    <3>5. B * d + p <= r + (B * k + t)
      BY <1>1, <1>2, <1>3, <1>7, <2>1, <3>3
    <3>6. d <= k
      BY <1>1, <1>2, <1>3, <1>7, <1>9, <2>1, <3>2, <3>3, <3>4, <3>5
    <3>7. CASE d < k
      <4>1. r = 0 /\ i - h.bytes = B * d + p
        BY <1>2, <1>3, <1>7, <1>8, <2>1, <3>2, <3>3, <3>7
      <4>2. d \in 0 .. k - 1 /\ b + 1 = q + d + 1 /\ b < q + k
        BY <1>2, <1>3, <3>2, <3>7
      <4>3. g.s[b + 1][p] = data[B * d + p]
        BY <1>12, <2>1, <4>2
      <4> QED
        BY <2>3, <2>7, <4>1, <4>2, <4>3
    <3>8. CASE d = k
      <4>1. ~(b < q + k)
        BY <1>2, <1>3, <3>2, <3>8
      <4>2. r < p
        <5>1. CASE r = 0
          BY <2>1, <5>1, <1>1
        <5>2. CASE k = 0
          <6>1. B * d = 0
            BY <1>1, <3>8, <5>2
          <6> QED
            BY <1>1, <1>2, <1>7, <2>1, <2>7, <3>3, <6>1
        <5> QED
          BY <1>8, <5>1, <5>2
      <4>3. p <= r + t
        BY <1>1, <1>2, <1>3, <1>7, <2>1, <3>3, <3>5, <3>8
      <4>4. p - r \in 1 .. t
        BY <1>1, <1>2, <1>3, <2>1, <4>2, <4>3
      <4>5. g.buf[p] = data[B * k + (p - r)]
        BY <1>10, <1>11, <2>1, <4>2, <4>3, <4>4
      <4>6. i - h.bytes = B * k + (p - r)
        BY <1>1, <1>2, <1>3, <1>7, <2>1, <3>3, <3>8
      <4> QED
        BY <2>3, <2>7, <4>1, <4>5, <4>6
    <3> QED
      BY <1>3, <3>2, <3>6, <3>7, <3>8
  <2> QED
    BY <2>6, <2>7
<1>18. Content(g) = Content(h) \o data
  <2> DEFINE x == Content(g)
             y == Content(h) \o data
  <2>1. x \in Seq(Byte) /\ y \in Seq(Byte) /\ Len(x) = Len(y)
    BY <1>15, <1>16
  <2>2. \A i \in 1 .. Len(x) : x[i] = y[i]
    BY <1>15, <1>16, <1>17
  <2> HIDE DEF x, y
  <2>3. x = y
    BY <2>1, <2>2, SeqEqual
  <2> QED
    BY <2>3 DEF x, y
<1> QED
  BY <1>4, <1>14, <1>18 DEF g
-----------------------------------------------------------------------------
\* The first part of the data fills the block that has begun.
LEMMA Filled ==
  ASSUME NEW h, WellFormed(h), NEW data \in Seq(Byte), NEW m \in Nat,
         (h.bytes % BlockBytes) # 0, m = BlockBytes - (h.bytes % BlockBytes), m <= Len(data),
         NEW filled, filled = Copied(h.buf, (h.bytes % BlockBytes), SubSeq(data, 1, m)),
         NEW g, g = [s |-> Transform(h.s, filled, 1), buf |-> filled, bytes |-> h.bytes + m]
  PROVE  /\ WellFormed(g) /\ (g.bytes % BlockBytes) = 0
         /\ SubSeq(data, 1, m) \in Seq(Byte) /\ Content(g) = Content(h) \o SubSeq(data, 1, m)
<1> DEFINE B == BlockBytes
           q == h.bytes \div B
           r == (h.bytes % B)
           part == SubSeq(data, 1, m)
<1>1. B \in Nat \ {0} /\ h.bytes \in Nat
  BY BlockSize DEF WellFormed
<1>2. q \in Nat /\ r \in 0 .. B - 1 /\ h.bytes = B * q + r
  BY <1>1, NatDivision
<1>3. /\ h.s \in Seq(Seq(Byte)) /\ Len(h.s) = q /\ h.buf \in Seq(Byte) /\ Len(h.buf) = B
      /\ \A b \in 1 .. q : Len(h.s[b]) = B
  BY DEF WellFormed
<1>4. part \in Seq(Byte) /\ Len(part) = m /\ \A i \in 1 .. m : part[i] = data[i]
  <2>1. 0 \in Nat /\ 0 + m <= Len(data) /\ 0 + 1 = 1 /\ 0 + m = m /\ \A i \in 1 .. m : 0 + i = i
    OBVIOUS
  <2>2. /\ SubSeq(data, 0 + 1, 0 + m) \in Seq(Byte) /\ Len(SubSeq(data, 0 + 1, 0 + m)) = m
        /\ \A i \in 1 .. m : SubSeq(data, 0 + 1, 0 + m)[i] = data[0 + i]
    BY <2>1, PartOf
  <2> QED
    BY <2>1, <2>2
<1>5. filled = Copied(h.buf, r, part) /\ m = B - r /\ r # 0
  OBVIOUS
<1>6. g.s = Transform(h.s, filled, 1) /\ g.buf = filled /\ g.bytes = h.bytes + m
  OBVIOUS
<1> HIDE DEF q, r, part
<1>7. /\ filled \in Seq(Byte) /\ Len(filled) = B
      /\ \A i \in 1 .. B : filled[i] = IF r < i THEN part[i - r] ELSE h.buf[i]
  <2>1. r + Len(part) <= Len(h.buf) /\ r \in Nat /\ r + m = B
    BY ONLY <1>1, <1>2, <1>3, <1>4, <1>5
  <2>2. /\ Copied(h.buf, r, part) \in Seq(Byte) /\ Len(Copied(h.buf, r, part)) = Len(h.buf)
        /\ \A i \in 1 .. Len(h.buf) : Copied(h.buf, r, part)[i] =
             IF r < i /\ i <= r + Len(part) THEN part[i - r] ELSE h.buf[i]
    BY <1>3, <1>4, <2>1, CopiedFits
  <2> QED
    <3>1. \A i \in 1 .. B : i <= r + Len(part)
      BY ONLY <1>1, <1>2, <1>4, <2>1
    <3> QED
      BY ONLY <1>3, <1>5, <2>2, <3>1
<1>8. /\ g.s \in Seq(Seq(Byte)) /\ Len(g.s) = q + 1
      /\ \A c \in 1 .. q : g.s[c] = h.s[c]
      /\ Len(g.s[q + 1]) = B /\ \A p \in 1 .. B : g.s[q + 1][p] = filled[p]
  <2>1. PICK k \in Nat : k = 1
    OBVIOUS
  <2> DEFINE w == Transform(h.s, filled, k)
  <2>0. B * k <= Len(filled)
    BY ONLY <1>1, <1>7, <2>1
  <2>2. /\ w \in Seq(Seq(Byte)) /\ Len(w) = Len(h.s) + k
        /\ \A c \in 1 .. Len(h.s) : w[c] = h.s[c]
        /\ \A b \in 0 .. k - 1 :
             /\ Len(w[Len(h.s) + b + 1]) = B
             /\ \A p \in 1 .. B : w[Len(h.s) + b + 1][p] = filled[B * b + p]
    BY ONLY <1>3, <1>7, <2>1, <2>0, Transformed
  <2>3. g.s = w
    BY <1>6, <2>1
  <2> HIDE DEF w
  <2>4. 0 \in 0 .. k - 1 /\ Len(h.s) + k = q + 1 /\ Len(h.s) + 0 + 1 = q + 1 /\ \A p \in 1 .. B : B * 0 + p = p
    BY ONLY <1>1, <1>2, <1>3, <2>1
  <2>5. /\ Len(w[Len(h.s) + 0 + 1]) = B
        /\ \A p \in 1 .. B : w[Len(h.s) + 0 + 1][p] = filled[B * 0 + p]
    BY <2>2, <2>4
  <2> QED
    BY <1>3, <2>2, <2>3, <2>4, <2>5
<1>9. g.bytes \in Nat /\ g.bytes \div B = q + 1 /\ (g.bytes % B) = 0
  <2>1. q + 1 \in Nat /\ 0 \in 0 .. B - 1
    BY <1>1, <1>2
  <2>2. B * (q + 1) = B * q + B /\ B * q \in Nat
    BY <1>1, <1>2
  <2>3. g.bytes = B * (q + 1) + 0
    BY <1>1, <1>2, <1>5, <1>6, <2>2
  <2>4. (B * (q + 1) + 0) \div B = q + 1 /\ ((B * (q + 1) + 0) % B) = 0
    BY <2>1, RemainderIs
  <2> QED
    BY <1>1, <1>2, <1>5, <1>6, <2>2, <2>3, <2>4
<1>10. WellFormed(g)
  <2>1. ASSUME NEW b \in 1 .. q + 1
        PROVE  Len(g.s[b]) = B
    <3>1. CASE b = q + 1
      BY <1>8, <3>1
    <3>2. CASE b # q + 1
      <4>1. b \in 1 .. q
        BY <1>2, <3>2
      <4>2. g.s[b] = h.s[b] /\ Len(h.s[b]) = B
        BY ONLY <1>3, <1>8, <4>1, Zenon
      <4> QED
        BY ONLY <4>2, Zenon
    <3> QED
      BY <3>1, <3>2
  <2> QED
    BY <1>6, <1>7, <1>8, <1>9, <2>1 DEF WellFormed
<1>11. /\ Content(h) \in Seq(Byte) /\ Len(Content(h)) = h.bytes
       /\ Content(g) \in Seq(Byte) /\ Len(Content(g)) = h.bytes + m
  BY <1>6, <1>10, ContentIsSeq
<1>12. /\ Content(h) \o part \in Seq(Byte) /\ Len(Content(h) \o part) = h.bytes + m
       /\ \A i \in 1 .. h.bytes + m : (Content(h) \o part)[i] =
            IF i <= h.bytes THEN Content(h)[i] ELSE part[i - h.bytes]
  <2> DEFINE x == Content(h)
  <2>1. x \in Seq(Byte) /\ part \in Seq(Byte) /\ Len(x) = h.bytes /\ Len(part) = m
    BY <1>4, <1>11
  <2> HIDE DEF x
  <2>2. /\ x \o part \in Seq(Byte) /\ Len(x \o part) = Len(x) + Len(part)
        /\ \A i \in 1 .. Len(x) + Len(part) : (x \o part)[i] =
             IF i <= Len(x) THEN x[i] ELSE part[i - Len(x)]
    BY ONLY <2>1, ConcatProperties
  <2> QED
    BY ONLY <2>1, <2>2 DEF x
<1>13. ASSUME NEW i \in 1 .. h.bytes + m
       PROVE  Content(g)[i] = IF i <= h.bytes THEN Content(h)[i] ELSE part[i - h.bytes]
  <2>1. PICK b \in Nat, p \in 1 .. B : i = B * b + p
    <3>1. i \in Nat \ {0}
      BY <1>1
    <3> QED
      BY <3>1, PlaceOf
  <2>2. B * b \in Nat /\ B * q \in Nat
    BY <1>1, <1>2, <2>1
  <2>3. Content(g)[i] = IF b < q + 1 THEN g.s[b + 1][p] ELSE g.buf[p]
    <3>1. B * b + p <= g.bytes
      BY <1>6, <2>1
    <3>2. Content(g)[B * b + p] = IF b < Len(g.s) THEN g.s[b + 1][p] ELSE g.buf[p]
      BY <1>10, <2>1, <3>1, ContentAt
    <3> QED
      BY <1>8, <2>1, <3>2
  <2>4. q < b => B * q + B <= B * b
    BY <1>2, <2>1, BlocksApart
  <2>5. b < q => B * b + B <= B * q
    BY <1>2, <2>1, BlocksApart
  <2>6. b <= q
    BY <1>1, <1>2, <1>5, <2>1, <2>2, <2>4
  <2>7. CASE b < q
    <3>1. i <= h.bytes
      BY <1>1, <1>2, <2>1, <2>2, <2>5, <2>7
    <3>2. Content(h)[i] = h.s[b + 1][p]
      <4>1. Content(h)[i] = IF b < q THEN h.s[b + 1][p] ELSE h.buf[p]
        BY <1>3, <2>1, <3>1, ContentAt
      <4> QED
        BY <2>7, <4>1
    <3>3. b + 1 \in 1 .. q /\ b < q + 1
      BY <1>2, <2>1, <2>7
    <3> QED
      BY <1>8, <2>3, <3>1, <3>2, <3>3
  <2>8. CASE b = q
    <3>1. Content(g)[i] = IF r < p THEN part[p - r] ELSE h.buf[p]
      <4>1. b < q + 1 /\ b + 1 = q + 1
        BY <1>2, <2>8
      <4> QED
        BY <1>7, <1>8, <2>1, <2>3, <4>1
    <3>2. CASE r < p
      <4>1. ~(i <= h.bytes) /\ i - h.bytes = p - r
        BY <1>1, <1>2, <2>1, <2>2, <2>8, <3>2
      <4> QED
        BY <3>1, <3>2, <4>1
    <3>3. CASE ~(r < p)
      <4>1. i <= h.bytes /\ ~(b < q)
        BY <1>1, <1>2, <2>1, <2>2, <2>8, <3>3
      <4>2. Content(h)[i] = IF b < q THEN h.s[b + 1][p] ELSE h.buf[p]
        BY <1>3, <2>1, <4>1, ContentAt
      <4> QED
        BY <3>1, <3>3, <4>1, <4>2
    <3> QED
      BY <3>2, <3>3
  <2> QED
    BY <1>2, <2>1, <2>6, <2>7, <2>8
<1>14. Content(g) = Content(h) \o part
  <2> DEFINE x == Content(g)
             y == Content(h) \o part
  <2>1. x \in Seq(Byte) /\ y \in Seq(Byte) /\ Len(x) = Len(y)
    BY <1>11, <1>12
  <2>2. \A i \in 1 .. Len(x) : x[i] = y[i]
    BY <1>11, <1>12, <1>13
  <2> HIDE DEF x, y
  <2>3. x = y
    BY <2>1, <2>2, SeqEqual
  <2> QED
    BY <2>3 DEF x, y
<1> QED
  BY <1>4, <1>9, <1>10, <1>14 DEF part

\* update appends the data to what went in, whatever had begun a block.
LEMMA UpdatedIsAppended ==
  ASSUME NEW h, WellFormed(h), NEW data \in Seq(Byte)
  PROVE  /\ WellFormed(Updated(h, data)) /\ Updated(h, data).bytes = h.bytes + Len(data)
         /\ Content(Updated(h, data)) = Content(h) \o data
<1>1. BlockBytes \in Nat \ {0} /\ h.bytes \in Nat /\ Len(data) \in Nat
  BY BlockSize, LenProperties DEF WellFormed
<1>2. (h.bytes % BlockBytes) \in 0 .. BlockBytes - 1
  BY <1>1, NatDivision
<1>3. CASE ~Fills(h, data)
  <2>1. (h.bytes % BlockBytes) = 0 \/ (h.bytes % BlockBytes) + Len(data) < BlockBytes
    BY <1>1, <1>2, <1>3 DEF Fills
  <2>2. Updated(h, data) = Absorbed(h, data)
    BY <1>3 DEF Updated
  <2> QED
    BY <2>1, <2>2, AbsorbedIsAppended
<1>4. CASE Fills(h, data)
  <2> DEFINE m == BlockBytes - (h.bytes % BlockBytes)
             filled == Copied(h.buf, (h.bytes % BlockBytes), SubSeq(data, 1, m))
             g == [s |-> Transform(h.s, filled, 1), buf |-> filled, bytes |-> h.bytes + m]
             part == SubSeq(data, 1, m)
             rest == Skip(data, m)
  <2>1. m \in Nat /\ m >= 1 /\ m <= Len(data) /\ (h.bytes % BlockBytes) # 0
    BY <1>1, <1>2, <1>4 DEF Fills
  <2>2. Updated(h, data) = Absorbed(g, rest)
    BY <1>4 DEF Updated
  <2>3. /\ WellFormed(g) /\ (g.bytes % BlockBytes) = 0
        /\ part \in Seq(Byte) /\ Content(g) = Content(h) \o part
    <3>1. m = BlockBytes - (h.bytes % BlockBytes)
      OBVIOUS
    <3>2. filled = Copied(h.buf, (h.bytes % BlockBytes), SubSeq(data, 1, m))
      OBVIOUS
    <3>3. g = [s |-> Transform(h.s, filled, 1), buf |-> filled, bytes |-> h.bytes + m]
      OBVIOUS
    <3> HIDE DEF m, filled, g
    <3> QED
      BY <2>1, <3>1, <3>2, <3>3, Filled
  <2>4. rest \in Seq(Byte) /\ Len(rest) = Len(data) - m
    <3> HIDE DEF m
    <3>1. m \in 0 .. Len(data)
      BY <1>1, <2>1
    <3> QED
      BY <3>1, Skipped
  <2>5. g.bytes = h.bytes + m
    OBVIOUS
  <2>6. part \o rest = data
    <3> HIDE DEF m
    <3>1. 1 \in 1 .. Len(data) + 1 /\ m \in 1 - 1 .. Len(data) /\ Len(data) \in m .. Len(data)
      BY <1>1, <2>1
    <3>2. SubSeq(data, 1, m) \o SubSeq(data, m + 1, Len(data)) = SubSeq(data, 1, Len(data))
      BY <3>1, ConcatAdjacentSubSeq
    <3>3. SubSeq(data, 1, Len(data)) = data
      BY SubSeqFull
    <3> QED
      BY <3>2, <3>3 DEF Skip
  <2> HIDE DEF m, filled, g, part, rest
  <2>7. /\ WellFormed(Absorbed(g, rest)) /\ Absorbed(g, rest).bytes = g.bytes + Len(rest)
        /\ Content(Absorbed(g, rest)) = Content(g) \o rest
    BY <2>3, <2>4, AbsorbedIsAppended
  <2>8. (Content(h) \o part) \o rest = Content(h) \o (part \o rest)
    <3>1. Content(h) \in Seq(Byte)
      BY ContentIsSeq
    <3> QED
      BY <2>3, <2>4, <3>1, ConcatAssociative
  <2>9. g.bytes + Len(rest) = h.bytes + Len(data)
    BY <1>1, <2>1, <2>4, <2>5
  <2> QED
    BY <2>2, <2>3, <2>6, <2>7, <2>8, <2>9
<1> QED
  BY <1>3, <1>4
-----------------------------------------------------------------------------
\* The quotients by 256 from which the bytes of a word are taken are numbers.
LEMMA Halves ==
  ASSUME NEW n \in Nat, NEW m \in Nat
  PROVE  \E f \in [0 .. m -> Nat] :
           f = [k \in 0 .. m |-> IF k = 0 THEN n ELSE f[k - 1] \div 256]
<1> DEFINE Fits(j, f) == f = [k \in 0 .. j |-> IF k = 0 THEN n ELSE f[k - 1] \div 256]
           T == {j \in Nat : ~ \E f \in [0 .. j -> Nat] : Fits(j, f)}
<1>1. ASSUME T # {} PROVE FALSE
  <2>1. PICK j \in T : \A i \in T : j <= i
    BY <1>1, LeastOf
  <2>2. CASE j = 0
    <3> DEFINE f == [k \in 0 .. 0 |-> n]
    <3>1. f \in [0 .. 0 -> Nat] /\ Fits(0, f)
      OBVIOUS
    <3> QED
      BY <2>1, <2>2, <3>1
  <2>3. CASE j # 0
    <3>1. j \in Nat /\ j - 1 \in Nat /\ j - 1 < j
      BY <2>1, <2>3
    <3>2. j - 1 \notin T
      <4>1. ~(j <= j - 1)
        BY <3>1
      <4> QED
        BY ONLY <2>1, <4>1, Zenon
    <3>3. PICK f \in [0 .. j - 1 -> Nat] : Fits(j - 1, f)
      BY <3>1, <3>2
    <3> DEFINE g == [k \in 0 .. j |-> IF k < j THEN f[k] ELSE f[j - 1] \div 256]
    <3>4. f[j - 1] \div 256 \in Nat
      <4>1. f[j - 1] \in Nat /\ 256 \in Nat \ {0}
        BY <3>1
      <4> QED
        BY ONLY <4>1, NatDivision
    <3>5. g \in [0 .. j -> Nat]
      BY <3>1, <3>4
    <3>6. ASSUME NEW k \in 0 .. j
          PROVE  g[k] = IF k = 0 THEN n ELSE g[k - 1] \div 256
      <4>1. CASE k < j
        <5>1. k \in 0 .. j - 1 /\ g[k] = f[k] /\ (k # 0 => g[k - 1] = f[k - 1])
          BY <3>1, <4>1
        <5>2. f[k] = IF k = 0 THEN n ELSE f[k - 1] \div 256
          BY <3>3, <5>1
        <5> QED
          BY <5>1, <5>2
      <4>2. CASE k = j
        <5>1. g[k] = f[j - 1] \div 256 /\ g[k - 1] = f[j - 1] /\ k # 0
          BY <2>3, <3>1, <4>2
        <5> QED
          BY <5>1
      <4> QED
        BY <3>1, <4>1, <4>2
    <3>7. Fits(j, g)
      <4>1. g = [k \in 0 .. j |-> g[k]]
        OBVIOUS
      <4> HIDE DEF g
      <4> QED
        BY <3>6, <4>1
    <3> HIDE DEF g, Fits
    <3> QED
      BY <2>1, <3>5, <3>7
  <2> QED
    BY <2>2, <2>3
<1>2. \E f \in [0 .. m -> Nat] : Fits(m, f)
  BY <1>1
<1> QED
  BY <1>2

\* The length is written highest byte first.
LEMMA LengthWritten ==
  ASSUME NEW n \in Nat
  PROVE  /\ WriteBE64(n) = Hash!BigEndian(n)
         /\ WriteBE64(n) \in Seq(Byte) /\ Len(WriteBE64(n)) = LengthBytes
<1> DEFINE L == LengthBytes
           rest[k \in 0 .. L] == IF k = 0 THEN n ELSE rest[k - 1] \div 256
<1>1. L \in Nat \ {0}
  BY BlockSize
<1>2. \A k \in 0 .. L : rest[k] \in Nat
  <2>1. PICK f \in [0 .. L -> Nat] : f = [k \in 0 .. L |-> IF k = 0 THEN n ELSE f[k - 1] \div 256]
    BY <1>1, Halves
  <2>2. rest = [k \in 0 .. L |-> IF k = 0 THEN n ELSE rest[k - 1] \div 256]
    <3>1. rest = CHOOSE g : g = [k \in 0 .. L |-> IF k = 0 THEN n ELSE g[k - 1] \div 256]
      OBVIOUS
    <3> HIDE DEF rest
    <3> QED
      BY ONLY <2>1, <3>1, Zenon
  <2> HIDE DEF rest
  <2> DEFINE T == {j \in 0 .. L : rest[j] \notin Nat}
  <2>3. ASSUME T # {} PROVE FALSE
    <3>1. T \in SUBSET Nat
      OBVIOUS
    <3>2. PICK j \in T : \A i \in T : j <= i
      BY <2>3, <3>1, LeastOf
    <3>3. CASE j = 0
      BY <1>1, <2>2, <3>2, <3>3
    <3>4. CASE j # 0
      <4>1. j - 1 \in 0 .. L /\ j \in 0 .. L /\ ~(j <= j - 1)
        BY <1>1, <3>2, <3>4
      <4>2. rest[j - 1] \in Nat
        BY ONLY <3>2, <4>1, Zenon
      <4>3. rest[j] = rest[j - 1] \div 256
        BY <2>2, <3>4, <4>1
      <4>4. rest[j - 1] \div 256 \in Nat
        <5> DEFINE x == rest[j - 1]
        <5>1. x \in Nat /\ 256 \in Nat \ {0}
          BY <4>2
        <5> HIDE DEF x
        <5>2. x \div 256 \in Nat
          BY ONLY <5>1, NatDivision
        <5> QED
          BY <5>2 DEF x
      <4> QED
        BY <3>2, <4>3, <4>4
    <3> QED
      BY <3>3, <3>4
  <2> QED
    BY <2>3
<1>3. Host(n) = [k \in 1 .. L |-> Number(rest[k - 1] % 256)]
  BY DEF Host
<1>4. Hash!BigEndian(n) = [k \in 1 .. L |-> Number(rest[L - k] % 256)]
  BY DEF Hash!BigEndian
<1> HIDE DEF rest
<1>5. Len(Host(n)) = L
  BY <1>1, <1>3
<1>6. WriteBE64(n) = [i \in 1 .. L |-> Number(rest[L - i] % 256)]
  <2>1. WriteBE64(n) = [i \in 1 .. L |-> Host(n)[L + 1 - i]]
    BY <1>5 DEF WriteBE64, Bswap
  <2>2. ASSUME NEW i \in 1 .. L
        PROVE  Host(n)[L + 1 - i] = Number(rest[L - i] % 256)
    <3>1. L + 1 - i \in 1 .. L /\ L + 1 - i - 1 = L - i
      BY <1>1
    <3> DEFINE e == L + 1 - i
    <3>2. e \in 1 .. L /\ e - 1 = L - i
      BY <1>1
    <3> HIDE DEF e
    <3>3. Host(n)[e] = Number(rest[e - 1] % 256)
      BY <1>3, <3>2
    <3>4. Host(n)[e] = Number(rest[L - i] % 256)
      BY ONLY <3>2, <3>3, Zenon
    <3> QED
      BY <3>4 DEF e
  <2> QED
    BY <2>1, <2>2
<1>7. ASSUME NEW i \in 1 .. L
      PROVE  Number(rest[L - i] % 256) \in Byte
  <2>1. L - i \in 0 .. L
    BY <1>1
  <2>2. rest[L - i] \in Nat /\ 256 \in Nat \ {0}
    BY <1>2, <2>1
  <2>3. (rest[L - i] % 256) \in Int
    <3> DEFINE x == rest[L - i]
    <3>1. x \in Nat
      BY <2>2
    <3> HIDE DEF x
    <3>2. (x % 256) \in Int
      BY ONLY <2>2, <3>1, NatDivision
    <3> QED
      BY <3>2 DEF x
  <2> QED
    BY <2>3 DEF Number, Byte
<1> DEFINE w == [i \in 1 .. L |-> Number(rest[L - i] % 256)]
<1>8. w \in [1 .. L -> Byte]
  BY <1>7
<1> HIDE DEF w
<1>9. w \in Seq(Byte) /\ Len(w) = L
  BY <1>1, <1>8
<1> QED
  BY <1>4, <1>6, <1>9 DEF w
-----------------------------------------------------------------------------
\* The padding ends where the length fills the block, and no other padding is as short.
LEMMA PadFills ==
  ASSUME bytes \in Nat
  PROVE  /\ PadLength \in 1 .. BlockBytes
         /\ \E c \in Nat \ {0} : bytes + PadLength + LengthBytes = BlockBytes * c
         /\ Hash!Fill(bytes) = PadLength - 1
<1> DEFINE B == BlockBytes
           L == LengthBytes
           q == bytes \div B
           r == (bytes % B)
           x == 2 * B - L - 1 - r
           d == x \div B
           z == (x % B)
           Ends(y) == ((bytes + 1 + y + L) % B) = 0
<1>1. B \in Nat \ {0} /\ L \in Nat \ {0} /\ L < B
  BY BlockSize
<1>2. q \in Nat /\ r \in 0 .. B - 1 /\ bytes = B * q + r
  BY <1>1, NatDivision
<1> HIDE DEF q, r
<1>3. x \in Nat
  BY <1>1, <1>2
<1>4. d \in Nat /\ z \in 0 .. B - 1 /\ x = B * d + z
  <2> HIDE DEF x
  <2> QED
    BY <1>1, <1>3, NatDivision
<1>5. PadLength = 1 + z
  BY DEF PadLength, z, x, r
<1> HIDE DEF d, z
<1> DEFINE c == q + 2 - d
<1>6. c \in Int /\ bytes + 1 + z + L = B * c
  <2>1. B * c = B * q + 2 * B - B * d /\ B * q \in Int /\ B * d \in Int
    BY <1>1, <1>2, <1>4
  <2> QED
    BY <1>1, <1>2, <1>4, <2>1
<1> HIDE DEF c, x
<1>7. c \in Nat \ {0}
  <2>1. ASSUME c < 1 PROVE FALSE
    <3>1. 1 \in Int /\ B * c + B <= B * 1
      BY <1>6, <2>1, BlocksApart
    <3>2. B * c <= 0
      BY <1>1, <1>6, <3>1
    <3> QED
      BY <1>1, <1>4, <1>6, <3>2
  <2> QED
    BY <1>6, <2>1
<1>8. Ends(z)
  <2>1. 0 \in 0 .. B - 1 /\ B * c = B * c + 0
    BY <1>1, <1>7
  <2>2. ((B * c + 0) % B) = 0
    BY <1>7, <2>1, RemainderIs
  <2> QED
    BY <1>6, <2>1, <2>2
<1>9. ASSUME NEW y \in 0 .. B - 1, Ends(y)
      PROVE  y = z
  <2> DEFINE a == bytes + 1 + y + L
             e == a \div B
  <2>1. a \in Nat
    BY <1>1
  <2>2. e \in Nat /\ a = B * e + (a % B)
    BY <1>1, <2>1, NatDivision
  <2>3. a = B * e /\ B * e \in Int /\ B * c \in Int
    <3>1. (a % B) = 0
      BY <1>9
    <3>2. B * e \in Int /\ B * c \in Int
      BY <1>1, <1>6, <2>2
    <3> HIDE DEF a, e
    <3> QED
      BY <2>2, <3>1, <3>2
  <2> HIDE DEF e
  <2>4. e < c => B * e + B <= B * c
    BY <1>6, <2>2, BlocksApart
  <2>5. c < e => B * c + B <= B * e
    BY <1>6, <2>2, BlocksApart
  <2>6. e = c
    BY <1>1, <1>4, <1>6, <2>2, <2>3, <2>4, <2>5
  <2> QED
    BY <1>1, <1>4, <1>6, <2>3, <2>6
<1>10. Hash!Fill(bytes) = z
  <2>1. Hash!Fill(bytes) = CHOOSE y \in 0 .. B - 1 : Ends(y)
    BY DEF Hash!Fill
  <2> HIDE DEF Ends
  <2> QED
    BY <1>4, <1>8, <1>9, <2>1
<1>11. /\ PadLength \in 1 .. B /\ PadLength - 1 = z
       /\ bytes + PadLength + L = B * c
  BY <1>1, <1>4, <1>5, <1>6
<1> QED
  BY <1>7, <1>10, <1>11

\* What final appends first is the 1 bit and the 0 bits of the standard.
LEMMA PadWritten ==
  ASSUME bytes \in Nat
  PROVE  /\ SubSeq(pad, 1, PadLength) \in Seq(Byte)
         /\ Len(SubSeq(pad, 1, PadLength)) = PadLength
         /\ Hash!Zeros(Hash!Fill(bytes)) \in Seq(Byte) /\ << Number(128) >> \in Seq(Byte)
         /\ SubSeq(pad, 1, PadLength) = << Number(128) >> \o Hash!Zeros(Hash!Fill(bytes))
<1> DEFINE n == PadLength
           zeros == [i \in 1 .. n - 1 |-> Number(0)]
<1>1. n \in 1 .. BlockBytes /\ Hash!Fill(bytes) = n - 1 /\ BlockBytes \in Nat
  BY PadFills, BlockSize
<1>2. Number(128) \in Byte /\ Number(0) \in Byte
  BY DEF Number, Byte
<1>3. /\ pad \in Seq(Byte) /\ Len(pad) = BlockBytes
      /\ \A i \in 1 .. BlockBytes : pad[i] = IF i = 1 THEN Number(128) ELSE Number(0)
  <2>1. pad = [i \in 1 .. BlockBytes |-> IF i = 1 THEN Number(128) ELSE Number(0)]
    BY DEF pad
  <2> DEFINE p == [i \in 1 .. BlockBytes |-> IF i = 1 THEN Number(128) ELSE Number(0)]
  <2>2. p \in [1 .. BlockBytes -> Byte]
    BY <1>2
  <2>3. \A i \in 1 .. BlockBytes : p[i] = IF i = 1 THEN Number(128) ELSE Number(0)
    OBVIOUS
  <2> HIDE DEF p
  <2>4. p \in Seq(Byte) /\ Len(p) = BlockBytes
    BY <1>1, <2>2
  <2> QED
    BY <2>1, <2>3, <2>4 DEF p
<1> DEFINE m == << Number(128) >>
<1>4. m \in Seq(Byte) /\ Len(m) = 1 /\ m[1] = Number(128)
  BY <1>2
<1>5. Hash!Zeros(Hash!Fill(bytes)) = zeros
  <2>1. Hash!Zeros(n - 1) = zeros
    BY DEF Hash!Zeros
  <2> QED
    BY ONLY <1>1, <2>1, Zenon
<1> HIDE DEF n
<1>6. zeros \in Seq(Byte) /\ Len(zeros) = n - 1 /\ \A i \in 1 .. n - 1 : zeros[i] = Number(0)
  <2>1. n - 1 \in Nat /\ zeros \in [1 .. n - 1 -> Byte]
    BY <1>1, <1>2
  <2>2. \A i \in 1 .. n - 1 : zeros[i] = Number(0)
    OBVIOUS
  <2> HIDE DEF zeros
  <2> QED
    BY <2>1, <2>2
<1> HIDE DEF zeros, m
<1>7. /\ SubSeq(pad, 1, n) \in Seq(Byte) /\ Len(SubSeq(pad, 1, n)) = n
      /\ \A i \in 1 .. n : SubSeq(pad, 1, n)[i] = pad[i]
  <2>1. 0 \in Nat /\ n \in Nat /\ 0 + n <= Len(pad) /\ 0 + 1 = 1 /\ 0 + n = n /\ \A i \in 1 .. n : 0 + i = i
    BY <1>1, <1>3
  <2>2. /\ SubSeq(pad, 0 + 1, 0 + n) \in Seq(Byte) /\ Len(SubSeq(pad, 0 + 1, 0 + n)) = n
        /\ \A i \in 1 .. n : SubSeq(pad, 0 + 1, 0 + n)[i] = pad[0 + i]
    BY <1>3, <2>1, PartOf
  <2> QED
    BY <2>1, <2>2
<1>8. /\ m \o zeros \in Seq(Byte) /\ Len(m \o zeros) = Len(m) + Len(zeros)
      /\ \A i \in 1 .. Len(m) + Len(zeros) : (m \o zeros)[i] =
           IF i <= Len(m) THEN m[i] ELSE zeros[i - Len(m)]
  BY ONLY <1>4, <1>6, ConcatProperties
<1>9. SubSeq(pad, 1, n) = m \o zeros
  <2> DEFINE a == SubSeq(pad, 1, n)
             b == m \o zeros
  <2>1. a \in Seq(Byte) /\ b \in Seq(Byte) /\ Len(a) = n /\ Len(b) = n
    BY <1>1, <1>4, <1>6, <1>7, <1>8
  <2>2. ASSUME NEW i \in 1 .. n
        PROVE  a[i] = b[i]
    <3>1. a[i] = pad[i] /\ pad[i] = IF i = 1 THEN Number(128) ELSE Number(0)
      BY <1>1, <1>3, <1>7
    <3>2. b[i] = IF i <= 1 THEN m[i] ELSE zeros[i - 1]
      BY <1>1, <1>4, <1>6, <1>8
    <3>3. CASE i = 1
      <4>1. i <= 1
        BY <3>3
      <4>2. a[i] = Number(128) /\ b[i] = m[i]
        BY ONLY <3>1, <3>2, <3>3, <4>1, Zenon
      <4> QED
        BY ONLY <1>4, <3>3, <4>2, Zenon
    <3>4. CASE i # 1
      <4>1. i - 1 \in 1 .. n - 1 /\ ~(i <= 1)
        BY <1>1, <3>4
      <4> QED
        BY ONLY <1>6, <3>1, <3>2, <3>4, <4>1, Zenon
    <3> QED
      BY <3>3, <3>4
  <2> HIDE DEF a, b
  <2>3. a = b
    BY <2>1, <2>2, SeqEqual
  <2> QED
    BY <2>3 DEF a, b
<1> QED
  BY <1>4, <1>5, <1>6, <1>7, <1>9 DEF n, m

\* A content of whole blocks is the blocks.
LEMMA BlocksOfContent ==
  ASSUME NEW h, WellFormed(h), NEW c \in Nat, h.bytes = BlockBytes * c
  PROVE  Len(h.s) = c /\ Hash!Blocks(Content(h)) = h.s
<1> DEFINE B == BlockBytes
           m == Content(h)
           blocks == [b \in 1 .. c |-> SubSeq(m, (b - 1) * B + 1, b * B)]
<1>1. B \in Nat \ {0} /\ h.bytes \in Nat
  BY BlockSize DEF WellFormed
<1>2. h.bytes \div B = c
  <2>1. 0 \in 0 .. B - 1 /\ B * c \in Nat
    BY <1>1
  <2>2. (B * c + 0) \div B = c /\ B * c + 0 = B * c
    BY <2>1, RemainderIs
  <2> QED
    BY <2>2
<1>3. /\ h.s \in Seq(Seq(Byte)) /\ Len(h.s) = c /\ \A b \in 1 .. c : Len(h.s[b]) = B
  BY <1>2 DEF WellFormed
<1>4. m \in Seq(Byte) /\ Len(m) = h.bytes
  BY ContentIsSeq
<1>5. Hash!Blocks(m) = blocks
  BY <1>2, <1>4 DEF Hash!Blocks
<1>6. ASSUME NEW b \in 1 .. c
      PROVE  SubSeq(m, (b - 1) * B + 1, b * B) = h.s[b]
  <2> DEFINE t == B * (b - 1)
             a == SubSeq(m, t + 1, t + B)
  <2>1. b - 1 \in Nat /\ b - 1 < c /\ b - 1 + 1 = b /\ b - 1 \in Int /\ c \in Int
    OBVIOUS
  <2>2. t \in Nat /\ t + B <= B * c
    <3>1. B * (b - 1) + B <= B * c
      BY <2>1, BlocksApart
    <3> QED
      BY <1>1, <2>1, <3>1
  <2>3. (b - 1) * B + 1 = t + 1 /\ b * B = t + B
    BY <1>1, <2>1
  <2>4. h.s[b] \in Seq(Byte) /\ Len(h.s[b]) = B
    BY <1>3, ElementOfSeq
  <2> HIDE DEF m
  <2>5. /\ a \in Seq(Byte) /\ Len(a) = B /\ \A i \in 1 .. B : a[i] = m[t + i]
    <3> HIDE DEF t
    <3>1. t + B <= Len(m)
      BY <1>4, <2>2
    <3> QED
      BY <1>1, <1>4, <2>2, <3>1, PartOf
  <2>6. ASSUME NEW i \in 1 .. B
        PROVE  m[t + i] = h.s[b][i]
    <3>1. B * (b - 1) + i <= h.bytes
      BY <1>1, <2>2
    <3>2. Content(h)[B * (b - 1) + i] =
            IF b - 1 < Len(h.s) THEN h.s[b - 1 + 1][i] ELSE h.buf[i]
      BY <2>1, <3>1, ContentAt
    <3> QED
      BY <1>3, <2>1, <3>2 DEF m
  <2> HIDE DEF a
  <2>7. a = h.s[b]
    <3>1. \A i \in 1 .. Len(a) : a[i] = h.s[b][i]
      BY <2>5, <2>6
    <3> QED
      BY <2>4, <2>5, <3>1, SeqEqual
  <2> QED
    BY ONLY <2>3, <2>7, Zenon DEF a
<1>7. h.s = [b \in 1 .. c |-> h.s[b]]
  BY <1>3
<1> QED
  BY <1>3, <1>5, <1>6, <1>7
-----------------------------------------------------------------------------
HashInv == WellFormed(State) /\ Sha256TypeOK

LEMMA StateFields == State.s = s /\ State.buf = buf /\ State.bytes = bytes
BY DEF State

\* The state that an update leaves in the variables.
LEMMA BecomesState ==
  ASSUME NEW h, WellFormed(h), Becomes(h)
  PROVE  WellFormed(State)' /\ Content(State)' = Content(h)
<1>1. PICK g : g = State'
  OBVIOUS
<1>2. g.s = h.s /\ g.buf = h.buf /\ g.bytes = h.bytes
  BY <1>1 DEF State, Becomes
<1>3. WellFormed(g)
  BY <1>2 DEF WellFormed
<1>4. Content(g) = Content(h)
  BY ONLY <1>2, Zenon DEF Content
<1> QED
  BY ONLY <1>1, <1>3, <1>4, Zenon

LEMMA UpdateAppends ==
  ASSUME HashInv, NEW n \in Pieces, Update(n)
  PROVE  \E h : /\ WellFormed(h) /\ Becomes(h)
                /\ Content(h) = Content(State) \o Bytes(message, bytes, n)
<1>1. PICK g, d : g = State /\ d = Bytes(message, bytes, n)
  OBVIOUS
<1>2. WellFormed(g) /\ message \in Int /\ bytes \in Nat /\ n \in Nat
  BY <1>1, Sha256Assumption DEF HashInv, Sha256TypeOK
<1>3. d \in Seq(Byte)
  <2>1. \A i \in 1 .. n : <<message, bytes + i>> \in Byte
    BY <1>2 DEF Byte
  <2>2. d \in [1 .. n -> Byte]
    BY <1>1, <2>1 DEF Bytes
  <2> QED
    BY <1>2, <2>2
<1>4. WellFormed(Updated(g, d)) /\ Content(Updated(g, d)) = Content(g) \o d
  BY <1>2, <1>3, UpdatedIsAppended
<1>5. Becomes(Updated(g, d))
  BY <1>1, Zenon DEF Update
<1> QED
  BY ONLY <1>1, <1>4, <1>5, Zenon

LEMMA FinalPads ==
  ASSUME HashInv, Final
  PROVE  \E h : /\ WellFormed(h) /\ Becomes(h) /\ h.s # <<>>
                /\ Content(h) = Hash!Padded(Content(State)) /\ Hash!Blocks(Content(h)) = h.s
<1>1. PICK g, p, w : g = State /\ p = SubSeq(pad, 1, PadLength) /\ w = WriteBE64(8 * bytes)
  OBVIOUS
<1>2. WellFormed(g) /\ bytes \in Nat /\ g.bytes = bytes
  BY <1>1, StateFields DEF HashInv, Sha256TypeOK
<1> DEFINE one == << Number(128) >>
           zeros == Hash!Zeros(Hash!Fill(bytes))
           m == Content(g)
<1>3. /\ p \in Seq(Byte) /\ Len(p) = PadLength /\ p = one \o zeros
      /\ one \in Seq(Byte) /\ zeros \in Seq(Byte)
  BY <1>1, <1>2, PadWritten
<1>4. w = Hash!BigEndian(8 * bytes) /\ w \in Seq(Byte) /\ Len(w) = LengthBytes
  <2>1. 8 * bytes \in Nat
    BY <1>2
  <2> QED
    BY <1>1, <2>1, LengthWritten
<1>5. PICK h : h = Updated(Updated(g, p), w)
  OBVIOUS
<1>6. /\ WellFormed(Updated(g, p)) /\ Updated(g, p).bytes = bytes + PadLength
      /\ Content(Updated(g, p)) = m \o p
  BY <1>2, <1>3, UpdatedIsAppended
<1>7. /\ WellFormed(h) /\ h.bytes = bytes + PadLength + LengthBytes
      /\ Content(h) = (m \o p) \o w
  BY <1>4, <1>5, <1>6, UpdatedIsAppended
<1>8. PICK c \in Nat \ {0} : bytes + PadLength + LengthBytes = BlockBytes * c
  BY <1>2, PadFills
<1>9. Len(h.s) = c /\ Hash!Blocks(Content(h)) = h.s
  BY <1>7, <1>8, BlocksOfContent
<1>10. m \in Seq(Byte) /\ Len(m) = bytes
  BY <1>2, ContentIsSeq
<1>11. Hash!Padded(m) = ((m \o one) \o zeros) \o w
  BY ONLY <1>4, <1>10, Zenon DEF Hash!Padded
<1>12. (m \o one) \o zeros = m \o p
  BY <1>3, <1>10, ConcatAssociative
<1>13. Becomes(h)
  BY <1>1, <1>5, Zenon DEF Final
<1>14. h.s # <<>>
  BY <1>8, <1>9
<1> QED
  BY ONLY <1>1, <1>7, <1>9, <1>11, <1>12, <1>13, <1>14, Zenon
-----------------------------------------------------------------------------
LEMMA HashInvInit == Sha256Init => HashInv
<1> SUFFICES ASSUME Sha256Init
             PROVE  HashInv
  OBVIOUS
<1>1. BlockBytes \in Nat \ {0} /\ Messages \in Nat
  BY BlockSize, Sha256Assumption
<1>2. buf \in Seq(Byte) /\ Len(buf) = BlockBytes
  <2>1. buf = [i \in 1 .. BlockBytes |-> <<-1, 0>>] /\ <<-1, 0>> \in Byte
    BY DEF Sha256Init, Byte
  <2>2. buf \in [1 .. BlockBytes -> Byte]
    BY <2>1
  <2> QED
    BY <1>1, <2>1, <2>2
<1>3. s = <<>> /\ bytes = 0 /\ Len(s) = 0 /\ 0 \div BlockBytes = 0
  <2>1. 0 \in Nat /\ 0 \in 0 .. BlockBytes - 1 /\ BlockBytes * 0 + 0 = 0
    BY <1>1
  <2>2. (BlockBytes * 0 + 0) \div BlockBytes = 0
    BY <2>1, RemainderIs
  <2> QED
    BY <2>1, <2>2 DEF Sha256Init
<1>4. WellFormed(State)
  BY <1>2, <1>3, StateFields DEF WellFormed
<1>5. Sha256TypeOK
  BY <1>1, <1>2, <1>3 DEF Sha256Init, Sha256TypeOK
<1> QED
  BY <1>4, <1>5 DEF HashInv

LEMMA HashInvNext == HashInv /\ [Next]_vars => HashInv'
<1> SUFFICES ASSUME HashInv, [Next]_vars
             PROVE  HashInv'
  OBVIOUS
<1> DEFINE Rest == /\ message \in 0 .. Messages /\ digest \in Digests \cup {<<>>}
                   /\ (digest # <<>> <=> hash # <<>>)
                   /\ pc \in {"closed", "open", "ready", "final"}
<1>1. Rest
  BY DEF HashInv, Sha256TypeOK
<1>2. ASSUME WellFormed(State)', Rest'
      PROVE  HashInv'
  <2>1. /\ bytes' \in Nat /\ Len(buf') = BlockBytes /\ Len(s') = bytes' \div BlockBytes
        /\ \A b \in DOMAIN s' : Len(s'[b]) = BlockBytes
    <3>1. PICK g : g = State'
      OBVIOUS
    <3>2. WellFormed(g) /\ g.s = s' /\ g.buf = buf' /\ g.bytes = bytes'
      BY <1>2, <3>1 DEF State
    <3>3. DOMAIN g.s = 1 .. Len(g.s)
      BY <3>2 DEF WellFormed
    <3> QED
      BY <3>2, <3>3 DEF WellFormed
  <2> QED
    BY <1>2, <2>1 DEF HashInv, Sha256TypeOK
<1>3. ASSUME UNCHANGED <<s, buf, bytes>>
      PROVE  WellFormed(State)'
  <2>1. State' = State
    BY <1>3 DEF State
  <2> QED
    BY <2>1 DEF HashInv, WellFormed
<1>4. CASE Open
  <2>1. Rest' /\ UNCHANGED <<s, buf, bytes>>
    BY <1>1, <1>4 DEF Open
  <2> QED
    BY <1>2, <1>3, <2>1
<1>5. CASE InitHash
  <2>1. Rest'
    <3>1. message' \in 0 .. Messages
      BY <1>1, <1>5, Sha256Assumption DEF InitHash
    <3> QED
      BY <1>1, <1>5, <3>1 DEF InitHash
  <2>2. WellFormed(State)'
    <3>1. PICK g : g = State'
      OBVIOUS
    <3>2. g.s = <<>> /\ g.buf = State.buf /\ g.bytes = 0
      BY <1>5, <3>1 DEF InitHash, State
    <3>3. 0 \div BlockBytes = 0
      <4>1. BlockBytes \in Nat \ {0}
        BY BlockSize
      <4>2. 0 \in Nat /\ 0 \in 0 .. BlockBytes - 1 /\ BlockBytes * 0 + 0 = 0
        BY <4>1
      <4>3. (BlockBytes * 0 + 0) \div BlockBytes = 0
        BY <4>2, RemainderIs
      <4> QED
        BY <4>2, <4>3
    <3>4. WellFormed(g)
      BY <3>2, <3>3 DEF HashInv, WellFormed
    <3> QED
      BY ONLY <3>1, <3>4, Zenon
  <2> QED
    BY <1>2, <2>1, <2>2
<1>6. CASE Gethashstr
  <2>1. Rest' /\ UNCHANGED <<s, buf, bytes>>
    BY <1>1, <1>6 DEF Gethashstr
  <2> QED
    BY <1>2, <1>3, <2>1
<1>7. CASE Close
  <2>1. Rest' /\ UNCHANGED <<s, buf, bytes>>
    BY <1>1, <1>7 DEF Close
  <2> QED
    BY <1>2, <1>3, <2>1
<1>8. CASE Final
  <2>1. WellFormed(State)' /\ s' # <<>>
    <3>1. PICK h : WellFormed(h) /\ Becomes(h) /\ h.s # <<>>
      BY <1>8, FinalPads
    <3> QED
      BY <3>1, BecomesState DEF Becomes
  <2>2. hash' = s' /\ digest' \in Digests /\ digest' # <<>>
    BY <1>8, Sha256Assumption DEF Final
  <2>3. Rest'
    BY <1>1, <1>8, <2>1, <2>2 DEF Final
  <2> QED
    BY <1>2, <2>1, <2>3
<1>9. CASE \E n \in Pieces : Update(n)
  <2>1. PICK n \in Pieces : Update(n)
    BY <1>9
  <2>2. PICK h : WellFormed(h) /\ Becomes(h)
    BY <2>1, UpdateAppends
  <2>3. WellFormed(State)'
    BY <2>2, BecomesState
  <2>4. Rest'
    BY <1>1, <2>1 DEF Update
  <2> QED
    BY <1>2, <2>3, <2>4
<1>10. CASE UNCHANGED vars
  <2>1. Rest' /\ UNCHANGED <<s, buf, bytes>>
    BY <1>1, <1>10 DEF vars
  <2> QED
    BY <1>2, <1>3, <2>1
<1> QED
  BY <1>4, <1>5, <1>6, <1>7, <1>8, <1>9, <1>10 DEF Next

THEOREM HashInvariant == Spec => []HashInv
BY HashInvInit, HashInvNext, PTL DEF Spec

\* fs_sha256.h: nothing is copied past the end of the buffer, and the counter is that of
\* the bytes compressed or waiting, for pieces of any size.
THEOREM HashTypes == Spec => []Sha256TypeOK
<1>1. HashInv => Sha256TypeOK
  BY DEF HashInv
<1> QED
  BY <1>1, HashInvariant, PTL
-----------------------------------------------------------------------------
\* Every step of the code is a step of the standard's description, or none.
LEMMA HashStep == HashInv /\ [Next]_vars => [Hash!Next]_(Hash!hasherVars)
<1> SUFFICES ASSUME HashInv, [Next]_vars
             PROVE  [Hash!Next]_(Hash!hasherVars)
  OBVIOUS
<1>1. ASSUME UNCHANGED <<s, buf, bytes>>
      PROVE  Content(State)' = Content(State)
  <2>1. State' = State
    BY <1>1 DEF State
  <2> QED
    BY <2>1 DEF Content
<1>2. CASE Open
  <2>1. UNCHANGED message /\ hash' = <<>> /\ Content(State)' = Content(State)
    BY <1>1, <1>2 DEF Open
  <2> QED
    BY ONLY <2>1, Zenon DEF Hash!Next, Hash!Release
<1>3. CASE InitHash
  <2>1. message' = message + 1 /\ hash' = <<>> /\ bytes' = 0
    BY <1>3 DEF InitHash
  <2>2. Content(State)' = <<>>
    <3>1. PICK g : g = State'
      OBVIOUS
    <3>2. g.bytes = 0
      BY <2>1, <3>1 DEF State
    <3>3. Content(g) = <<>>
      BY <3>2 DEF Content
    <3> QED
      BY ONLY <3>1, <3>3, Zenon
  <2> QED
    BY ONLY <2>1, <2>2, Zenon DEF Hash!Next, Hash!Begin
<1>4. CASE Gethashstr
  <2>1. UNCHANGED <<message, hash>> /\ Content(State)' = Content(State)
    BY <1>1, <1>4 DEF Gethashstr
  <2> QED
    BY ONLY <2>1, Zenon DEF Hash!hasherVars
<1>5. CASE Close
  <2>1. UNCHANGED <<message, hash>> /\ Content(State)' = Content(State)
    BY <1>1, <1>5 DEF Close
  <2> QED
    BY ONLY <2>1, Zenon DEF Hash!hasherVars
<1>6. CASE Final
  <2>1. PICK h : /\ WellFormed(h) /\ Becomes(h)
                 /\ Content(h) = Hash!Padded(Content(State)) /\ Hash!Blocks(Content(h)) = h.s
    BY <1>6, FinalPads
  <2>2. Content(State)' = Content(h)
    BY <2>1, BecomesState
  <2>3. hash' = h.s /\ UNCHANGED message
    BY <1>6, <2>1 DEF Final, Becomes
  <2>4. Content(State)' = Hash!Padded(Content(State)) /\ hash' = Hash!Blocks(Content(State)')
    BY ONLY <2>1, <2>2, <2>3, Zenon
  <2> QED
    BY ONLY <2>3, <2>4, Zenon DEF Hash!Next, Hash!Digest
<1>7. CASE \E n \in Pieces : Update(n)
  <2>1. PICK n \in Pieces : Update(n)
    BY <1>7
  <2>2. PICK h : WellFormed(h) /\ Becomes(h) /\ Content(h) = Content(State) \o Bytes(message, bytes, n)
    BY <2>1, UpdateAppends
  <2>3. Content(State)' = Content(h)
    BY <2>2, BecomesState
  <2>4. Len(Content(State)) = bytes
    <3>1. PICK g : g = State
      OBVIOUS
    <3>2. WellFormed(g) /\ g.bytes = bytes
      BY <3>1, StateFields DEF HashInv
    <3> QED
      BY <3>1, <3>2, ContentIsSeq
  <2>5. Content(State)' = Content(State) \o Bytes(message, Len(Content(State)), n)
    BY ONLY <2>2, <2>3, <2>4, Zenon
  <2>6. UNCHANGED <<message, hash>>
    BY <2>1 DEF Update
  <2> QED
    BY ONLY <2>1, <2>5, <2>6, Zenon DEF Hash!Next, Hash!Absorb
<1>8. CASE UNCHANGED vars
  <2>1. UNCHANGED <<message, hash>> /\ Content(State)' = Content(State)
    BY <1>1, <1>8 DEF vars
  <2> QED
    BY ONLY <2>1, Zenon DEF Hash!hasherVars
<1> QED
  BY <1>2, <1>3, <1>4, <1>5, <1>6, <1>7, <1>8 DEF Next

\* fs_sha256.h:181-211: whatever the pieces and whatever an earlier message left in the
\* buffer, what is compressed is the message, padded as the standard pads it.
THEOREM HashIsOfPaddedMessage == Spec => HasherSpec
<1>1. Sha256Init => Hash!Init
  <2> SUFFICES ASSUME Sha256Init
               PROVE  Hash!Init
    OBVIOUS
  <2>1. message = 0 /\ hash = <<>> /\ State.bytes = 0
    BY StateFields DEF Sha256Init
  <2>2. Content(State) = <<>>
    BY <2>1 DEF Content
  <2> QED
    BY ONLY <2>1, <2>2, Zenon DEF Hash!Init
<1> QED
  BY <1>1, HashInvariant, HashStep, PTL DEF Spec, HasherSpec, Hash!Spec
=============================================================================
