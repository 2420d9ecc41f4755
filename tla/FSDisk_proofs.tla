----------------------------- MODULE FSDisk_proofs -----------------------------
(***************************************************************************)
(* What holds of fs_disk.h for files of any size and number and for any    *)
(* requests that they are large enough for.                                *)
(***************************************************************************)
EXTENDS FSDisk, NatFacts, SequenceTheorems, FiniteSetTheorems

LEMMA ChunkSize == ChunkSectors \in Nat \ {0} /\ MaxFiles \in Nat \ {0}
BY DiskAssumption

Writes == {w \in [at : 0 .. ChunkSectors, data : Contents] : w.at + Len(w.data) <= ChunkSectors}
Creating == pc \in {"create", "rewind"}

DiskTypes ==
  /\ file \in [Kinds -> [Numbers -> Contents \cup {NoFile}]]
  /\ pending \in [Kinds -> [Numbers -> Writes]]
  /\ slot \in [Kinds -> [Numbers -> {"open", "nofile", "null", "garbage"}]]
  /\ fst \in [Kinds -> [Numbers -> {"success", "memory", "drive_rw"}]]
  /\ num \in [Kinds -> 0 .. MaxFiles] /\ open \in BOOLEAN
  /\ status \in {"success", "param", "memory", "drive_rw"}
  /\ pc \in {"idle", "create", "rewind", "transfer", "wild"}
  /\ call \in [kind : Kinds, first : Nat, data : Seq(Data), done : Nat]
  /\ todo \in Seq(Kinds \X Numbers)

\* A slot that is open has its file.
OpenAreFiles == \A k \in Kinds, i \in Numbers : slot[k][i] = "open" => file[k][i] # NoFile

\* The call in progress ends in a file that the array has a slot for.
CallFits ==
  /\ pc \in {"idle", "wild"} => call = NoCall /\ todo = <<>>
  /\ pc = "transfer" => call # NoCall /\ todo = <<>>
  /\ pc = "rewind" => todo # <<>>
  /\ call # NoCall =>
       /\ open /\ call.done < Len(call.data)
       /\ FileAt(call.first + Len(call.data) - 1) <= num[call.kind]

DiskInv == DiskTypes /\ OpenAreFiles /\ CallFits

Planned(k, i) == \E n \in 1 .. Len(todo) : todo[n] = <<k, i>>

\* Every slot that counts is open, or is about to be opened.
SlotsOpen ==
  /\ open \/ Creating =>
       \A k \in Kinds : num[k] >= 1 /\ \A i \in 1 .. num[k] : slot[k][i] = "open" \/ Planned(k, i)
  /\ pc = "rewind" => slot[todo[1][1]][todo[1][2]] = "open"

\* No file is missing before another, nor is any created out of turn.
InTurn ==
  /\ \A k \in Kinds, i \in Numbers : i > 1 /\ file[k][i] # NoFile => file[k][i - 1] # NoFile
  /\ \A n \in 1 .. Len(todo) :
       \/ todo[n][2] = 1
       \/ file[todo[n][1]][todo[n][2] - 1] # NoFile
       \/ n > 1 /\ todo[n - 1] = <<todo[n][1], todo[n][2] - 1>>

GrowInv == DiskInv /\ SlotsOpen /\ InTurn
-----------------------------------------------------------------------------
LEMMA ContentsAre ==
  ASSUME NEW f
  PROVE  f \in Contents <=> f \in Seq(Data) /\ Len(f) <= ChunkSectors
<1>1. ASSUME f \in Contents
      PROVE  f \in Seq(Data) /\ Len(f) <= ChunkSectors
  <2>1. PICK n \in 0 .. ChunkSectors : f \in [1 .. n -> Data]
    BY <1>1 DEF Contents
  <2>2. n \in Nat /\ n <= ChunkSectors
    BY ChunkSize
  <2> QED
    BY <2>1, <2>2
<1>2. ASSUME f \in Seq(Data), Len(f) <= ChunkSectors
      PROVE  f \in Contents
  <2>1. f \in [1 .. Len(f) -> Data] /\ Len(f) \in Nat
    BY <1>2, LenProperties
  <2>2. Len(f) \in 0 .. ChunkSectors
    BY <1>2, <2>1, ChunkSize
  <2> QED
    BY <2>1, <2>2 DEF Contents
<1> QED
  BY <1>1, <1>2

LEMMA WriteFields ==
  ASSUME NEW w
  PROVE  w \in Writes <=> /\ w \in [at : 0 .. ChunkSectors, data : Contents]
                          /\ w.at + Len(w.data) <= ChunkSectors
BY DEF Writes

\* A sector after a write is one of the write's, of the file's, or zero.
LEMMA SectorIsData ==
  ASSUME NEW f \in Contents, NEW w \in Writes, NEW s \in Nat \ {0}
  PROVE  SectorAfter(f, w, s) \in Data
<1>1. /\ f \in Seq(Data) /\ Len(f) \in Nat /\ w.at \in Nat
      /\ w.data \in Seq(Data) /\ Len(w.data) \in Nat
  <2>1. w.at \in 0 .. ChunkSectors /\ w.data \in Contents
    BY DEF Writes
  <2> QED
    BY <2>1, ContentsAre, ChunkSize, LenProperties
<1>2. CASE s \in w.at + 1 .. w.at + Len(w.data)
  <2>1. s - w.at \in 1 .. Len(w.data)
    BY <1>1, <1>2
  <2>2. w.data[s - w.at] \in Data
    BY <1>1, <2>1, ElementOfSeq
  <2> QED
    BY <1>2, <2>2 DEF SectorAfter
<1>3. CASE s \notin w.at + 1 .. w.at + Len(w.data)
  <2>1. CASE s <= Len(f)
    <3>1. f[s] \in Data
      <4>1. s \in 1 .. Len(f)
        BY <1>1, <2>1
      <4> QED
        BY <1>1, <4>1, ElementOfSeq
    <3> QED
      BY <1>3, <2>1, <3>1 DEF SectorAfter
  <2>2. CASE ~(s <= Len(f))
    BY <1>3, <2>2 DEF SectorAfter, Data
  <2> QED
    BY <2>1, <2>2
<1> QED
  BY <1>2, <1>3

\* A write that fits leaves the content of a file.
LEMMA WrittenIs ==
  ASSUME NEW f \in Contents, NEW w \in Writes
  PROVE  /\ Written(f, w) \in Contents
         /\ Len(Written(f, w)) = IF Len(f) > w.at + Len(w.data) THEN Len(f) ELSE w.at + Len(w.data)
         /\ \A s \in 1 .. Len(Written(f, w)) : Written(f, w)[s] = SectorAfter(f, w, s)
<1> DEFINE end == w.at + Len(w.data)
           n == IF Len(f) > end THEN Len(f) ELSE end
           g == [s \in 1 .. n |-> SectorAfter(f, w, s)]
<1>1. Len(f) \in Nat /\ end \in Nat /\ end <= ChunkSectors /\ Len(f) <= ChunkSectors
  <2>1. w.at \in 0 .. ChunkSectors /\ w.data \in Contents /\ end <= ChunkSectors
    BY DEF Writes
  <2>2. Len(w.data) \in Nat /\ Len(f) \in Nat /\ Len(f) <= ChunkSectors
    BY <2>1, ContentsAre, LenProperties
  <2> QED
    BY <2>1, <2>2, ChunkSize
<1>2. Written(f, w) = g
  BY DEF Written
<1> HIDE DEF end
<1>3. n \in Nat /\ n <= ChunkSectors
  BY <1>1
<1>4. g \in [1 .. n -> Data]
  <2>1. \A s \in 1 .. n : SectorAfter(f, w, s) \in Data
    <3>1. ASSUME NEW s \in 1 .. n
          PROVE  SectorAfter(f, w, s) \in Data
      <4>1. s \in Nat \ {0}
        BY <1>3
      <4> QED
        BY <4>1, SectorIsData
    <3> QED
      BY <3>1
  <2> QED
    BY <2>1
<1>5. \A s \in 1 .. n : g[s] = SectorAfter(f, w, s)
  OBVIOUS
<1> HIDE DEF n, g
<1>6. g \in Seq(Data) /\ Len(g) = n
  BY <1>3, <1>4
<1>7. g \in Contents
  BY <1>3, <1>6, ContentsAre
<1> QED
  BY <1>2, <1>5, <1>6, <1>7 DEF n, end

LEMMA NoWriteFits == NoWrite \in Writes /\ NoWrite.at = 0 /\ Len(NoWrite.data) = 0
<1>1. <<>> \in Contents /\ 0 \in 0 .. ChunkSectors /\ Len(<<>>) = 0
  <2>1. <<>> \in Seq(Data) /\ Len(<<>>) = 0 /\ 0 <= ChunkSectors
    BY ChunkSize
  <2>2. <<>> \in Contents
    BY <2>1, ContentsAre
  <2> QED
    BY <2>1, <2>2, ChunkSize
<1> QED
  BY <1>1, ChunkSize DEF NoWrite, Writes

\* A part of a write, from its beginning on.
LEMMA PrefixFits ==
  ASSUME NEW w \in Writes, NEW v \in Prefixes(w)
  PROVE  /\ v \in Writes /\ v.at = w.at /\ Len(v.data) \in 0 .. Len(w.data)
         /\ \A j \in 1 .. Len(v.data) : v.data[j] = w.data[j]
<1>1. PICK n \in 0 .. Len(w.data) : v = [w EXCEPT !.data = SubSeq(w.data, 1, n)]
  BY DEF Prefixes
<1>2. /\ w \in [at : 0 .. ChunkSectors, data : Contents]
      /\ w.at + Len(w.data) <= ChunkSectors
  BY DEF Writes
<1>3. w.data \in Seq(Data) /\ Len(w.data) \in Nat /\ Len(w.data) <= ChunkSectors /\ w.at \in Nat
  BY <1>2, ContentsAre, LenProperties, ChunkSize
<1>4. v.at = w.at /\ v.data = SubSeq(w.data, 1, n) /\ v = [at |-> w.at, data |-> v.data]
  BY <1>1, <1>2
<1>5. /\ SubSeq(w.data, 1, n) \in Seq(Data) /\ Len(SubSeq(w.data, 1, n)) = n
      /\ \A j \in 1 .. n : SubSeq(w.data, 1, n)[j] = w.data[j]
  <2>1. \A j \in 1 .. n : w.data[j] \in Data
    BY <1>3, ElementOfSeq
  <2>2. /\ SubSeq(w.data, 1, n) \in Seq(Data)
        /\ Len(SubSeq(w.data, 1, n)) = IF 1 <= n THEN n - 1 + 1 ELSE 0
        /\ \A j \in 1 .. n - 1 + 1 : SubSeq(w.data, 1, n)[j] = w.data[1 + j - 1]
    <3>1. 1 \in Int /\ n \in Int
      BY <1>3
    <3> QED
      BY <2>1, <3>1, SubSeqProperties
  <2>3. \A j \in 1 .. n : 1 + j - 1 = j
    BY <1>3
  <2> QED
    BY <1>3, <2>2, <2>3
<1>6. v.data \in Contents /\ v.at + Len(v.data) <= ChunkSectors
  <2>1. v.data \in Seq(Data) /\ Len(v.data) <= ChunkSectors /\ v.at + Len(v.data) <= ChunkSectors
    BY <1>2, <1>3, <1>4, <1>5, ChunkSize
  <2> QED
    BY <2>1, ContentsAre
<1>7. v \in Writes
  BY <1>2, <1>4, <1>6 DEF Writes
<1> QED
  BY <1>3, <1>4, <1>5, <1>7

\* The files of a kind that fs_disk_open counts are those before the first gap.
LEMMA CountOf ==
  ASSUME NEW f, NEW n, n = Cardinality({i \in Numbers : \A j \in 1 .. i : f[j] # NoFile})
  PROVE  /\ n \in 0 .. MaxFiles
         /\ \A i \in Numbers : i <= n <=> \A j \in 1 .. i : f[j] # NoFile
<1> DEFINE There(j) == f[j] # NoFile
           S == {i \in Numbers : \A j \in 1 .. i : There(j)}
           T == {c \in Nat : c + 1 \notin S}
<1>1. MaxFiles \in Nat \ {0}
  BY ChunkSize
<1>2. n = Cardinality(S)
  OBVIOUS
<1> HIDE DEF There
<1>3. T \in SUBSET Nat /\ MaxFiles \in T
  <2>1. MaxFiles + 1 \notin Numbers
    BY <1>1 DEF Numbers
  <2> QED
    BY <1>1, <2>1
<1>4. PICK c \in T : \A d \in T : c <= d
  <2> HIDE DEF T
  <2> QED
    BY <1>3, LeastOf
<1>5. c \in 0 .. MaxFiles /\ c + 1 \notin S
  BY <1>1, <1>3, <1>4
<1>6. ASSUME NEW i \in 1 .. c
      PROVE  i \in S
  <2>1. i - 1 \in Nat /\ ~(c <= i - 1) /\ (i - 1) + 1 = i
    BY <1>5
  <2>2. i - 1 \notin T
    BY ONLY <1>4, <2>1, Zenon
  <2> QED
    BY <2>1, <2>2
<1>7. ASSUME NEW i \in S
      PROVE  i \in 1 .. c
  <2>1. CASE i <= c
    BY <1>5, <2>1 DEF Numbers
  <2>2. CASE ~(i <= c)
    <3>1. c + 1 \in Numbers /\ c + 1 <= i /\ i \in Numbers
      BY <1>1, <1>5, <2>2 DEF Numbers
    <3>2. \A j \in 1 .. c + 1 : j \in 1 .. i
      BY <1>5, <3>1 DEF Numbers
    <3>3. \A j \in 1 .. c + 1 : There(j)
      BY <3>2
    <3>4. c + 1 \in S
      BY <3>1, <3>3
    <3> QED
      BY <1>5, <3>4
  <2> QED
    BY <2>1, <2>2
<1>8. S = 1 .. c
  <2> HIDE DEF S
  <2> QED
    BY <1>6, <1>7
<1>9. Cardinality(S) = c
  <2>1. 1 \in Int /\ c \in Int /\ (IF 1 > c THEN 0 ELSE c - 1 + 1) = c
    BY <1>5
  <2>2. Cardinality(1 .. c) = IF 1 > c THEN 0 ELSE c - 1 + 1
    BY <2>1, FS_Interval
  <2> QED
    BY <1>8, <2>1, <2>2
<1>10. ASSUME NEW i \in Numbers
       PROVE  i <= c <=> \A j \in 1 .. i : There(j)
  <2>1. i \in S <=> \A j \in 1 .. i : There(j)
    OBVIOUS
  <2>2. i \in 1 .. c <=> i <= c
    BY <1>5 DEF Numbers
  <2> QED
    BY ONLY <1>8, <2>1, <2>2, Zenon
<1> QED
  BY <1>2, <1>5, <1>9, <1>10 DEF There

LEMMA CountedIs ==
  ASSUME NEW k \in Kinds
  PROVE  /\ Counted(k) \in 0 .. MaxFiles
         /\ \A i \in Numbers : i <= Counted(k) <=> \A j \in 1 .. i : file[k][j] # NoFile
BY CountOf DEF Counted

-----------------------------------------------------------------------------
LEMMA EmptyFits == <<>> \in Contents /\ Len(<<>>) = 0 /\ NoFile \notin Contents
<1>1. <<>> \in Seq(Data) /\ Len(<<>>) = 0 /\ 0 <= ChunkSectors
  BY ChunkSize
<1>2. <<>> \in Contents
  BY <1>1, ContentsAre
<1> QED
  BY <1>1, <1>2, FileAssumption

LEMMA ZerosFit ==
  ASSUME NEW w, w = [at |-> 0, data |-> Zeros(ChunkSectors)]
  PROVE  /\ w \in Writes /\ w.at = 0 /\ Len(w.data) = ChunkSectors
         /\ \A s \in 1 .. ChunkSectors : w.data[s] = Zero
<1>1. /\ Zeros(ChunkSectors) \in [1 .. ChunkSectors -> Data]
      /\ \A s \in 1 .. ChunkSectors : Zeros(ChunkSectors)[s] = Zero
  BY DEF Zeros, Data
<1>2. Zeros(ChunkSectors) \in Seq(Data) /\ Len(Zeros(ChunkSectors)) = ChunkSectors
  BY <1>1, ChunkSize
<1>3. Zeros(ChunkSectors) \in Contents
  BY <1>2, ContentsAre, ChunkSize
<1> QED
  BY <1>1, <1>2, <1>3, ChunkSize DEF Writes

LEMMA FileOrder ==
  ASSUME NEW p \in Nat, NEW q \in Nat, p <= q
  PROVE  FileAt(p) \in Nat \ {0} /\ FileAt(q) \in Nat \ {0} /\ FileAt(p) <= FileAt(q)
<1>1. q \div ChunkSectors \in Nat /\ p \div ChunkSectors \in Nat
        /\ p \div ChunkSectors <= q \div ChunkSectors
  <2>1. p \in 0 .. q /\ q \in 0 .. q
    OBVIOUS
  <2> QED
    BY <2>1, ChunkSize, QuotientSteps
<1> QED
  BY <1>1 DEF FileAt

LEMMA VisibleIs ==
  ASSUME DiskTypes, NEW k \in Kinds, NEW i \in Numbers
  PROVE  /\ Visible(k, i) \in Contents
         /\ file[k][i] # NoFile =>
              /\ file[k][i] \in Contents /\ Visible(k, i) = Written(file[k][i], pending[k][i])
<1>1. file[k][i] \in Contents \cup {NoFile} /\ pending[k][i] \in Writes
  BY DEF DiskTypes
<1> QED
  BY <1>1, WrittenIs, EmptyFits DEF Visible

\* The share of a file: it lies in the file, and is not empty.
LEMMA ShareFits ==
  ASSUME DiskTypes, call.done < Len(call.data)
  PROVE  /\ Share \in Writes /\ Share.at = (Place % ChunkSectors)
         /\ Len(Share.data) \in 1 .. Len(call.data) - call.done
         /\ \A j \in 1 .. Len(Share.data) : Share.data[j] = call.data[call.done + j]
         /\ Len(Share.data) < Len(call.data) - call.done =>
              Share.at + Len(Share.data) = ChunkSectors
<1> DEFINE n == Len(call.data)
           d == call.done
           r == (Place % ChunkSectors)
           room == ChunkSectors - r
           rest == n - d
           m == IF rest < room THEN rest ELSE room
           data == SubSeq(call.data, d + 1, d + m)
<1>1. /\ call.data \in Seq(Data) /\ n \in Nat /\ d \in Nat /\ Place \in Nat
      /\ d < n
  BY LenProperties DEF DiskTypes, Place
<1>2. r \in 0 .. ChunkSectors - 1
  <2> HIDE DEF r
  <2> QED
    BY <1>1, ChunkSize, NatDivision DEF r
<1>3. Share.at = r /\ Share.data = data /\ Share = [at |-> r, data |-> data]
  BY DEF Share
<1> HIDE DEF r
<1>4. m \in 1 .. n - d /\ r + m <= ChunkSectors /\ (m < n - d => r + m = ChunkSectors)
  BY <1>1, <1>2, ChunkSize
<1> HIDE DEF m, n, d
<1>5. data \in Seq(Data) /\ Len(data) = m /\ \A j \in 1 .. m : data[j] = call.data[d + j]
  <2>1. \A j \in d + 1 .. d + m : call.data[j] \in Data
    <3>1. ASSUME NEW j \in d + 1 .. d + m
          PROVE  call.data[j] \in Data
      <4>1. j \in 1 .. n
        BY <1>1, <1>4
      <4> QED
        BY <1>1, <4>1, ElementOfSeq DEF n
    <3> QED
      BY <3>1
  <2>2. d + 1 \in Int /\ d + m \in Int /\ d + 1 <= d + m /\ (d + m) - (d + 1) + 1 = m
          /\ \A j \in 1 .. m : (d + 1) + j - 1 = d + j
    BY <1>1, <1>4
  <2> DEFINE a == d + 1
             b == d + m
  <2> HIDE DEF a, b
  <2>3. a \in Int /\ b \in Int /\ a <= b /\ b - a + 1 = m /\ \A j \in 1 .. m : a + j - 1 = d + j
    BY <2>2 DEF a, b
  <2>4. \A j \in a .. b : call.data[j] \in Data
    BY <2>1 DEF a, b
  <2>5. /\ SubSeq(call.data, a, b) \in Seq(Data)
        /\ Len(SubSeq(call.data, a, b)) = IF a <= b THEN b - a + 1 ELSE 0
        /\ \A j \in 1 .. b - a + 1 : SubSeq(call.data, a, b)[j] = call.data[a + j - 1]
    BY <2>3, <2>4, SubSeqProperties
  <2>6. /\ SubSeq(call.data, a, b) \in Seq(Data) /\ Len(SubSeq(call.data, a, b)) = m
        /\ \A j \in 1 .. m : SubSeq(call.data, a, b)[j] = call.data[d + j]
    BY <2>3, <2>5
  <2> QED
    BY <2>6 DEF a, b
<1> HIDE DEF data
<1>6. data \in Contents /\ r \in 0 .. ChunkSectors
  <2>1. Len(data) <= ChunkSectors
    BY <1>1, <1>2, <1>4, <1>5, ChunkSize
  <2> QED
    BY <1>2, <1>5, <2>1, ContentsAre, ChunkSize
<1>7. Share \in Writes
  BY <1>3, <1>4, <1>5, <1>6 DEF Writes
<1> QED
  BY <1>3, <1>4, <1>5, <1>7 DEF n, d, r

\* The place a call is at lies in a file that the array has a slot for.
LEMMA CurrentCounts ==
  ASSUME DiskTypes, CallFits, call # NoCall
  PROVE  /\ Place \in Nat /\ Current \in Numbers /\ Current <= num[call.kind]
         /\ call.done < Len(call.data) /\ call.kind \in Kinds
<1>1. /\ call.done < Len(call.data) /\ FileAt(call.first + Len(call.data) - 1) <= num[call.kind]
      /\ call.kind \in Kinds /\ call.first \in Nat /\ call.done \in Nat /\ call.data \in Seq(Data)
      /\ num[call.kind] \in 0 .. MaxFiles
  BY DEF DiskTypes, CallFits
<1>2. Len(call.data) \in Nat
  BY <1>1, LenProperties
<1> DEFINE p == call.first + call.done
           q == call.first + Len(call.data) - 1
<1>3. p \in Nat /\ q \in Nat /\ p <= q
  BY <1>1, <1>2
<1> HIDE DEF p, q
<1>4. FileAt(p) \in Nat \ {0} /\ FileAt(q) \in Nat \ {0} /\ FileAt(p) <= FileAt(q)
  BY <1>3, FileOrder
<1>5. FileAt(p) <= num[call.kind] /\ FileAt(p) \in 1 .. MaxFiles
  BY <1>1, <1>4, ChunkSize DEF q
<1> QED
  BY <1>1, <1>3, <1>5 DEF p, Place, Current, Numbers
-----------------------------------------------------------------------------
LEMMA NoCallTyped == NoCall \in [kind : Kinds, first : Nat, data : Seq(Data), done : Nat]
BY DEF NoCall, Kinds

\* A call that ends leaves nothing in progress.
LEMMA CallEnds ==
  ASSUME NEW st \in {"success", "param", "memory", "drive_rw"}, DiskTypes, Return(st) \/ GoWild
  PROVE  /\ pc' \in {"idle", "wild"} /\ call' = NoCall /\ todo' = <<>>
         /\ status' \in {"success", "param", "memory", "drive_rw"}
         /\ call' \in [kind : Kinds, first : Nat, data : Seq(Data), done : Nat]
         /\ todo' \in Seq(Kinds \X Numbers) /\ CallFits'
<1>1. /\ pc' \in {"idle", "wild"} /\ call' = NoCall /\ todo' = <<>>
      /\ status' \in {"success", "param", "memory", "drive_rw"}
  BY DEF Return, GoWild, DiskTypes
<1> QED
  BY <1>1, NoCallTyped DEF CallFits

LEMMA ErrorEnds ==
  ASSUME NEW i, DiskTypes, ReturnError(i)
  PROVE  /\ pc' \in {"idle", "wild"} /\ call' = NoCall /\ todo' = <<>>
         /\ status' \in {"success", "param", "memory", "drive_rw"}
         /\ call' \in [kind : Kinds, first : Nat, data : Seq(Data), done : Nat]
         /\ todo' \in Seq(Kinds \X Numbers) /\ CallFits'
         /\ pc' = "idle" => status' \in {"memory", "drive_rw"}
<1>1. \/ Return("drive_rw") \/ Return("memory") \/ GoWild
  BY DEF ReturnError
<1>2. pc' = "idle" => status' \in {"memory", "drive_rw"}
  BY <1>1 DEF Return, GoWild
<1> QED
  BY <1>1, <1>2, CallEnds

LEMMA FileSet ==
  ASSUME DiskTypes, NEW k \in Kinds, NEW i \in Numbers, NEW f \in Contents, NEW w \in Writes,
         SetFile(k, i, f, w)
  PROVE  /\ file' \in [Kinds -> [Numbers -> Contents \cup {NoFile}]]
         /\ pending' \in [Kinds -> [Numbers -> Writes]]
         /\ file'[k][i] = f /\ pending'[k][i] = w /\ f # NoFile
         /\ \A l \in Kinds, j \in Numbers :
              l # k \/ j # i => file'[l][j] = file[l][j] /\ pending'[l][j] = pending[l][j]
         /\ \A l \in Kinds, j \in Numbers : file[l][j] # NoFile => file'[l][j] # NoFile
BY EmptyFits DEF SetFile, DiskTypes

LEMMA SlotSet ==
  ASSUME DiskTypes, NEW k \in Kinds, NEW i \in Numbers,
         NEW sl \in {"open", "nofile", "null", "garbage"},
         NEW st \in {"success", "memory", "drive_rw"}, SetSlot(k, i, sl, st)
  PROVE  /\ slot' \in [Kinds -> [Numbers -> {"open", "nofile", "null", "garbage"}]]
         /\ fst' \in [Kinds -> [Numbers -> {"success", "memory", "drive_rw"}]]
         /\ slot'[k][i] = sl
         /\ \A l \in Kinds, j \in Numbers : l # k \/ j # i => slot'[l][j] = slot[l][j]
BY DEF SetSlot, DiskTypes

\* Files that a read has sought in.
LEMMA Sought ==
  ASSUME DiskTypes, NEW k \in Kinds, NEW from, NEW i, NEW f \in Contents, SeekTo(k, from, i, f)
  PROVE  /\ file' \in [Kinds -> [Numbers -> Contents \cup {NoFile}]]
         /\ pending' \in [Kinds -> [Numbers -> Writes]]
         /\ \A j \in Numbers :
              /\ file'[k][j] = IF j = i THEN f ELSE IF j \in from .. i THEN Visible(k, j)
                               ELSE file[k][j]
              /\ pending'[k][j] = IF j \in from .. i THEN NoWrite ELSE pending[k][j]
         /\ \A l \in Kinds, j \in Numbers :
              l # k => file'[l][j] = file[l][j] /\ pending'[l][j] = pending[l][j]
         /\ \A l \in Kinds, j \in Numbers : file[l][j] # NoFile => file'[l][j] # NoFile
<1>1. \A j \in Numbers : Visible(k, j) \in Contents
  BY VisibleIs
<1>2. /\ file \in [Kinds -> [Numbers -> Contents \cup {NoFile}]]
      /\ pending \in [Kinds -> [Numbers -> Writes]]
  BY DEF DiskTypes
<1> DEFINE fs == [j \in Numbers |-> IF j = i THEN f ELSE IF j \in from .. i THEN Visible(k, j)
                                    ELSE file[k][j]]
           ps == [j \in Numbers |-> IF j \in from .. i THEN NoWrite ELSE pending[k][j]]
<1>3. fs \in [Numbers -> Contents \cup {NoFile}] /\ ps \in [Numbers -> Writes]
  BY <1>1, <1>2, NoWriteFits
<1>4. file' = [file EXCEPT ![k] = fs] /\ pending' = [pending EXCEPT ![k] = ps]
  BY <1>2 DEF SeekTo
<1>5. file'[k] = fs /\ pending'[k] = ps
  BY <1>2, <1>4
<1>6. \A l \in Kinds : l # k => file'[l] = file[l] /\ pending'[l] = pending[l]
  BY <1>2, <1>4
<1>7. \A j \in Numbers : file[k][j] # NoFile => fs[j] # NoFile
  BY <1>1, EmptyFits
<1>8. \A j \in Numbers :
        /\ fs[j] = IF j = i THEN f ELSE IF j \in from .. i THEN Visible(k, j) ELSE file[k][j]
        /\ ps[j] = IF j \in from .. i THEN NoWrite ELSE pending[k][j]
  OBVIOUS
<1> HIDE DEF fs, ps
<1> QED
  BY <1>2, <1>3, <1>4, <1>5, <1>6, <1>7, <1>8

LEMMA CutIsPrefix ==
  ASSUME DiskTypes, NEW k \in Kinds, NEW i \in Numbers,
         NEW n \in 0 .. Len(pending[k][i].data),
         NEW w, w = [pending[k][i] EXCEPT !.data = SubSeq(@, 1, n)]
  PROVE  w \in Prefixes(pending[k][i])
BY DEF Prefixes

\* The files after their buffers have reached them, in part or as a whole.
LEMMA WrittenOut ==
  ASSUME DiskTypes, NEW cut,
         \A k \in Kinds, i \in Numbers : cut[k][i] \in 0 .. Len(pending[k][i].data), WriteOut(cut)
  PROVE  /\ file' \in [Kinds -> [Numbers -> Contents \cup {NoFile}]]
         /\ pending' \in [Kinds -> [Numbers -> Writes]] /\ pending' = NoWrites
         /\ \A k \in Kinds, i \in Numbers :
              IF file[k][i] = NoFile THEN file'[k][i] = NoFile
              ELSE /\ file'[k][i] # NoFile
                   /\ \E w \in Prefixes(pending[k][i]) : file'[k][i] = Written(file[k][i], w)
<1> DEFINE V(k, i) == [pending[k][i] EXCEPT !.data = SubSeq(@, 1, cut[k][i])]
           F(k, i) == IF file[k][i] = NoFile THEN NoFile ELSE Written(file[k][i], V(k, i))
<1>1. ASSUME NEW k \in Kinds, NEW i \in Numbers
      PROVE  V(k, i) \in Prefixes(pending[k][i]) /\ V(k, i) \in Writes
  <2>1. cut[k][i] \in 0 .. Len(pending[k][i].data) /\ pending[k][i] \in Writes
    BY DEF DiskTypes
  <2>2. PICK w : w = V(k, i)
    OBVIOUS
  <2>3. w \in Prefixes(pending[k][i])
    BY <2>1, <2>2, CutIsPrefix
  <2>4. w \in Writes
    BY <2>1, <2>3, PrefixFits
  <2> QED
    BY ONLY <2>2, <2>3, <2>4, Zenon
<1>2. file' = [k \in Kinds |-> [i \in Numbers |-> F(k, i)]] /\ pending' = NoWrites
  BY DEF WriteOut
<1> HIDE DEF V
<1>3. ASSUME NEW k \in Kinds, NEW i \in Numbers, file[k][i] # NoFile
      PROVE  F(k, i) \in Contents /\ F(k, i) # NoFile
  <2>1. file[k][i] \in Contents
    BY <1>3 DEF DiskTypes
  <2> QED
    BY <1>1, <1>3, <2>1, WrittenIs, EmptyFits
<1>4. \A k \in Kinds, i \in Numbers : F(k, i) \in Contents \cup {NoFile}
  BY <1>3
<1>5. \A k \in Kinds, i \in Numbers :
        IF file[k][i] = NoFile THEN F(k, i) = NoFile
        ELSE F(k, i) # NoFile /\ \E w \in Prefixes(pending[k][i]) : F(k, i) = Written(file[k][i], w)
  BY <1>1, <1>3
<1>6. \A k \in Kinds, i \in Numbers : file'[k][i] = F(k, i)
  BY <1>2
<1> HIDE DEF F
<1>7. NoWrites \in [Kinds -> [Numbers -> Writes]]
  BY NoWriteFits DEF NoWrites
<1> QED
  BY <1>2, <1>4, <1>5, <1>6, <1>7

LEMMA CutsFit ==
  ASSUME DiskTypes, NEW cut, cut \in Cuts \/ cut = Buffered
  PROVE  \A k \in Kinds, i \in Numbers : cut[k][i] \in 0 .. Len(pending[k][i].data)
<1>1. \A k \in Kinds, i \in Numbers : Len(pending[k][i].data) \in Nat
  <2>1. ASSUME NEW k \in Kinds, NEW i \in Numbers
        PROVE  Len(pending[k][i].data) \in Nat
    <3>1. pending[k][i].data \in Contents
      BY DEF DiskTypes, Writes
    <3> QED
      BY <3>1, ContentsAre, LenProperties
  <2> QED
    BY <2>1
<1>2. \A k \in Kinds, i \in Numbers : Buffered[k][i] = Len(pending[k][i].data)
  BY DEF Buffered
<1>3. CASE cut = Buffered
  BY <1>1, <1>2, <1>3
<1>4. CASE cut \in Cuts
  <2>1. /\ cut \in [Kinds -> [Numbers -> 0 .. ChunkSectors]]
        /\ \A k \in Kinds, i \in Numbers : cut[k][i] <= Buffered[k][i]
    BY <1>4 DEF Cuts
  <2>2. \A k \in Kinds, i \in Numbers : cut[k][i] \in 0 .. ChunkSectors
    BY <2>1
  <2> QED
    BY <1>1, <1>2, <2>1, <2>2, ChunkSize
<1> QED
  BY <1>3, <1>4
-----------------------------------------------------------------------------
LEMMA DiskInvInit == DiskInit => DiskInv
<1> SUFFICES ASSUME DiskInit
             PROVE  DiskInv
  OBVIOUS
<1>1. NoWrites \in [Kinds -> [Numbers -> Writes]]
  BY NoWriteFits DEF NoWrites
<1>2. num \in [Kinds -> 0 .. MaxFiles]
  BY ChunkSize DEF DiskInit
<1>3. DiskTypes
  <2>1. pending \in [Kinds -> [Numbers -> Writes]]
    BY <1>1, Zenon DEF DiskInit
  <2>2. todo \in Seq(Kinds \X Numbers) /\ call \in [kind : Kinds, first : Nat, data : Seq(Data), done : Nat]
    BY NoCallTyped DEF DiskInit
  <2>3. /\ file \in [Kinds -> [Numbers -> Contents \cup {NoFile}]]
        /\ slot \in [Kinds -> [Numbers -> {"open", "nofile", "null", "garbage"}]]
        /\ fst \in [Kinds -> [Numbers -> {"success", "memory", "drive_rw"}]]
    BY DEF DiskInit
  <2>4. /\ open \in BOOLEAN /\ status \in {"success", "param", "memory", "drive_rw"}
        /\ pc \in {"idle", "create", "rewind", "transfer", "wild"}
    BY DEF DiskInit
  <2> QED
    BY <1>2, <2>1, <2>2, <2>3, <2>4 DEF DiskTypes
<1>4. OpenAreFiles
  BY DEF DiskInit, OpenAreFiles
<1>5. CallFits
  BY DEF DiskInit, CallFits
<1> QED
  BY <1>3, <1>4, <1>5 DEF DiskInv

\* What an action leaves alone stays as it was.
LEMMA FilesKept ==
  ASSUME DiskInv, UNCHANGED file,
         \A k \in Kinds, i \in Numbers : slot'[k][i] = "open" => slot[k][i] = "open"
  PROVE  OpenAreFiles'
BY DEF DiskInv, OpenAreFiles

LEMMA LeavesFiles ==
  ASSUME DiskInv, UNCHANGED <<file, pending, slot, fst, num, open>>,
         NEW st \in {"success", "param", "memory", "drive_rw"}, Return(st) \/ GoWild
  PROVE  DiskInv'
<1>1. OpenAreFiles'
  BY FilesKept
<1> QED
  BY <1>1, CallEnds DEF DiskInv, DiskTypes

\* The files that an opening goes over: those of a kind in their order.
LEMMA AllFilesAre ==
  ASSUME NEW k \in Kinds, NEW n \in 0 .. MaxFiles
  PROVE  /\ AllFiles(k, n) \in Seq(Kinds \X Numbers) /\ Len(AllFiles(k, n)) = n
         /\ \A i \in 1 .. n : AllFiles(k, n)[i] = <<k, i>>
<1>1. n \in Nat /\ \A i \in 1 .. n : <<k, i>> \in Kinds \X Numbers
  BY ChunkSize DEF Numbers
<1>2. AllFiles(k, n) \in [1 .. n -> Kinds \X Numbers]
  BY <1>1 DEF AllFiles
<1> QED
  BY <1>1, <1>2 DEF AllFiles

LEMMA OpenInv == DiskInv /\ DiskOpen => DiskInv'
<1> SUFFICES ASSUME DiskInv, DiskOpen
             PROVE  DiskInv'
  OBVIOUS
<1>1. DiskTypes /\ CallFits /\ pc = "idle" /\ UNCHANGED <<file, pending, open>>
  BY DEF DiskInv, DiskOpen, disk
<1>2. CASE Return("memory") /\ UNCHANGED handle
  BY <1>1, <1>2, LeavesFiles, "memory" \in {"success", "param", "memory", "drive_rw"} DEF handle
<1>3. CASE /\ num' = [k \in Kinds |-> IF Counted(k) = 0 THEN 1 ELSE Counted(k)]
           /\ slot' = [k \in Kinds |-> [i \in Numbers |-> "garbage"]]
           /\ fst' = [k \in Kinds |-> [i \in Numbers |-> "success"]]
           /\ todo' = AllFiles("index", num'["index"]) \o AllFiles("meta", num'["meta"])
           /\ pc' = "create" /\ UNCHANGED <<status, call>>
  <2>1. \A k \in Kinds : Counted(k) \in 0 .. MaxFiles
    BY CountedIs
  <2>2. num' \in [Kinds -> 0 .. MaxFiles]
    <3>1. \A k \in Kinds : (IF Counted(k) = 0 THEN 1 ELSE Counted(k)) \in 0 .. MaxFiles
      BY <2>1, ChunkSize
    <3> QED
      BY <1>3, <3>1
  <2>3. todo' \in Seq(Kinds \X Numbers)
    <3>1. /\ "index" \in Kinds /\ "meta" \in Kinds
          /\ num'["index"] \in 0 .. MaxFiles /\ num'["meta"] \in 0 .. MaxFiles
      BY <2>2 DEF Kinds
    <3>2. /\ AllFiles("index", num'["index"]) \in Seq(Kinds \X Numbers)
          /\ AllFiles("meta", num'["meta"]) \in Seq(Kinds \X Numbers)
      BY <3>1, AllFilesAre
    <3> QED
      BY <1>3, <3>2, ConcatProperties
  <2>4. DiskTypes'
    BY <1>1, <1>3, <2>2, <2>3 DEF DiskTypes
  <2>5. OpenAreFiles'
    BY <1>3 DEF OpenAreFiles
  <2>6. CallFits'
    BY <1>1, <1>3 DEF CallFits
  <2> QED
    BY <2>4, <2>5, <2>6 DEF DiskInv
<1> QED
  BY <1>2, <1>3 DEF DiskOpen

LEMMA OpenedInv == DiskInv /\ Opened => DiskInv'
<1> SUFFICES ASSUME DiskInv, Opened
             PROVE  DiskInv'
  OBVIOUS
<1>1. DiskTypes /\ CallFits /\ UNCHANGED <<file, pending, slot, fst, num>> /\ todo = <<>>
  BY DEF DiskInv, Opened, disk, handle
<1>2. OpenAreFiles'
  BY <1>1, FilesKept
<1>3. CASE call = NoCall
  <2>1. Return("success") /\ open' = TRUE
    BY <1>3 DEF Opened
  <2> QED
    BY <1>1, <1>2, <2>1, CallEnds DEF DiskInv, DiskTypes
<1>4. CASE call # NoCall
  <2>1. pc' = "transfer" /\ UNCHANGED <<open, status, call, todo>>
    BY <1>4 DEF Opened
  <2>2. CallFits'
    BY <1>1, <1>4, <2>1 DEF CallFits
  <2>3. DiskTypes'
    BY <1>1, <2>1 DEF DiskTypes
  <2> QED
    BY <1>2, <2>2, <2>3 DEF DiskInv
<1> QED
  BY <1>3, <1>4

\* The file that is to be opened next.
LEMMA NextFile ==
  ASSUME DiskTypes, todo # <<>>
  PROVE  /\ todo[1][1] \in Kinds /\ todo[1][2] \in Numbers /\ 1 \in 1 .. Len(todo)
         /\ todo[1] = <<todo[1][1], todo[1][2]>>
         /\ Tail(todo) \in Seq(Kinds \X Numbers) /\ Len(Tail(todo)) = Len(todo) - 1
         /\ \A n \in 1 .. Len(todo) - 1 : Tail(todo)[n] = todo[n + 1]
<1>1. todo \in Seq(Kinds \X Numbers) /\ Len(todo) \in Nat /\ Len(todo) # 0
  BY LenProperties, EmptySeq DEF DiskTypes
<1>2. 1 \in 1 .. Len(todo)
  BY <1>1
<1>3. todo[1] \in Kinds \X Numbers
  BY <1>1, <1>2, ElementOfSeq
<1>4. /\ Tail(todo) \in Seq(Kinds \X Numbers) /\ Len(Tail(todo)) = Len(todo) - 1
      /\ \A n \in 1 .. Len(todo) - 1 : Tail(todo)[n] = todo[n + 1]
  BY <1>1, HeadTailProperties DEF DiskTypes
<1> QED
  BY <1>2, <1>3, <1>4

LEMMA OpenFileInv == DiskInv /\ OpenFile => DiskInv'
<1> SUFFICES ASSUME DiskInv, OpenFile
             PROVE  DiskInv'
  OBVIOUS
<1>1. DiskTypes /\ CallFits /\ OpenAreFiles /\ pc = "create" /\ todo # <<>>
  BY DEF DiskInv, OpenFile
<1> DEFINE k == todo[1][1]
           i == todo[1][2]
           zeros == [at |-> 0, data |-> Zeros(ChunkSectors)]
<1>2. k \in Kinds /\ i \in Numbers /\ Tail(todo) \in Seq(Kinds \X Numbers)
  BY <1>1, NextFile
<1>3. SetSlot(k, i, "open", "success") /\ UNCHANGED <<num, open, status, call, reply>>
  BY DEF OpenFile
<1>4. \/ file[k][i] = NoFile /\ SetFile(k, i, <<>>, zeros) /\ pc' = "rewind" /\ UNCHANGED todo
      \/ file[k][i] # NoFile /\ UNCHANGED <<file, pending, pc>> /\ todo' = Tail(todo)
  BY DEF OpenFile
<1>5. zeros \in Writes
  BY ZerosFit
<1> HIDE DEF k, i, zeros
<1>6. /\ slot' \in [Kinds -> [Numbers -> {"open", "nofile", "null", "garbage"}]]
      /\ fst' \in [Kinds -> [Numbers -> {"success", "memory", "drive_rw"}]]
      /\ \A l \in Kinds, j \in Numbers : l # k \/ j # i => slot'[l][j] = slot[l][j]
  BY <1>1, <1>2, <1>3, SlotSet
<1>7. CASE SetFile(k, i, <<>>, zeros) /\ pc' = "rewind" /\ UNCHANGED todo
  <2>1. /\ file' \in [Kinds -> [Numbers -> Contents \cup {NoFile}]]
        /\ pending' \in [Kinds -> [Numbers -> Writes]] /\ file'[k][i] # NoFile
        /\ \A l \in Kinds, j \in Numbers : file[l][j] # NoFile => file'[l][j] # NoFile
    BY <1>1, <1>2, <1>5, <1>7, EmptyFits, FileSet
  <2>2. DiskTypes'
    BY <1>1, <1>3, <1>6, <1>7, <2>1 DEF DiskTypes
  <2>3. OpenAreFiles'
    BY <1>1, <1>6, <2>1 DEF OpenAreFiles
  <2>4. CallFits'
    BY <1>1, <1>3, <1>7 DEF CallFits
  <2> QED
    BY <2>2, <2>3, <2>4 DEF DiskInv
<1>8. CASE file[k][i] # NoFile /\ UNCHANGED <<file, pending, pc>> /\ todo' = Tail(todo)
  <2>1. DiskTypes'
    BY <1>1, <1>2, <1>3, <1>6, <1>8 DEF DiskTypes
  <2>2. OpenAreFiles'
    BY <1>1, <1>6, <1>8 DEF OpenAreFiles
  <2>3. CallFits'
    BY <1>1, <1>3, <1>8 DEF CallFits
  <2> QED
    BY <2>1, <2>2, <2>3 DEF DiskInv
<1> QED
  BY <1>4, <1>7, <1>8

LEMMA RewindInv == DiskInv /\ Rewind => DiskInv'
<1> SUFFICES ASSUME DiskInv, Rewind
             PROVE  DiskInv'
  OBVIOUS
<1>1. DiskTypes /\ CallFits /\ OpenAreFiles /\ pc = "rewind" /\ todo # <<>>
  BY DEF DiskInv, Rewind, CallFits
<1> DEFINE k == todo[1][1]
           i == todo[1][2]
<1>2. k \in Kinds /\ i \in Numbers /\ Tail(todo) \in Seq(Kinds \X Numbers)
  BY <1>1, NextFile
<1>3. /\ SetFile(k, i, Visible(k, i), NoWrite) /\ pc' = "create" /\ todo' = Tail(todo)
      /\ UNCHANGED <<slot, fst, num, open, status, call>>
  BY DEF Rewind, handle
<1> HIDE DEF k, i
<1>4. Visible(k, i) \in Contents /\ NoWrite \in Writes
  BY <1>1, <1>2, VisibleIs, NoWriteFits
<1>5. /\ file' \in [Kinds -> [Numbers -> Contents \cup {NoFile}]]
      /\ pending' \in [Kinds -> [Numbers -> Writes]]
      /\ \A l \in Kinds, j \in Numbers : file[l][j] # NoFile => file'[l][j] # NoFile
  BY <1>1, <1>2, <1>3, <1>4, FileSet
<1>6. DiskTypes'
  BY <1>1, <1>2, <1>3, <1>5 DEF DiskTypes
<1>7. OpenAreFiles'
  BY <1>1, <1>3, <1>5 DEF OpenAreFiles
<1>8. CallFits'
  BY <1>1, <1>3 DEF CallFits
<1> QED
  BY <1>6, <1>7, <1>8 DEF DiskInv

LEMMA OpenFileFailsInv == DiskInv /\ OpenFileFails => DiskInv'
<1> SUFFICES ASSUME DiskInv, OpenFileFails
             PROVE  DiskInv'
  OBVIOUS
<1>1. DiskTypes /\ CallFits /\ OpenAreFiles /\ todo # <<>> /\ UNCHANGED <<num, open>>
  BY DEF DiskInv, OpenFileFails
<1> DEFINE k == todo[1][1]
           i == todo[1][2]
<1>2. k \in Kinds /\ i \in Numbers
  BY <1>1, NextFile
<1>3. \/ SetSlot(k, i, "null", "success") /\ ReturnError(i) /\ UNCHANGED <<file, pending>>
      \/ SetSlot(k, i, "nofile", "drive_rw") /\ ReturnError(i) /\ UNCHANGED <<file, pending>>
      \/ SetSlot(k, i, "open", "memory") /\ ReturnError(i) /\ SetFile(k, i, <<>>, NoWrite)
      \/ Return("memory") /\ UNCHANGED <<file, pending, slot, fst>>
  BY DEF OpenFileFails, disk
<1> HIDE DEF k, i
<1>4. CASE Return("memory") /\ UNCHANGED <<file, pending, slot, fst>>
  BY <1>1, <1>4, LeavesFiles, "memory" \in {"success", "param", "memory", "drive_rw"}
<1>5. CASE \/ SetSlot(k, i, "null", "success") /\ ReturnError(i) /\ UNCHANGED <<file, pending>>
           \/ SetSlot(k, i, "nofile", "drive_rw") /\ ReturnError(i) /\ UNCHANGED <<file, pending>>
           \/ SetSlot(k, i, "open", "memory") /\ ReturnError(i) /\ SetFile(k, i, <<>>, NoWrite)
  <2>1. /\ pc' \in {"idle", "wild"} /\ CallFits'
        /\ status' \in {"success", "param", "memory", "drive_rw"}
        /\ call' \in [kind : Kinds, first : Nat, data : Seq(Data), done : Nat]
        /\ todo' \in Seq(Kinds \X Numbers)
    BY <1>1, <1>5, ErrorEnds
  <2>2. PICK sl \in {"open", "nofile", "null"}, st \in {"success", "memory", "drive_rw"} :
          /\ SetSlot(k, i, sl, st)
          /\ \/ sl # "open" /\ UNCHANGED <<file, pending>>
             \/ SetFile(k, i, <<>>, NoWrite)
    BY <1>5
  <2>3. /\ slot' \in [Kinds -> [Numbers -> {"open", "nofile", "null", "garbage"}]]
        /\ fst' \in [Kinds -> [Numbers -> {"success", "memory", "drive_rw"}]]
        /\ slot'[k][i] = sl
        /\ \A l \in Kinds, j \in Numbers : l # k \/ j # i => slot'[l][j] = slot[l][j]
    BY <1>1, <1>2, <2>2, SlotSet
  <2>4. CASE sl # "open" /\ UNCHANGED <<file, pending>>
    <3>1. DiskTypes'
      BY <1>1, <2>1, <2>3, <2>4 DEF DiskTypes
    <3>2. OpenAreFiles'
      BY <1>1, <2>3, <2>4 DEF OpenAreFiles
    <3> QED
      BY <2>1, <3>1, <3>2 DEF DiskInv
  <2>5. CASE SetFile(k, i, <<>>, NoWrite)
    <3>1. /\ file' \in [Kinds -> [Numbers -> Contents \cup {NoFile}]]
          /\ pending' \in [Kinds -> [Numbers -> Writes]] /\ file'[k][i] # NoFile
          /\ \A l \in Kinds, j \in Numbers : file[l][j] # NoFile => file'[l][j] # NoFile
      BY <1>1, <1>2, <2>5, EmptyFits, NoWriteFits, FileSet
    <3>2. DiskTypes'
      BY <1>1, <2>1, <2>3, <3>1 DEF DiskTypes
    <3>3. OpenAreFiles'
      BY <1>1, <2>3, <3>1 DEF OpenAreFiles
    <3> QED
      BY <2>1, <3>2, <3>3 DEF DiskInv
  <2> QED
    BY <2>2, <2>4, <2>5
<1> QED
  BY <1>3, <1>4, <1>5

LEMMA FillFailsInv == DiskInv /\ FillFails => DiskInv'
<1> SUFFICES ASSUME DiskInv, FillFails
             PROVE  DiskInv'
  OBVIOUS
<1>1. DiskTypes /\ CallFits /\ OpenAreFiles /\ todo # <<>> /\ UNCHANGED <<num, open>>
  BY DEF DiskInv, FillFails, CallFits
<1> DEFINE k == todo[1][1]
           i == todo[1][2]
<1>2. k \in Kinds /\ i \in Numbers
  BY <1>1, NextFile
<1>3. /\ \E w \in Prefixes(pending[k][i]) : SetFile(k, i, Written(<<>>, w), NoWrite)
      /\ SetSlot(k, i, "open", "drive_rw") /\ ReturnError(i)
  BY DEF FillFails
<1> HIDE DEF k, i
<1>4. PICK w \in Prefixes(pending[k][i]) : SetFile(k, i, Written(<<>>, w), NoWrite)
  BY <1>3
<1>5. Written(<<>>, w) \in Contents
  <2>1. pending[k][i] \in Writes
    BY <1>1, <1>2 DEF DiskTypes
  <2>2. w \in Writes
    BY <2>1, PrefixFits
  <2> QED
    BY <2>2, EmptyFits, WrittenIs
<1>6. /\ file' \in [Kinds -> [Numbers -> Contents \cup {NoFile}]]
      /\ pending' \in [Kinds -> [Numbers -> Writes]] /\ file'[k][i] # NoFile
      /\ \A l \in Kinds, j \in Numbers : file[l][j] # NoFile => file'[l][j] # NoFile
  BY <1>1, <1>2, <1>4, <1>5, NoWriteFits, FileSet
<1>7. /\ slot' \in [Kinds -> [Numbers -> {"open", "nofile", "null", "garbage"}]]
      /\ fst' \in [Kinds -> [Numbers -> {"success", "memory", "drive_rw"}]]
      /\ \A l \in Kinds, j \in Numbers : l # k \/ j # i => slot'[l][j] = slot[l][j]
  BY <1>1, <1>2, <1>3, SlotSet
<1>8. /\ pc' \in {"idle", "wild"} /\ CallFits'
      /\ status' \in {"success", "param", "memory", "drive_rw"}
      /\ call' \in [kind : Kinds, first : Nat, data : Seq(Data), done : Nat]
      /\ todo' \in Seq(Kinds \X Numbers)
  BY <1>1, <1>3, ErrorEnds
<1>9. DiskTypes'
  BY <1>1, <1>6, <1>7, <1>8 DEF DiskTypes
<1>10. OpenAreFiles'
  BY <1>1, <1>6, <1>7 DEF OpenAreFiles
<1> QED
  BY <1>8, <1>9, <1>10 DEF DiskInv
-----------------------------------------------------------------------------
LEMMA RequestFits ==
  ASSUME NEW r \in Requests
  PROVE  /\ r.begin \in Int /\ r.num \in Nat \ {0} /\ KindOf(r.begin) \in Kinds
         /\ Position(r.begin) \in Nat
         /\ FileAt(Position(r.begin)) \in Nat \ {0}
         /\ FileAt(Position(r.begin)) <= FileAt(Position(r.begin) + r.num - 1)
         /\ FileAt(Position(r.begin) + r.num - 1) \in Numbers
<1>1. r.begin \in Int /\ r.num \in Nat \ {0}
  BY DiskAssumption
<1>2. KindOf(r.begin) \in Kinds
  BY DEF KindOf, Kinds
<1>3. Position(r.begin) \in Nat
  BY <1>1 DEF Position
<1> DEFINE p == Position(r.begin)
           q == Position(r.begin) + r.num - 1
<1>4. p \in Nat /\ q \in Nat /\ p <= q
  BY <1>1, <1>3
<1>5. FileAt(q) <= MaxFiles
  BY FileAssumption
<1> HIDE DEF p, q
<1>6. FileAt(p) \in Nat \ {0} /\ FileAt(q) \in Nat \ {0} /\ FileAt(p) <= FileAt(q)
  BY <1>4, FileOrder
<1>7. FileAt(q) \in Numbers
  BY <1>5, <1>6, ChunkSize DEF Numbers
<1> QED
  BY <1>1, <1>2, <1>3, <1>6, <1>7 DEF p, q

\* The files that a write adds to the n there are.
LEMMA NewFilesAre ==
  ASSUME DiskTypes, NEW k \in Kinds, NEW n \in 0 .. MaxFiles, num[k] <= n
  PROVE  /\ NewFiles(k, n) \in Seq(Kinds \X Numbers) /\ Len(NewFiles(k, n)) = n - num[k]
         /\ \A f \in 1 .. n - num[k] : NewFiles(k, n)[f] = <<k, num[k] + f>>
<1>1. num[k] \in Nat /\ n \in Nat /\ MaxFiles \in Nat
  BY ChunkSize DEF DiskTypes
<1> DEFINE m == n - num[k]
<1>2. m \in Nat /\ \A f \in 1 .. m : num[k] + f \in Numbers
  BY <1>1 DEF Numbers
<1>3. NewFiles(k, n) = [f \in 1 .. m |-> <<k, num[k] + f>>]
  BY DEF NewFiles
<1> HIDE DEF m
<1> DEFINE g == [f \in 1 .. m |-> <<k, num[k] + f>>]
<1>4. g \in [1 .. m -> Kinds \X Numbers]
  BY <1>2
<1>5. \A f \in 1 .. m : g[f] = <<k, num[k] + f>>
  OBVIOUS
<1> HIDE DEF g
<1>6. g \in Seq(Kinds \X Numbers) /\ Len(g) = m
  BY <1>2, <1>4
<1> QED
  BY <1>3, <1>5, <1>6 DEF g, m

LEMMA WriteInv ==
  ASSUME NEW r \in Requests, NEW v \in Data
  PROVE  DiskInv /\ DiskWrite(r.begin, [s \in 1 .. r.num |-> v]) => DiskInv'
<1> DEFINE data == [s \in 1 .. r.num |-> v]
<1> SUFFICES ASSUME DiskInv, DiskWrite(r.begin, data)
             PROVE  DiskInv'
  OBVIOUS
<1> DEFINE k == KindOf(r.begin)
           first == Position(r.begin)
           reqfile == FileAt(first + r.num - 1)
<1>1. DiskTypes /\ CallFits /\ OpenAreFiles /\ open /\ UNCHANGED <<file, pending, fst, open>>
  BY DEF DiskInv, DiskWrite, disk
<1>2. k \in Kinds /\ first \in Nat /\ reqfile \in Numbers /\ r.num \in Nat \ {0}
  BY RequestFits
<1>3. data \in Seq(Data) /\ Len(data) = r.num
  <2>1. data \in [1 .. r.num -> Data] /\ r.num \in Nat
    BY <1>2
  <2> HIDE DEF data
  <2> QED
    BY <2>1
<1>4. \/ /\ num' = [num EXCEPT ![k] = IF reqfile > @ THEN reqfile ELSE @]
         /\ slot' = [slot EXCEPT ![k] = [i \in Numbers |-> IF i > num[k] THEN "garbage" ELSE @[i]]]
         /\ todo' = NewFiles(k, num'[k])
         /\ call' = [kind |-> k, first |-> first, data |-> data, done |-> 0]
         /\ pc' = "create" /\ UNCHANGED status
      \/ Return("memory") /\ UNCHANGED <<num, slot>>
  BY <1>3 DEF DiskWrite
<1> HIDE DEF k, first, data, reqfile
<1>5. CASE Return("memory") /\ UNCHANGED <<num, slot>>
  <2>1. OpenAreFiles'
    BY <1>1, <1>5, FilesKept
  <2> QED
    BY <1>1, <1>5, <2>1, CallEnds DEF DiskInv, DiskTypes
<1>6. CASE /\ num' = [num EXCEPT ![k] = IF reqfile > @ THEN reqfile ELSE @]
           /\ slot' = [slot EXCEPT ![k] = [i \in Numbers |-> IF i > num[k] THEN "garbage" ELSE @[i]]]
           /\ todo' = NewFiles(k, num'[k])
           /\ call' = [kind |-> k, first |-> first, data |-> data, done |-> 0]
           /\ pc' = "create" /\ UNCHANGED status
  <2>1. /\ num' \in [Kinds -> 0 .. MaxFiles] /\ num[k] <= num'[k] /\ num'[k] \in 0 .. MaxFiles
        /\ reqfile <= num'[k]
    <3>1. num \in [Kinds -> 0 .. MaxFiles] /\ num[k] \in 0 .. MaxFiles /\ reqfile \in 1 .. MaxFiles
            /\ MaxFiles \in Nat
      BY <1>1, <1>2, ChunkSize DEF DiskTypes, Numbers
    <3> DEFINE n == IF reqfile > num[k] THEN reqfile ELSE num[k]
    <3>2. n \in 0 .. MaxFiles /\ num[k] <= n /\ reqfile <= n
      BY <3>1
    <3>3. num' = [num EXCEPT ![k] = n]
      BY <1>6
    <3> HIDE DEF n
    <3> QED
      BY <1>2, <3>1, <3>2, <3>3
  <2>2. todo' \in Seq(Kinds \X Numbers)
    <3>1. PICK n \in 0 .. MaxFiles : n = num'[k]
      BY <2>1
    <3>2. NewFiles(k, n) \in Seq(Kinds \X Numbers)
      BY <1>1, <1>2, <2>1, <3>1, NewFilesAre
    <3> QED
      BY <1>6, <3>1, <3>2
  <2>3. slot' \in [Kinds -> [Numbers -> {"open", "nofile", "null", "garbage"}]]
    BY <1>1, <1>6 DEF DiskTypes
  <2>4. \A l \in Kinds, j \in Numbers : slot'[l][j] = "open" => slot[l][j] = "open"
    BY <1>1, <1>6 DEF DiskTypes
  <2>5. call' \in [kind : Kinds, first : Nat, data : Seq(Data), done : Nat]
    BY <1>2, <1>3, <1>6
  <2>6. DiskTypes'
    BY <1>1, <1>6, <2>1, <2>2, <2>3, <2>5 DEF DiskTypes
  <2>7. OpenAreFiles'
    BY <1>1, <2>4, FilesKept
  <2>8. CallFits'
    <3>1. call'.done < Len(call'.data)
      BY <1>2, <1>3, <1>6
    <3>2. FileAt(call'.first + Len(call'.data) - 1) <= num'[call'.kind]
      BY <1>3, <1>6, <2>1 DEF reqfile
    <3> QED
      BY <1>1, <1>6, <3>1, <3>2 DEF CallFits
  <2> QED
    BY <2>6, <2>7, <2>8 DEF DiskInv
<1> QED
  BY <1>4, <1>5, <1>6

LEMMA TransferInv == DiskInv /\ Transfer => DiskInv'
<1> SUFFICES ASSUME DiskInv, Transfer
             PROVE  DiskInv'
  OBVIOUS
<1>1. /\ DiskTypes /\ CallFits /\ OpenAreFiles /\ pc = "transfer" /\ call # NoCall
      /\ UNCHANGED <<num, open>>
  BY DEF DiskInv, CallFits, Transfer, Transferring
<1> DEFINE k == call.kind
           i == Current
<1>2. k \in Kinds /\ i \in Numbers /\ call.done < Len(call.data)
  BY <1>1, CurrentCounts
<1>3. /\ SetFile(k, i, Visible(k, i), Share) /\ SetSlot(k, i, "open", "success")
      /\ IF call.done + Len(Share.data) = Len(call.data) THEN Return("success")
         ELSE /\ call' = [call EXCEPT !.done = @ + Len(Share.data)]
              /\ UNCHANGED <<pc, status, todo>>
  BY DEF Transfer
<1> HIDE DEF k, i
<1>4. Share \in Writes /\ Visible(k, i) \in Contents
  BY <1>1, <1>2, ShareFits, VisibleIs
<1>5. /\ file' \in [Kinds -> [Numbers -> Contents \cup {NoFile}]]
      /\ pending' \in [Kinds -> [Numbers -> Writes]] /\ file'[k][i] # NoFile
      /\ \A l \in Kinds, j \in Numbers : file[l][j] # NoFile => file'[l][j] # NoFile
  BY <1>1, <1>2, <1>3, <1>4, FileSet
<1>6. /\ slot' \in [Kinds -> [Numbers -> {"open", "nofile", "null", "garbage"}]]
      /\ fst' \in [Kinds -> [Numbers -> {"success", "memory", "drive_rw"}]]
      /\ \A l \in Kinds, j \in Numbers : l # k \/ j # i => slot'[l][j] = slot[l][j]
  BY <1>1, <1>2, <1>3, SlotSet
<1>7. OpenAreFiles'
  BY <1>1, <1>5, <1>6 DEF OpenAreFiles
<1>8. CASE Return("success")
  <2>1. /\ pc' \in {"idle", "wild"} /\ CallFits'
        /\ status' \in {"success", "param", "memory", "drive_rw"}
        /\ call' \in [kind : Kinds, first : Nat, data : Seq(Data), done : Nat]
        /\ todo' \in Seq(Kinds \X Numbers)
    BY <1>1, <1>8, CallEnds
  <2>2. DiskTypes'
    BY <1>1, <1>5, <1>6, <2>1 DEF DiskTypes
  <2> QED
    BY <1>7, <2>1, <2>2 DEF DiskInv
<1>9. CASE /\ call.done + Len(Share.data) # Len(call.data)
           /\ call' = [call EXCEPT !.done = @ + Len(Share.data)]
           /\ UNCHANGED <<pc, status, todo>>
  <2>1. Len(Share.data) \in 1 .. Len(call.data) - call.done /\ Len(call.data) \in Nat
          /\ call \in [kind : Kinds, first : Nat, data : Seq(Data), done : Nat]
    BY <1>1, <1>2, ShareFits, LenProperties DEF DiskTypes
  <2>2. /\ call'.kind = call.kind /\ call'.first = call.first /\ call'.data = call.data
        /\ call'.done = call.done + Len(Share.data)
        /\ call' \in [kind : Kinds, first : Nat, data : Seq(Data), done : Nat]
    <3>1. call.done + Len(Share.data) \in Nat
      BY <2>1
    <3> QED
      BY <1>9, <2>1, <3>1
  <2>3. call'.done < Len(call'.data)
    BY <1>9, <2>1, <2>2
  <2>4. DiskTypes'
    BY <1>1, <1>5, <1>6, <1>9, <2>2 DEF DiskTypes
  <2>5. CallFits'
    <3>1. call' # NoCall
      BY <2>1, <2>3, EmptyFits DEF NoCall
    <3>2. FileAt(call'.first + Len(call'.data) - 1) <= num'[call'.kind]
      BY <1>1, <2>2 DEF CallFits
    <3> QED
      BY <1>1, <1>9, <2>3, <3>1, <3>2 DEF CallFits
  <2> QED
    BY <1>7, <2>4, <2>5 DEF DiskInv
<1> QED
  BY <1>3, <1>8, <1>9

LEMMA TransferFailsInv == DiskInv /\ TransferFails => DiskInv'
<1> SUFFICES ASSUME DiskInv, TransferFails
             PROVE  DiskInv'
  OBVIOUS
<1>1. /\ DiskTypes /\ CallFits /\ OpenAreFiles /\ pc = "transfer" /\ call # NoCall
      /\ UNCHANGED <<num, open>> /\ slot[call.kind][Current] = "open"
  BY DEF DiskInv, CallFits, TransferFails, Transferring, UsableFile
<1> DEFINE k == call.kind
           i == Current
<1>2. k \in Kinds /\ i \in Numbers /\ call.done < Len(call.data)
  BY <1>1, CurrentCounts
<1>3. /\ \/ \E w \in Prefixes(pending[k][i]) :
              SetFile(k, i, Written(file[k][i], w), NoWrite) /\ UNCHANGED <<slot, fst>>
         \/ \E w \in Prefixes(Share) :
              /\ SetFile(k, i, Written(Visible(k, i), w), NoWrite)
              /\ SetSlot(k, i, "open", "drive_rw")
      /\ ReturnError(i)
  BY DEF TransferFails
<1> HIDE DEF k, i
<1>4. /\ Share \in Writes /\ Visible(k, i) \in Contents /\ pending[k][i] \in Writes
      /\ file[k][i] \in Contents
  <2>1. file[k][i] # NoFile
    BY <1>1, <1>2 DEF OpenAreFiles, k, i
  <2> QED
    BY <1>1, <1>2, <2>1, ShareFits, VisibleIs DEF DiskTypes
<1>5. /\ pc' \in {"idle", "wild"} /\ CallFits'
      /\ status' \in {"success", "param", "memory", "drive_rw"}
      /\ call' \in [kind : Kinds, first : Nat, data : Seq(Data), done : Nat]
      /\ todo' \in Seq(Kinds \X Numbers)
  BY <1>1, <1>3, ErrorEnds
<1>6. \E f \in Contents : SetFile(k, i, f, NoWrite)
  <2>1. \A w \in Prefixes(pending[k][i]) : Written(file[k][i], w) \in Contents
    BY <1>4, PrefixFits, WrittenIs
  <2>2. \A w \in Prefixes(Share) : Written(Visible(k, i), w) \in Contents
    BY <1>4, PrefixFits, WrittenIs
  <2> QED
    BY <1>3, <2>1, <2>2
<1>7. /\ file' \in [Kinds -> [Numbers -> Contents \cup {NoFile}]]
      /\ pending' \in [Kinds -> [Numbers -> Writes]] /\ file'[k][i] # NoFile
      /\ \A l \in Kinds, j \in Numbers : file[l][j] # NoFile => file'[l][j] # NoFile
  BY <1>1, <1>2, <1>6, NoWriteFits, FileSet
<1>8. /\ slot' \in [Kinds -> [Numbers -> {"open", "nofile", "null", "garbage"}]]
      /\ fst' \in [Kinds -> [Numbers -> {"success", "memory", "drive_rw"}]]
      /\ \A l \in Kinds, j \in Numbers : l # k \/ j # i => slot'[l][j] = slot[l][j]
  <2>1. CASE SetSlot(k, i, "open", "drive_rw")
    BY <1>1, <1>2, <2>1, SlotSet
  <2>2. CASE UNCHANGED <<slot, fst>>
    BY <1>1, <2>2 DEF DiskTypes
  <2> QED
    BY <1>3, <2>1, <2>2
<1>9. DiskTypes'
  BY <1>1, <1>5, <1>7, <1>8 DEF DiskTypes
<1>10. OpenAreFiles'
  BY <1>1, <1>7, <1>8 DEF OpenAreFiles
<1> QED
  BY <1>5, <1>9, <1>10 DEF DiskInv

\* An action that goes wild or returns, and leaves the files and the slots alone.
LEMMA TransferWildInv == DiskInv /\ TransferWild => DiskInv'
BY LeavesFiles, "success" \in {"success", "param", "memory", "drive_rw"}
   DEF TransferWild, Transferring, disk

\* What the reads leave of the state: the files they have sought in exist.
LEMMA SoughtInv ==
  ASSUME DiskInv, NEW k \in Kinds, NEW from, NEW i, NEW f \in Contents, SeekTo(k, from, i, f),
         fst' \in [Kinds -> [Numbers -> {"success", "memory", "drive_rw"}]],
         UNCHANGED <<slot, num, open>>, pc' \in {"idle", "wild"}, CallFits',
         status' \in {"success", "param", "memory", "drive_rw"},
         call' \in [kind : Kinds, first : Nat, data : Seq(Data), done : Nat],
         todo' \in Seq(Kinds \X Numbers)
  PROVE  DiskInv'
<1>1. DiskTypes /\ OpenAreFiles
  BY DEF DiskInv
<1>2. /\ file' \in [Kinds -> [Numbers -> Contents \cup {NoFile}]]
      /\ pending' \in [Kinds -> [Numbers -> Writes]]
      /\ \A l \in Kinds, j \in Numbers : file[l][j] # NoFile => file'[l][j] # NoFile
  BY <1>1, Sought
<1>3. OpenAreFiles'
  BY <1>1, <1>2 DEF OpenAreFiles
<1>4. DiskTypes'
  BY <1>1, <1>2 DEF DiskTypes
<1> QED
  BY <1>3, <1>4 DEF DiskInv

LEMMA ReadPastEndInv ==
  ASSUME NEW r \in Requests
  PROVE  DiskInv /\ ReadPastEnd(r.begin, r.num) => DiskInv'
BY LeavesFiles, "success" \in {"success", "param", "memory", "drive_rw"}
   DEF ReadPastEnd, Reading, disk

LEMMA DiskReadInv ==
  ASSUME NEW r \in Requests
  PROVE  DiskInv /\ DiskRead(r.begin, r.num) => DiskInv'
<1> SUFFICES ASSUME DiskInv, DiskRead(r.begin, r.num)
             PROVE  DiskInv'
  OBVIOUS
<1> DEFINE k == KindOf(r.begin)
           first == Position(r.begin)
           from == FileAt(first)
           last == FileAt(first + r.num - 1)
           end == IF last <= num[k] THEN last ELSE num[k]
<1>1. /\ DiskTypes /\ from <= num[k] /\ UNCHANGED <<slot, num, open>>
      /\ SeekTo(k, from, end, Visible(k, end))
      /\ fst' = [fst EXCEPT ![k] = [i \in Numbers |-> IF i \in from .. end THEN "success" ELSE @[i]]]
      /\ Return("success") \/ Return("param")
  BY DEF DiskInv, DiskRead, Reading
<1>2. k \in Kinds /\ from \in Nat \ {0} /\ from <= last /\ last \in Numbers
  BY RequestFits
<1>3. end \in Numbers
  <2>1. num[k] \in 0 .. MaxFiles /\ MaxFiles \in Nat
    BY <1>1, <1>2, ChunkSize DEF DiskTypes
  <2> HIDE DEF k, from, last
  <2> QED
    BY <1>1, <1>2, <2>1 DEF Numbers
<1> HIDE DEF k, from, end, last
<1>4. Visible(k, end) \in Contents
  BY <1>1, <1>2, <1>3, VisibleIs
<1>5. fst' \in [Kinds -> [Numbers -> {"success", "memory", "drive_rw"}]]
  BY <1>1 DEF DiskTypes
<1>6. /\ pc' \in {"idle", "wild"} /\ status' \in {"success", "param", "memory", "drive_rw"}
      /\ call' \in [kind : Kinds, first : Nat, data : Seq(Data), done : Nat]
      /\ todo' \in Seq(Kinds \X Numbers) /\ CallFits'
  BY <1>1, CallEnds
<1> QED
  BY <1>1, <1>2, <1>4, <1>5, <1>6, SoughtInv

\* The file that a failing read gets to.
LEMMA ReadFailsAt ==
  ASSUME DiskInv, NEW r \in Requests, DiskReadFails(r.begin, r.num)
  PROVE  \E k \in Kinds : \E i \in 1 .. num[k], from \in Nat \ {0}, w \in Writes :
           /\ i \in Numbers /\ from <= i /\ \A j \in from .. i : slot[k][j] = "open"
           /\ ReturnError(i) /\ UNCHANGED <<slot, num, open>> /\ open /\ pc = "idle"
           /\ SeekTo(k, from, i, Written(file[k][i], w))
           /\ w \in Prefixes(pending[k][i]) \/ w = pending[k][i]
           /\ file[k][i] \in Contents
           /\ fst' \in [Kinds -> [Numbers -> {"success", "memory", "drive_rw"}]]
           /\ "io" \notin Faults => w = pending[k][i] /\ ~Long(k, i, Position(r.begin), r.num)
<1> DEFINE k == KindOf(r.begin)
           from == FileAt(Position(r.begin))
           last == FileAt(Position(r.begin) + r.num - 1)
<1>1. DiskTypes /\ OpenAreFiles /\ UNCHANGED <<num, open>> /\ open /\ pc = "idle"
  BY DEF DiskInv, DiskReadFails, Reading
<1>2. k \in Kinds /\ from \in Nat \ {0} /\ from <= last /\ last \in Numbers
  BY RequestFits
<1>3. PICK i \in from .. last :
        /\ i <= num[k] /\ \A j \in from .. i : slot[k][j] = "open"
        /\ "io" \in Faults \/ ~Long(k, i, Position(r.begin), r.num)
        /\ \E failed \in {"seek", "read"} :
             /\ \/ /\ "io" \in Faults
                   /\ \E w \in Prefixes(pending[k][i]) : SeekTo(k, from, i, Written(file[k][i], w))
                \/ SeekTo(k, from, i, Visible(k, i))
             /\ fst' = [fst EXCEPT ![k] = [j \in Numbers |->
                          IF j \in from .. i - 1 THEN "success"
                          ELSE IF j = i /\ failed = "read" THEN "drive_rw" ELSE @[j]]]
        /\ UNCHANGED slot /\ ReturnError(i)
  BY DEF DiskReadFails
<1> HIDE DEF k, from, last
<1>4. i \in Numbers /\ i \in from .. i /\ from <= i /\ num[k] \in Nat /\ i \in 1 .. num[k]
  BY <1>1, <1>2, <1>3, ChunkSize DEF Numbers, DiskTypes
<1>5. file[k][i] \in Contents /\ pending[k][i] \in Writes /\ file[k][i] # NoFile
  BY <1>1, <1>2, <1>3, <1>4 DEF OpenAreFiles, DiskTypes
<1>6. PICK w \in Writes :
        /\ SeekTo(k, from, i, Written(file[k][i], w))
        /\ w \in Prefixes(pending[k][i]) \/ w = pending[k][i]
        /\ "io" \notin Faults => w = pending[k][i]
  <2>1. CASE "io" \in Faults /\ \E w \in Prefixes(pending[k][i]) : SeekTo(k, from, i, Written(file[k][i], w))
    BY <1>5, <2>1, PrefixFits
  <2>2. CASE SeekTo(k, from, i, Visible(k, i))
    <3>1. Visible(k, i) = Written(file[k][i], pending[k][i])
      BY <1>5 DEF Visible
    <3> QED
      BY <1>5, <2>2, <3>1
  <2> QED
    BY <1>3, <2>1, <2>2
<1>7. fst' \in [Kinds -> [Numbers -> {"success", "memory", "drive_rw"}]]
  BY <1>1, <1>2, <1>3 DEF DiskTypes
<1> QED
  BY <1>1, <1>2, <1>3, <1>4, <1>5, <1>6, <1>7

LEMMA DiskReadFailsInv ==
  ASSUME NEW r \in Requests
  PROVE  DiskInv /\ DiskReadFails(r.begin, r.num) => DiskInv'
<1> SUFFICES ASSUME DiskInv, DiskReadFails(r.begin, r.num)
             PROVE  DiskInv'
  OBVIOUS
<1>1. DiskTypes /\ OpenAreFiles
  BY DEF DiskInv
<1>2. PICK k \in Kinds : \E i \in 1 .. num[k], from \in Nat \ {0}, w \in Writes :
        /\ ReturnError(i) /\ UNCHANGED <<slot, num, open>>
        /\ SeekTo(k, from, i, Written(file[k][i], w)) /\ file[k][i] \in Contents
        /\ fst' \in [Kinds -> [Numbers -> {"success", "memory", "drive_rw"}]]
  BY ReadFailsAt
<1>3. PICK i \in 1 .. num[k], from \in Nat \ {0}, w \in Writes :
        /\ ReturnError(i) /\ UNCHANGED <<slot, num, open>>
        /\ SeekTo(k, from, i, Written(file[k][i], w)) /\ file[k][i] \in Contents
        /\ fst' \in [Kinds -> [Numbers -> {"success", "memory", "drive_rw"}]]
  BY <1>2
<1>4. Written(file[k][i], w) \in Contents
  BY <1>3, WrittenIs
<1>5. /\ pc' \in {"idle", "wild"} /\ status' \in {"success", "param", "memory", "drive_rw"}
      /\ call' \in [kind : Kinds, first : Nat, data : Seq(Data), done : Nat]
      /\ todo' \in Seq(Kinds \X Numbers) /\ CallFits'
  BY <1>1, <1>3, ErrorEnds
<1> QED
  BY <1>3, <1>4, <1>5, SoughtInv

LEMMA DiskReadWildInv ==
  ASSUME NEW r \in Requests
  PROVE  DiskInv /\ DiskReadWild(r.begin, r.num) => DiskInv'
BY LeavesFiles, "success" \in {"success", "param", "memory", "drive_rw"}
   DEF DiskReadWild, Reading, disk

\* When the buffers are written out and no call is in progress.
LEMMA WriteOutInv ==
  ASSUME DiskInv, NEW cut, cut \in Cuts \/ cut = Buffered, WriteOut(cut),
         UNCHANGED <<slot, fst, num>>, open' \in BOOLEAN, pc' \in {"idle", "wild"},
         status' \in {"success", "param", "memory", "drive_rw"}, call' = NoCall, todo' = <<>>
  PROVE  DiskInv'
<1>1. DiskTypes /\ OpenAreFiles
  BY DEF DiskInv
<1>2. \A k \in Kinds, i \in Numbers : cut[k][i] \in 0 .. Len(pending[k][i].data)
  BY <1>1, CutsFit
<1>3. /\ file' \in [Kinds -> [Numbers -> Contents \cup {NoFile}]]
      /\ pending' \in [Kinds -> [Numbers -> Writes]]
      /\ \A k \in Kinds, i \in Numbers : file[k][i] # NoFile => file'[k][i] # NoFile
  BY <1>1, <1>2, WrittenOut
<1>4. OpenAreFiles'
  BY <1>1, <1>3 DEF OpenAreFiles
<1>5. DiskTypes'
  BY <1>1, <1>3, NoCallTyped DEF DiskTypes
<1>6. CallFits'
  BY DEF CallFits
<1> QED
  BY <1>4, <1>5, <1>6 DEF DiskInv

LEMMA DiskCloseInv == DiskInv /\ DiskClose => DiskInv'
<1> SUFFICES ASSUME DiskInv, DiskClose
             PROVE  DiskInv'
  OBVIOUS
<1>1. /\ pc = "idle" /\ UNCHANGED <<slot, fst, num>> /\ DiskTypes /\ call = NoCall /\ todo = <<>>
  BY DEF DiskInv, DiskClose, CallFits, handle
<1>2. CASE GoWild /\ UNCHANGED <<disk, open>>
  BY <1>1, <1>2, LeavesFiles, "success" \in {"success", "param", "memory", "drive_rw"} DEF disk
<1>3. CASE /\ open' = FALSE /\ UNCHANGED <<status, pc, call, todo>>
           /\ \E cut \in IF "io" \in Faults THEN Cuts ELSE {Buffered} : WriteOut(cut)
  <2>1. PICK cut : (cut \in Cuts \/ cut = Buffered) /\ WriteOut(cut)
    BY <1>3
  <2> QED
    BY <1>1, <1>3, <2>1, WriteOutInv DEF DiskTypes
<1> QED
  BY <1>2, <1>3 DEF DiskClose

LEMMA DiskCrashInv == DiskInv /\ DiskCrash => DiskInv'
<1> SUFFICES ASSUME DiskInv, DiskCrash
             PROVE  DiskInv'
  OBVIOUS
<1>1. PICK cut \in Cuts : WriteOut(cut)
  BY DEF DiskCrash
<1>2. /\ UNCHANGED <<slot, fst, num>> /\ open' = FALSE /\ pc' = "idle" /\ status' = "success"
      /\ call' = NoCall /\ todo' = <<>>
  BY DEF DiskCrash, Return, handle
<1> QED
  BY <1>1, <1>2, WriteOutInv

LEMMA DiskInvNext == DiskInv /\ [DiskNext]_vars => DiskInv'
<1> SUFFICES ASSUME DiskInv, [DiskNext]_vars
             PROVE  DiskInv'
  OBVIOUS
<1>1. CASE UNCHANGED vars
  BY <1>1 DEF DiskInv, DiskTypes, OpenAreFiles, CallFits, vars
<1>2. CASE DiskCrash
  BY <1>2, DiskCrashInv
<1>3. CASE WriteStep
  BY <1>3, OpenedInv, OpenFileInv, RewindInv, OpenFileFailsInv, FillFailsInv, TransferInv,
     TransferFailsInv, TransferWildInv DEF WriteStep
<1>4. CASE DiskCall
  <2>1. CASE DiskOpen
    BY <2>1, OpenInv
  <2>2. CASE DiskClose
    BY <2>2, DiskCloseInv
  <2>3. ASSUME NEW r \in Requests, NEW v \in Data, DiskWrite(r.begin, [s \in 1 .. r.num |-> v])
        PROVE  DiskInv'
    BY <2>3, WriteInv
  <2>4. ASSUME NEW r \in Requests,
               \/ ReadPastEnd(r.begin, r.num) \/ DiskRead(r.begin, r.num)
               \/ DiskReadFails(r.begin, r.num) \/ DiskReadWild(r.begin, r.num)
        PROVE  DiskInv'
    BY <2>4, ReadPastEndInv, DiskReadInv, DiskReadFailsInv, DiskReadWildInv
  <2> QED
    BY <1>4, <2>1, <2>2, <2>3, <2>4 DEF DiskCall
<1> QED
  BY <1>1, <1>2, <1>3, <1>4 DEF DiskNext

LEMMA DiskInvHolds == DiskSpec => []DiskInv
<1>1. DiskInit => DiskInv
  BY DiskInvInit
<1> QED
  BY <1>1, DiskInvNext, PTL DEF DiskSpec

AskedType == asked.op \in {"none", "read", "write"}

\* Every file stays a sequence of at most a chunk of sectors, every write that waits in
\* a buffer stays inside its file, and no array of files gets longer than the requests
\* ask for, whatever fails and wherever the process dies.
THEOREM DiskTypesHold == DiskSpec => []DiskTypeOK
<1>1. DiskInv /\ AskedType => DiskTypeOK
  <2> SUFFICES ASSUME DiskTypes, AskedType
               PROVE  DiskTypeOK
    BY DEF DiskInv
  <2>1. \A k \in Kinds, i \in Numbers :
          pending[k][i].data \in Contents /\ pending[k][i].at + Len(pending[k][i].data) <= ChunkSectors
    BY DEF DiskTypes, Writes
  <2> QED
    BY <2>1 DEF DiskTypes, DiskTypeOK, AskedType
<1>2. DiskInit => AskedType
  BY DEF DiskInit, AskedType, NoRequest
<1>3. AskedType /\ [DiskNext]_vars => AskedType'
  <2> SUFFICES ASSUME AskedType, [DiskNext]_vars
               PROVE  AskedType'
    OBVIOUS
  <2>1. CASE asked' = NoRequest \/ asked' = asked
    BY <2>1 DEF AskedType, NoRequest
  <2>2. CASE DiskCall
    <3>1. ASSUME NEW r \in Requests, NEW d,
                 Asks("write", r.begin, r.num, d) \/ Asks("read", r.begin, r.num, d)
          PROVE  AskedType'
      BY <3>1 DEF AskedType, Asks
    <3> QED
      BY <2>1, <2>2, <3>1 DEF DiskCall
  <2> QED
    BY <2>1, <2>2 DEF DiskNext, WriteStep, vars
<1> QED
  BY <1>1, <1>2, <1>3, DiskInvHolds, PTL DEF DiskSpec

-----------------------------------------------------------------------------
(***************************************************************************)
(* Without a failure in the creation of a file.                            *)
(***************************************************************************)
NoGrowFault == Faults \subseteq {"io"}

LEMMA GrowInvInit == DiskInit => GrowInv
<1> SUFFICES ASSUME DiskInit
             PROVE  GrowInv
  OBVIOUS
<1>1. SlotsOpen
  BY DEF SlotsOpen, DiskInit, Creating
<1>2. InTurn
  BY DEF InTurn, DiskInit, Kinds, Numbers
<1> QED
  BY <1>1, <1>2, DiskInvInit DEF GrowInv

\* A step that creates no file and is in no creation of files keeps what there is.
LEMMA SameFiles ==
  ASSUME GrowInv, DiskInv', ~Creating, pc' \notin {"create", "rewind"}, todo' = <<>>,
         open' => open, UNCHANGED num,
         \A k \in Kinds, i \in Numbers : file'[k][i] # NoFile <=> file[k][i] # NoFile,
         \A k \in Kinds, i \in Numbers : slot[k][i] = "open" => slot'[k][i] = "open"
  PROVE  GrowInv'
<1>1. DiskTypes /\ CallFits /\ SlotsOpen /\ InTurn
  BY DEF GrowInv, DiskInv
<1>2. SlotsOpen'
  <2>1. ASSUME open, NEW k \in Kinds, NEW i \in 1 .. num[k]
        PROVE  slot[k][i] = "open"
    <3>1. todo = <<>>
      BY <1>1, <2>1 DEF CallFits, Creating, DiskTypes
    <3> QED
      BY <1>1, <2>1, <3>1 DEF SlotsOpen, Planned
  <2>2. \A k \in Kinds : \A i \in 1 .. num[k] : i \in Numbers
    BY <1>1, ChunkSize DEF DiskTypes, Numbers
  <2> QED
    BY <1>1, <2>1, <2>2 DEF SlotsOpen, Creating
<1>3. InTurn'
  <2>1. \A k \in Kinds, i \in Numbers : i > 1 => i - 1 \in Numbers
    BY ChunkSize DEF Numbers
  <2> QED
    BY <1>1, <2>1 DEF InTurn
<1> QED
  BY <1>2, <1>3 DEF GrowInv

\* When no call creates files, the slots that count are open.
LEMMA SlotIsOpen ==
  ASSUME GrowInv, open, ~Creating, NEW k \in Kinds, NEW i \in 1 .. num[k]
  PROVE  i \in Numbers /\ slot[k][i] = "open" /\ file[k][i] # NoFile
<1>1. DiskTypes /\ CallFits /\ SlotsOpen /\ OpenAreFiles
  BY DEF GrowInv, DiskInv
<1>2. todo = <<>>
  BY <1>1 DEF CallFits, Creating, DiskTypes
<1>3. slot[k][i] = "open"
  BY <1>1, <1>2 DEF SlotsOpen, Planned
<1>4. i \in Numbers
  BY <1>1, ChunkSize DEF DiskTypes, Numbers
<1> QED
  BY <1>1, <1>3, <1>4 DEF OpenAreFiles

\* A file of the kind that a call creates, once it is there.
LEMMA TailInTurn ==
  ASSUME DiskTypes, InTurn, todo # <<>>, file'[todo[1][1]][todo[1][2]] # NoFile,
         \A k \in Kinds, i \in Numbers : file[k][i] # NoFile => file'[k][i] # NoFile,
         todo' = Tail(todo), NEW n \in 1 .. Len(todo')
  PROVE  \/ todo'[n][2] = 1
         \/ file'[todo'[n][1]][todo'[n][2] - 1] # NoFile
         \/ n > 1 /\ todo'[n - 1] = <<todo'[n][1], todo'[n][2] - 1>>
<1>1. todo \in Seq(Kinds \X Numbers)
  BY DEF DiskTypes
<1>2. /\ n + 1 \in 1 .. Len(todo) /\ todo'[n] = todo[n + 1] /\ todo[n + 1] \in Kinds \X Numbers
      /\ n > 1 => todo'[n - 1] = todo[n]
  BY <1>1
<1> DEFINE k == todo[n + 1][1]
           i == todo[n + 1][2]
<1>3. \/ i = 1
      \/ file[k][i - 1] # NoFile
      \/ todo[n] = <<k, i - 1>>
  <2>1. n + 1 - 1 = n
    BY <1>2
  <2> QED
    BY <1>2, <2>1 DEF InTurn
<1>4. k \in Kinds /\ i \in Numbers
  BY <1>2
<1> HIDE DEF k, i
<1>5. i # 1 => i - 1 \in Numbers
  BY <1>4, ChunkSize DEF Numbers
<1>6. CASE i # 1 /\ file[k][i - 1] # NoFile
  BY <1>2, <1>4, <1>5, <1>6 DEF k, i
<1>7. CASE i # 1 /\ todo[n] = <<k, i - 1>>
  <2>1. CASE n = 1
    BY <1>2, <1>7, <2>1 DEF k, i
  <2>2. CASE n > 1
    BY <1>2, <1>7, <2>2 DEF k, i
  <2> QED
    BY <1>2, <2>1, <2>2
<1> QED
  BY <1>2, <1>3, <1>6, <1>7 DEF k, i

\* What a call has planned, but for the first file, it still has planned after that.
LEMMA TailPlanned ==
  ASSUME DiskTypes, todo # <<>>, todo' = Tail(todo), NEW k, NEW i, Planned(k, i),
         todo[1] # <<k, i>>
  PROVE  Planned(k, i)'
<1>1. todo \in Seq(Kinds \X Numbers)
  BY DEF DiskTypes
<1>2. PICK n \in 1 .. Len(todo) : todo[n] = <<k, i>>
  BY DEF Planned
<1>3. n - 1 \in 1 .. Len(todo') /\ todo'[n - 1] = todo[n]
  BY <1>1, <1>2
<1> QED
  BY <1>2, <1>3 DEF Planned

\* A file that is there has all those before it.
LEMMA NoneMissing ==
  ASSUME InTurn, NEW k \in Kinds, NEW i \in Numbers, file[k][i] # NoFile
  PROVE  i <= Counted(k)
<1> DEFINE T == {d \in 0 .. i - 1 : file[k][i - d] = NoFile}
<1>1. i \in Nat \ {0}
  BY ChunkSize DEF Numbers
<1>2. T = {}
  <2> SUFFICES ASSUME T # {}
               PROVE  FALSE
    OBVIOUS
  <2>1. T \in SUBSET Nat
    BY <1>1
  <2>2. PICK d \in T : \A e \in T : d <= e
    <3> HIDE DEF T
    <3> QED
      BY <2>1, LeastOf
  <2>3. d \in 0 .. i - 1 /\ file[k][i - d] = NoFile
    BY <2>2
  <2>4. d # 0
    BY <1>1, <2>3
  <2>5. d - 1 \in 0 .. i - 1 /\ ~(d <= d - 1) /\ i - (d - 1) = i - d + 1
    BY <1>1, <2>3, <2>4
  <2>6. i - d \in Numbers /\ i - d + 1 \in Numbers /\ i - d + 1 > 1 /\ (i - d + 1) - 1 = i - d
    BY <1>1, <2>3, <2>4, ChunkSize DEF Numbers
  <2>7. file[k][i - d + 1] = NoFile
    BY <2>3, <2>6 DEF InTurn
  <2>8. d - 1 \in T
    BY <2>5, <2>7
  <2> QED
    BY <2>2, <2>5, <2>8
<1>3. ASSUME NEW j \in 1 .. i
      PROVE  file[k][j] # NoFile
  <2>1. i - j \in 0 .. i - 1 /\ i - (i - j) = j
    BY <1>1
  <2> QED
    BY <1>2, <2>1
<1> QED
  BY <1>3, CountedIs

LEMMA GrowOpen ==
  ASSUME NoGrowFault
  PROVE  GrowInv /\ DiskOpen => GrowInv'
<1> SUFFICES ASSUME GrowInv, DiskOpen
             PROVE  GrowInv'
  OBVIOUS
<1>1. /\ DiskTypes /\ InTurn /\ DiskInv' /\ UNCHANGED file /\ pc' = "create"
      /\ num' = [k \in Kinds |-> IF Counted(k) = 0 THEN 1 ELSE Counted(k)]
      /\ todo' = AllFiles("index", num'["index"]) \o AllFiles("meta", num'["meta"])
  BY OpenInv DEF GrowInv, DiskInv, DiskOpen, NoGrowFault, disk
<1> DEFINE s == AllFiles("index", num'["index"])
           t == AllFiles("meta", num'["meta"])
           m == num'["index"]
           n == num'["meta"]
<1>2. m \in 1 .. MaxFiles /\ n \in 1 .. MaxFiles /\ "index" \in Kinds /\ "meta" \in Kinds
  <2>1. \A k \in Kinds : Counted(k) \in 0 .. MaxFiles
    BY CountedIs
  <2> QED
    BY <1>1, <2>1, ChunkSize DEF Kinds
<1>3. /\ s \in Seq(Kinds \X Numbers) /\ Len(s) = m /\ \A i \in 1 .. m : s[i] = <<"index", i>>
      /\ t \in Seq(Kinds \X Numbers) /\ Len(t) = n /\ \A i \in 1 .. n : t[i] = <<"meta", i>>
  <2>1. m \in 0 .. MaxFiles /\ n \in 0 .. MaxFiles
    BY <1>2
  <2> QED
    BY <1>2, <2>1, AllFilesAre
<1>4. todo' = s \o t
  BY <1>1
<1> HIDE DEF s, t, m, n
<1>5. /\ m \in Nat \ {0} /\ n \in Nat \ {0} /\ Len(todo') = m + n
      /\ \A i \in 1 .. m : todo'[i] = <<"index", i>>
      /\ \A i \in 1 .. n : todo'[m + i] = <<"meta", i>>
  <2>1. m \in Nat \ {0} /\ n \in Nat \ {0}
    BY <1>2, ChunkSize
  <2>2. \A i \in 1 .. n : m + i \in 1 .. m + n /\ ~(m + i <= m) /\ (m + i) - m = i
    BY <2>1
  <2>3. \A i \in 1 .. m : i \in 1 .. m + n /\ i <= m
    BY <2>1
  <2>4. /\ Len(s \o t) = m + n
        /\ \A i \in 1 .. m + n : (s \o t)[i] = IF i <= m THEN s[i] ELSE t[i - m]
    BY <1>3, ConcatProperties
  <2> QED
    BY <1>3, <1>4, <2>1, <2>2, <2>3, <2>4
<1>6. ASSUME NEW i \in 1 .. Len(todo')
      PROVE  i \in 1 .. m \/ (i - m \in 1 .. n /\ i = m + (i - m))
  BY <1>5
<1>7. SlotsOpen'
  <2>1. ASSUME NEW i \in 1 .. m
        PROVE  Planned("index", i)'
    <3>1. i \in 1 .. Len(todo')
      BY <1>5
    <3> QED
      BY <1>5, <3>1 DEF Planned
  <2>2. ASSUME NEW i \in 1 .. n
        PROVE  Planned("meta", i)'
    <3>1. m + i \in 1 .. Len(todo')
      BY <1>5
    <3> QED
      BY <1>5, <3>1 DEF Planned
  <2>3. \A k \in Kinds : num'[k] >= 1 /\ \A i \in 1 .. num'[k] : Planned(k, i)'
    BY <1>2, <2>1, <2>2 DEF Kinds, m, n
  <2> QED
    BY <1>1, <2>3 DEF SlotsOpen
<1>8. InTurn'
  <2>1. ASSUME NEW i \in 1 .. Len(todo'), todo'[i][2] # 1
        PROVE  i > 1 /\ todo'[i - 1] = <<todo'[i][1], todo'[i][2] - 1>>
    <3>1. CASE i \in 1 .. m
      <4>1. todo'[i] = <<"index", i>> /\ i # 1
        BY <1>5, <2>1, <3>1
      <4>2. i - 1 \in 1 .. m /\ i > 1
        BY <1>5, <3>1, <4>1
      <4> QED
        BY <1>5, <4>1, <4>2
    <3>2. CASE i - m \in 1 .. n /\ i = m + (i - m)
      <4>1. todo'[i] = <<"meta", i - m>> /\ i - m # 1
        BY <1>5, <2>1, <3>2
      <4>2. i - m - 1 \in 1 .. n /\ i > 1 /\ i - 1 = m + (i - m - 1)
        BY <1>5, <3>2, <4>1
      <4>3. todo'[m + (i - m - 1)] = <<"meta", i - m - 1>>
        BY <1>5, <4>2
      <4> QED
        BY <4>1, <4>2, <4>3
    <3> QED
      BY <1>6, <3>1, <3>2
  <2> QED
    BY <1>1, <2>1 DEF InTurn
<1> QED
  BY <1>1, <1>7, <1>8 DEF GrowInv

LEMMA GrowOpened == GrowInv /\ Opened => GrowInv'
<1> SUFFICES ASSUME GrowInv, Opened
             PROVE  GrowInv'
  OBVIOUS
<1>1. /\ DiskTypes /\ CallFits /\ InTurn /\ SlotsOpen /\ DiskInv' /\ pc = "create" /\ todo = <<>>
      /\ UNCHANGED <<file, slot, num>> /\ pc' \in {"idle", "transfer"} /\ todo' = <<>>
  BY OpenedInv DEF GrowInv, DiskInv, Opened, Return, disk, handle
<1>2. SlotsOpen'
  BY <1>1 DEF SlotsOpen, Creating, Planned
<1>3. InTurn'
  BY <1>1 DEF InTurn
<1> QED
  BY <1>1, <1>2, <1>3 DEF GrowInv

LEMMA GrowOpenFile == GrowInv /\ OpenFile => GrowInv'
<1> SUFFICES ASSUME GrowInv, OpenFile
             PROVE  GrowInv'
  OBVIOUS
<1>1. /\ DiskTypes /\ CallFits /\ InTurn /\ SlotsOpen /\ DiskInv' /\ pc = "create" /\ todo # <<>>
      /\ UNCHANGED <<num, open, call>>
  BY OpenFileInv DEF GrowInv, DiskInv, OpenFile
<1> DEFINE k == todo[1][1]
           i == todo[1][2]
<1>2. todo \in Seq(Kinds \X Numbers) /\ todo[1] \in Kinds \X Numbers /\ todo[1] = <<k, i>>
        /\ k \in Kinds /\ i \in Numbers /\ 1 \in 1 .. Len(todo)
  BY <1>1 DEF DiskTypes
<1>3. /\ SetSlot(k, i, "open", "success")
      /\ \/ /\ file[k][i] = NoFile /\ SetFile(k, i, <<>>, [at |-> 0, data |-> Zeros(ChunkSectors)])
            /\ pc' = "rewind" /\ UNCHANGED todo
         \/ file[k][i] # NoFile /\ UNCHANGED <<file, pending, pc>> /\ todo' = Tail(todo)
  BY DEF OpenFile
<1> HIDE DEF k, i
<1>4. /\ slot'[k][i] = "open"
      /\ \A l \in Kinds, j \in Numbers : l # k \/ j # i => slot'[l][j] = slot[l][j]
  BY <1>1, <1>2, <1>3, SlotSet
<1>5. /\ file'[k][i] # NoFile
      /\ \A l \in Kinds, j \in Numbers : file[l][j] # NoFile => file'[l][j] # NoFile
      /\ \A l \in Kinds, j \in Numbers : l # k \/ j # i => file'[l][j] = file[l][j]
  <2>1. [at |-> 0, data |-> Zeros(ChunkSectors)] \in Writes
    BY ZerosFit
  <2> QED
    BY <1>1, <1>2, <1>3, <2>1, EmptyFits, FileSet
<1>6. ASSUME NEW l \in Kinds, NEW j \in Numbers, slot[l][j] = "open" \/ Planned(l, j)
      PROVE  slot'[l][j] = "open" \/ Planned(l, j)'
  <2>1. CASE l = k /\ j = i
    BY <1>4, <2>1
  <2>2. CASE (l # k \/ j # i) /\ Planned(l, j)
    <3>1. CASE UNCHANGED todo
      BY <2>2, <3>1 DEF Planned
    <3>2. CASE todo' = Tail(todo)
      BY <1>1, <1>2, <2>2, <3>2, TailPlanned
    <3> QED
      BY <1>3, <3>1, <3>2
  <2>3. CASE (l # k \/ j # i) /\ slot[l][j] = "open"
    BY <1>4, <2>3
  <2> QED
    BY <1>6, <2>1, <2>2, <2>3
<1>7. SlotsOpen'
  <2>1. \A l \in Kinds : num[l] >= 1 /\ \A j \in 1 .. num[l] : slot[l][j] = "open" \/ Planned(l, j)
    BY <1>1 DEF SlotsOpen, Creating
  <2>2. \A l \in Kinds : \A j \in 1 .. num[l] : j \in Numbers
    BY <1>1, ChunkSize DEF DiskTypes, Numbers
  <2>3. \A l \in Kinds : num'[l] >= 1 /\ \A j \in 1 .. num'[l] : slot'[l][j] = "open" \/ Planned(l, j)'
    BY <1>1, <1>6, <2>1, <2>2
  <2>4. pc' = "rewind" => slot'[todo'[1][1]][todo'[1][2]] = "open"
    BY <1>1, <1>3, <1>4 DEF k, i
  <2> QED
    BY <2>3, <2>4 DEF SlotsOpen
<1>8. InTurn'
  <2>1. i > 1 => i - 1 \in Numbers /\ file[k][i - 1] # NoFile
    <3>1. i > 1 => file[k][i - 1] # NoFile
      BY <1>1, <1>2 DEF InTurn, k, i
    <3> QED
      BY <1>2, <3>1, ChunkSize DEF Numbers
  <2>2. ASSUME NEW l \in Kinds, NEW j \in Numbers, j > 1, file'[l][j] # NoFile
        PROVE  file'[l][j - 1] # NoFile
    <3>1. j - 1 \in Numbers
      BY <2>2, ChunkSize DEF Numbers
    <3>2. CASE l = k /\ j = i
      BY <1>5, <2>1, <2>2, <3>2
    <3>3. CASE l # k \/ j # i
      BY <1>1, <1>5, <2>2, <3>1, <3>3 DEF InTurn
    <3> QED
      BY <3>2, <3>3
  <2>3. ASSUME NEW n \in 1 .. Len(todo')
        PROVE  \/ todo'[n][2] = 1
               \/ file'[todo'[n][1]][todo'[n][2] - 1] # NoFile
               \/ n > 1 /\ todo'[n - 1] = <<todo'[n][1], todo'[n][2] - 1>>
    <3>1. CASE todo' = Tail(todo)
      BY <1>1, <1>2, <1>5, <2>3, <3>1, TailInTurn DEF k, i
    <3>2. CASE UNCHANGED todo
      <4>1. todo[n] \in Kinds \X Numbers /\ n \in 1 .. Len(todo)
        BY <1>2, <2>3, <3>2
      <4>2. todo[n][2] # 1 => todo[n][2] - 1 \in Numbers
        BY <4>1, ChunkSize DEF Numbers
      <4>3. \/ todo[n][2] = 1
            \/ file[todo[n][1]][todo[n][2] - 1] # NoFile
            \/ n > 1 /\ todo[n - 1] = <<todo[n][1], todo[n][2] - 1>>
        BY <1>1, <4>1 DEF InTurn
      <4> QED
        BY <1>5, <3>2, <4>1, <4>2, <4>3
    <3> QED
      BY <1>3, <3>1, <3>2
  <2> QED
    BY <2>2, <2>3 DEF InTurn
<1> QED
  BY <1>1, <1>7, <1>8 DEF GrowInv

LEMMA GrowRewind == GrowInv /\ Rewind => GrowInv'
<1> SUFFICES ASSUME GrowInv, Rewind
             PROVE  GrowInv'
  OBVIOUS
<1>1. /\ DiskTypes /\ CallFits /\ InTurn /\ SlotsOpen /\ DiskInv' /\ pc = "rewind" /\ todo # <<>>
      /\ UNCHANGED <<num, open, slot>> /\ pc' = "create" /\ todo' = Tail(todo)
  BY RewindInv DEF GrowInv, DiskInv, Rewind, CallFits, handle
<1> DEFINE k == todo[1][1]
           i == todo[1][2]
<1>2. todo \in Seq(Kinds \X Numbers) /\ todo[1] \in Kinds \X Numbers /\ todo[1] = <<k, i>>
        /\ k \in Kinds /\ i \in Numbers
  BY <1>1 DEF DiskTypes
<1>3. SetFile(k, i, Visible(k, i), NoWrite) /\ slot[k][i] = "open"
  BY <1>1 DEF Rewind, SlotsOpen
<1> HIDE DEF k, i
<1>4. file[k][i] # NoFile
  BY <1>2, <1>3 DEF GrowInv, DiskInv, OpenAreFiles
<1>5. /\ file'[k][i] # NoFile
      /\ \A l \in Kinds, j \in Numbers : file[l][j] # NoFile <=> file'[l][j] # NoFile
  BY <1>1, <1>2, <1>3, <1>4, VisibleIs, NoWriteFits, FileSet
<1>6. SlotsOpen'
  <2>1. ASSUME NEW l \in Kinds, NEW j \in 1 .. num[l]
        PROVE  slot[l][j] = "open" \/ Planned(l, j)'
    <3>1. slot[l][j] = "open" \/ Planned(l, j)
      BY <1>1, <2>1 DEF SlotsOpen, Creating
    <3>2. todo[1] = <<l, j>> => slot[l][j] = "open"
      BY <1>2, <1>3
    <3> QED
      BY <1>1, <3>1, <3>2, TailPlanned
  <2> QED
    BY <1>1, <2>1 DEF SlotsOpen, Creating
<1>7. InTurn'
  <2>1. \A l \in Kinds, j \in Numbers : j > 1 => j - 1 \in Numbers
    BY ChunkSize DEF Numbers
  <2>2. \A l \in Kinds, j \in Numbers : j > 1 /\ file'[l][j] # NoFile => file'[l][j - 1] # NoFile
    BY <1>1, <1>5, <2>1 DEF InTurn
  <2>3. \A n \in 1 .. Len(todo') :
               \/ todo'[n][2] = 1
               \/ file'[todo'[n][1]][todo'[n][2] - 1] # NoFile
               \/ n > 1 /\ todo'[n - 1] = <<todo'[n][1], todo'[n][2] - 1>>
    BY <1>1, <1>5, TailInTurn DEF k, i
  <2> QED
    BY <2>2, <2>3 DEF InTurn
<1> QED
  BY <1>1, <1>6, <1>7 DEF GrowInv

LEMMA GrowWrite ==
  ASSUME NEW r \in Requests, NEW v \in Data, NoGrowFault
  PROVE  GrowInv /\ DiskWrite(r.begin, [s \in 1 .. r.num |-> v]) => GrowInv'
<1> DEFINE data == [s \in 1 .. r.num |-> v]
<1> SUFFICES ASSUME GrowInv, DiskWrite(r.begin, data)
             PROVE  GrowInv'
  OBVIOUS
<1>1. /\ DiskTypes /\ InTurn /\ SlotsOpen /\ DiskInv' /\ pc = "idle" /\ open
      /\ UNCHANGED <<file, pending, open>>
  BY WriteInv DEF GrowInv, DiskInv, DiskWrite, disk
<1> DEFINE k == KindOf(r.begin)
           reqfile == FileAt(Position(r.begin) + Len(data) - 1)
<1>2. /\ num' = [num EXCEPT ![k] = IF reqfile > @ THEN reqfile ELSE @]
      /\ slot' = [slot EXCEPT ![k] = [i \in Numbers |-> IF i > num[k] THEN "garbage" ELSE @[i]]]
      /\ todo' = NewFiles(k, num'[k]) /\ pc' = "create"
  BY DEF DiskWrite, NoGrowFault
<1>3. k \in Kinds
  BY RequestFits
<1>4. num[k] \in 0 .. MaxFiles /\ MaxFiles \in Nat /\ DiskTypes'
  BY <1>1, <1>3, ChunkSize DEF DiskTypes, DiskInv
<1> HIDE DEF data, k, reqfile
<1>5. PICK n \in 0 .. MaxFiles : n = num'[k]
  BY <1>3, <1>4 DEF DiskTypes
<1>6. num[k] <= n
  <2>1. \E x : num' = [num EXCEPT ![k] = x] /\ (x = num[k] \/ x > num[k])
    BY <1>2
  <2>2. n = num[k] \/ n > num[k]
    BY <1>1, <1>3, <1>5, <2>1 DEF DiskTypes
  <2> QED
    BY <1>4, <1>5, <2>2
<1>7. /\ Len(todo') = n - num[k] /\ todo' \in Seq(Kinds \X Numbers)
      /\ \A f \in 1 .. n - num[k] : todo'[f] = <<k, num[k] + f>>
  BY <1>1, <1>2, <1>3, <1>5, <1>6, NewFilesAre
<1>8. \A l \in Kinds : l # k => num'[l] = num[l] /\ \A j \in Numbers : slot'[l][j] = slot[l][j]
  BY <1>1, <1>2, <1>3 DEF DiskTypes
<1>9. \A j \in Numbers : slot'[k][j] = IF j > num[k] THEN "garbage" ELSE slot[k][j]
  BY <1>1, <1>2, <1>3 DEF DiskTypes
<1>10. \A l \in Kinds : /\ num[l] >= 1
                        /\ \A j \in 1 .. num[l] : j \in Numbers /\ slot[l][j] = "open" /\ file[l][j] # NoFile
  <2>1. ~Creating
    BY <1>1 DEF Creating
  <2> QED
    BY <1>1, <2>1, SlotIsOpen DEF SlotsOpen
<1>11. SlotsOpen'
  <2>1. ASSUME NEW j \in 1 .. n
        PROVE  slot'[k][j] = "open" \/ Planned(k, j)'
    <3>1. CASE j <= num[k]
      BY <1>3, <1>4, <1>9, <1>10, <3>1
    <3>2. CASE ~(j <= num[k])
      <4>1. j - num[k] \in 1 .. n - num[k] /\ num[k] + (j - num[k]) = j
        BY <1>4, <3>2
      <4>2. j - num[k] \in 1 .. Len(todo') /\ todo'[j - num[k]] = <<k, j>>
        BY <1>7, <4>1
      <4> QED
        BY <4>2 DEF Planned
    <3> QED
      BY <3>1, <3>2
  <2>2. \A l \in Kinds : num'[l] >= 1 /\ \A j \in 1 .. num'[l] : slot'[l][j] = "open" \/ Planned(l, j)'
    <3>1. n >= 1
      BY <1>3, <1>4, <1>6, <1>10
    <3> QED
      BY <1>5, <1>8, <1>10, <2>1, <3>1
  <2> QED
    BY <1>2, <2>2 DEF SlotsOpen
<1>12. InTurn'
  <2>1. ASSUME NEW m \in 1 .. Len(todo')
        PROVE  \/ todo'[m][2] = 1
               \/ file'[todo'[m][1]][todo'[m][2] - 1] # NoFile
               \/ m > 1 /\ todo'[m - 1] = <<todo'[m][1], todo'[m][2] - 1>>
    <3>1. m \in 1 .. n - num[k] /\ todo'[m] = <<k, num[k] + m>>
      BY <1>7
    <3>2. todo'[m][1] = k /\ todo'[m][2] - 1 = num[k] + m - 1
      BY <1>4, <3>1
    <3>3. CASE m = 1
      <4>1. num[k] + m - 1 = num[k] /\ num[k] \in 1 .. num[k]
        BY <1>3, <1>4, <1>10, <3>3
      <4> QED
        BY <1>1, <1>3, <1>10, <3>2, <4>1
    <3>4. CASE m # 1
      <4>1. m - 1 \in 1 .. n - num[k] /\ m > 1 /\ num[k] + m - 1 = num[k] + (m - 1)
        BY <1>4, <3>1, <3>4
      <4> QED
        BY <1>7, <3>2, <4>1
    <3> QED
      BY <3>3, <3>4
  <2> QED
    BY <1>1, <2>1 DEF InTurn
<1> QED
  BY <1>1, <1>11, <1>12 DEF GrowInv

LEMMA GrowTransfer == GrowInv /\ (Transfer \/ TransferFails) => GrowInv'
<1> SUFFICES ASSUME GrowInv, Transfer \/ TransferFails
             PROVE  GrowInv'
  OBVIOUS
<1>1. /\ DiskTypes /\ CallFits /\ DiskInv' /\ pc = "transfer" /\ call # NoCall /\ todo = <<>>
      /\ UNCHANGED <<num, open>> /\ slot[call.kind][Current] = "open" /\ OpenAreFiles
  BY TransferInv, TransferFailsInv
     DEF GrowInv, DiskInv, CallFits, Transfer, TransferFails, Transferring, UsableFile
<1> DEFINE k == call.kind
           i == Current
<1>2. k \in Kinds /\ i \in Numbers /\ call.done < Len(call.data) /\ file[k][i] # NoFile
  BY <1>1, CurrentCounts DEF OpenAreFiles
<1>3. /\ \/ SetFile(k, i, Visible(k, i), Share) /\ SetSlot(k, i, "open", "success")
         \/ \E w \in Prefixes(pending[k][i]) :
              SetFile(k, i, Written(file[k][i], w), NoWrite) /\ UNCHANGED <<slot, fst>>
         \/ \E w \in Prefixes(Share) :
              /\ SetFile(k, i, Written(Visible(k, i), w), NoWrite)
              /\ SetSlot(k, i, "open", "drive_rw")
      /\ \/ Return("success") \/ ReturnError(i) \/ UNCHANGED <<pc, status, todo>>
  BY DEF Transfer, TransferFails
<1> HIDE DEF k, i
<1>4. /\ pc' \notin {"create", "rewind"} /\ todo' = <<>>
  <2>1. CASE Return("success") \/ ReturnError(i)
    BY <1>1, <2>1, CallEnds, ErrorEnds
  <2>2. CASE UNCHANGED <<pc, status, todo>>
    BY <1>1, <2>2
  <2> QED
    BY <1>3, <2>1, <2>2
<1>5. \E f \in Contents, w \in Writes : SetFile(k, i, f, w)
  <2>1. /\ Share \in Writes /\ Visible(k, i) \in Contents /\ pending[k][i] \in Writes
        /\ file[k][i] \in Contents
    BY <1>1, <1>2, ShareFits, VisibleIs DEF DiskTypes
  <2>2. \A w \in Prefixes(pending[k][i]) : Written(file[k][i], w) \in Contents
    BY <2>1, PrefixFits, WrittenIs
  <2>3. \A w \in Prefixes(Share) : Written(Visible(k, i), w) \in Contents
    BY <2>1, PrefixFits, WrittenIs
  <2> QED
    BY <1>3, <2>1, <2>2, <2>3, NoWriteFits
<1>6. \A l \in Kinds, j \in Numbers : file'[l][j] # NoFile <=> file[l][j] # NoFile
  BY <1>1, <1>2, <1>5, FileSet
<1>7. \A l \in Kinds, j \in Numbers : slot[l][j] = "open" => slot'[l][j] = "open"
  <2>1. CASE \E st \in {"success", "drive_rw"} : SetSlot(k, i, "open", st)
    BY <1>1, <1>2, <2>1, SlotSet
  <2>2. CASE UNCHANGED <<slot, fst>>
    BY <2>2
  <2> QED
    BY <1>3, <2>1, <2>2
<1> QED
  BY <1>1, <1>4, <1>6, <1>7, SameFiles DEF Creating

\* A read that seeks only in files that are open creates none.
LEMMA GrowSought ==
  ASSUME GrowInv, DiskInv', pc = "idle", UNCHANGED <<slot, num, open>>,
         pc' \in {"idle", "wild"}, todo' = <<>>,
         NEW k \in Kinds, NEW from \in Nat, NEW i \in Numbers, NEW f \in Contents,
         SeekTo(k, from, i, f), from <= i,
         \A j \in from .. i : slot[k][j] = "open"
  PROVE  GrowInv'
<1>1. DiskTypes /\ OpenAreFiles
  BY DEF GrowInv, DiskInv
<1>2. /\ \A j \in Numbers :
              file'[k][j] = IF j = i THEN f ELSE IF j \in from .. i THEN Visible(k, j) ELSE file[k][j]
      /\ \A l \in Kinds, j \in Numbers : l # k => file'[l][j] = file[l][j]
      /\ \A l \in Kinds, j \in Numbers : file[l][j] # NoFile => file'[l][j] # NoFile
  BY <1>1, Sought
<1>3. ASSUME NEW j \in Numbers, file'[k][j] # NoFile
      PROVE  file[k][j] # NoFile
  <2>1. j \in from .. i \/ j = i => file[k][j] # NoFile
    BY <1>1, ChunkSize DEF OpenAreFiles, Numbers
  <2> QED
    BY <1>2, <1>3, <2>1
<1>4. \A l \in Kinds, j \in Numbers : file'[l][j] # NoFile <=> file[l][j] # NoFile
  BY <1>2, <1>3
<1> QED
  BY <1>4, SameFiles DEF Creating

LEMMA GrowRead ==
  ASSUME NEW r \in Requests
  PROVE  GrowInv /\ DiskRead(r.begin, r.num) => GrowInv'
<1> SUFFICES ASSUME GrowInv, DiskRead(r.begin, r.num)
             PROVE  GrowInv'
  OBVIOUS
<1> DEFINE k == KindOf(r.begin)
           first == Position(r.begin)
           from == FileAt(first)
           last == FileAt(first + r.num - 1)
           end == IF last <= num[k] THEN last ELSE num[k]
<1>1. /\ DiskTypes /\ DiskInv' /\ from <= num[k] /\ UNCHANGED <<slot, num, open>> /\ pc = "idle"
      /\ SeekTo(k, from, end, Visible(k, end))
      /\ \A i \in from .. end : slot[k][i] = "open"
      /\ Return("success") \/ Return("param")
  BY DiskReadInv DEF GrowInv, DiskInv, DiskRead, Reading
<1>2. k \in Kinds /\ from \in Nat \ {0} /\ from <= last /\ last \in Numbers
  BY RequestFits
<1>3. end \in Numbers /\ from <= end
  <2>1. num[k] \in 0 .. MaxFiles /\ MaxFiles \in Nat
    BY <1>1, <1>2, ChunkSize DEF DiskTypes
  <2> HIDE DEF k, from, last
  <2> QED
    BY <1>1, <1>2, <2>1 DEF Numbers
<1> HIDE DEF k, from, end, last
<1>4. Visible(k, end) \in Contents
  BY <1>1, <1>2, <1>3, VisibleIs
<1>5. pc' \in {"idle", "wild"} /\ todo' = <<>>
  BY <1>1, CallEnds
<1> QED
  BY <1>1, <1>2, <1>3, <1>4, <1>5, GrowSought

LEMMA GrowReadFails ==
  ASSUME NEW r \in Requests
  PROVE  GrowInv /\ DiskReadFails(r.begin, r.num) => GrowInv'
<1> SUFFICES ASSUME GrowInv, DiskReadFails(r.begin, r.num)
             PROVE  GrowInv'
  OBVIOUS
<1>1. DiskTypes /\ DiskInv'
  BY DiskReadFailsInv DEF GrowInv, DiskInv
<1>2. PICK k \in Kinds : \E i \in 1 .. num[k], from \in Nat \ {0}, w \in Writes :
           /\ i \in Numbers /\ from <= i /\ \A j \in from .. i : slot[k][j] = "open"
           /\ ReturnError(i) /\ UNCHANGED <<slot, num, open>> /\ open /\ pc = "idle"
           /\ SeekTo(k, from, i, Written(file[k][i], w))
           /\ file[k][i] \in Contents
  BY ReadFailsAt DEF GrowInv
<1>3. PICK i \in 1 .. num[k], from \in Nat \ {0}, w \in Writes :
           /\ i \in Numbers /\ from <= i /\ \A j \in from .. i : slot[k][j] = "open"
           /\ ReturnError(i) /\ UNCHANGED <<slot, num, open>> /\ open /\ pc = "idle"
           /\ SeekTo(k, from, i, Written(file[k][i], w))
           /\ file[k][i] \in Contents
  BY <1>2
<1>4. Written(file[k][i], w) \in Contents
  BY <1>3, WrittenIs
<1>5. pc' \in {"idle", "wild"} /\ todo' = <<>>
  BY <1>1, <1>3, ErrorEnds
<1> QED
  BY <1>1, <1>3, <1>4, <1>5, GrowSought

\* A step that ends a call, or goes wild, and leaves the files and the slots alone.
LEMMA GrowLeaves ==
  ASSUME GrowInv, DiskInv', ~Creating, UNCHANGED <<file, slot, num, open>>,
         NEW st \in {"success", "param", "memory", "drive_rw"}, Return(st) \/ GoWild
  PROVE  GrowInv'
<1>1. pc' \in {"idle", "wild"} /\ todo' = <<>>
  BY CallEnds DEF GrowInv, DiskInv
<1> QED
  BY <1>1, SameFiles

LEMMA GrowWriteOut ==
  ASSUME GrowInv, DiskInv', NEW cut, cut \in Cuts \/ cut = Buffered, WriteOut(cut),
         UNCHANGED <<slot, num>>, ~open', pc' \notin {"create", "rewind"}, todo' = <<>>
  PROVE  GrowInv'
<1>1. DiskTypes /\ InTurn
  BY DEF GrowInv, DiskInv
<1>2. \A k \in Kinds, i \in Numbers : file'[k][i] # NoFile <=> file[k][i] # NoFile
  BY <1>1, CutsFit, WrittenOut
<1>3. SlotsOpen'
  BY DEF SlotsOpen, Creating
<1>4. InTurn'
  <2>1. \A k \in Kinds, i \in Numbers : i > 1 => i - 1 \in Numbers
    BY ChunkSize DEF Numbers
  <2> QED
    BY <1>1, <1>2, <2>1 DEF InTurn
<1> QED
  BY <1>3, <1>4 DEF GrowInv

LEMMA GrowClose == GrowInv /\ DiskClose => GrowInv'
<1> SUFFICES ASSUME GrowInv, DiskClose
             PROVE  GrowInv'
  OBVIOUS
<1>1. /\ pc = "idle" /\ UNCHANGED <<slot, num>> /\ DiskInv' /\ todo = <<>>
  BY DiskCloseInv DEF GrowInv, DiskInv, DiskClose, CallFits, handle
<1>2. CASE GoWild /\ UNCHANGED <<disk, open>>
  BY <1>1, <1>2, GrowLeaves, "success" \in {"success", "param", "memory", "drive_rw"}
     DEF disk, Creating
<1>3. CASE /\ open' = FALSE /\ UNCHANGED <<status, pc, call, todo>>
           /\ \E cut \in IF "io" \in Faults THEN Cuts ELSE {Buffered} : WriteOut(cut)
  BY <1>1, <1>3, GrowWriteOut
<1> QED
  BY <1>2, <1>3 DEF DiskClose

LEMMA GrowCrash == GrowInv /\ DiskCrash => GrowInv'
<1> SUFFICES ASSUME GrowInv, DiskCrash
             PROVE  GrowInv'
  OBVIOUS
<1>1. PICK cut \in Cuts : WriteOut(cut)
  BY DEF DiskCrash
<1>2. UNCHANGED <<slot, num>> /\ open' = FALSE /\ pc' = "idle" /\ todo' = <<>> /\ DiskInv'
  BY DiskCrashInv DEF GrowInv, DiskCrash, Return, handle
<1> QED
  BY <1>1, <1>2, GrowWriteOut

LEMMA GrowInvNext ==
  ASSUME NoGrowFault
  PROVE  GrowInv /\ [DiskNext]_vars => GrowInv'
<1> SUFFICES ASSUME GrowInv, [DiskNext]_vars
             PROVE  GrowInv'
  OBVIOUS
<1>1. DiskInv' /\ "success" \in {"success", "param", "memory", "drive_rw"}
  BY DiskInvNext DEF GrowInv
<1>2. CASE UNCHANGED vars
  BY <1>1, <1>2 DEF GrowInv, SlotsOpen, InTurn, Planned, Creating, vars
<1>3. CASE DiskCrash
  BY <1>3, GrowCrash
<1>4. CASE WriteStep
  <2>1. CASE TransferWild
    BY <1>1, <2>1, GrowLeaves DEF TransferWild, Transferring, disk, Creating
  <2>2. ~OpenFileFails /\ ~FillFails
    BY DEF NoGrowFault, OpenFileFails, FillFails
  <2> QED
    BY <1>4, <2>1, <2>2, GrowOpened, GrowOpenFile, GrowRewind, GrowTransfer DEF WriteStep
<1>5. CASE DiskCall
  <2>1. CASE DiskOpen
    BY <2>1, GrowOpen
  <2>2. CASE DiskClose
    BY <2>2, GrowClose
  <2>3. ASSUME NEW r \in Requests, NEW v \in Data, DiskWrite(r.begin, [s \in 1 .. r.num |-> v])
        PROVE  GrowInv'
    BY <2>3, GrowWrite
  <2>4. ASSUME NEW r \in Requests, ReadPastEnd(r.begin, r.num) \/ DiskReadWild(r.begin, r.num)
        PROVE  GrowInv'
    BY <1>1, <2>4, GrowLeaves DEF ReadPastEnd, DiskReadWild, Reading, disk, Creating
  <2>5. ASSUME NEW r \in Requests, DiskRead(r.begin, r.num) \/ DiskReadFails(r.begin, r.num)
        PROVE  GrowInv'
    BY <2>5, GrowRead, GrowReadFails
  <2> QED
    BY <1>5, <2>1, <2>2, <2>3, <2>4, <2>5 DEF DiskCall
<1> QED
  BY <1>2, <1>3, <1>4, <1>5 DEF DiskNext

LEMMA GrowInvHolds ==
  ASSUME NoGrowFault
  PROVE  DiskSpec => []GrowInv
<1>1. DiskInit => GrowInv
  BY GrowInvInit
<1> QED
  BY <1>1, GrowInvNext, PTL DEF DiskSpec

\* While the volume is open, or being opened, the arrays have a slot for every file
\* that there is, and for every file that a call plans to open.
Known ==
  /\ open \/ Creating => \A k \in Kinds, i \in Numbers : file[k][i] # NoFile => i <= num[k]
  /\ \A n \in 1 .. Len(todo) : todo[n][2] <= num[todo[n][1]]

\* A step that makes no file keeps it.
LEMMA KnownKept ==
  ASSUME GrowInv, Known, UNCHANGED num, open' \/ Creating' => open \/ Creating,
         \A k \in Kinds, i \in Numbers : file'[k][i] # NoFile => file[k][i] # NoFile,
         todo' = <<>> \/ UNCHANGED todo \/ (todo # <<>> /\ todo' = Tail(todo))
  PROVE  Known'
<1>1. \A n \in 1 .. Len(todo') : todo'[n][2] <= num[todo'[n][1]]
  <2>1. CASE todo # <<>> /\ todo' = Tail(todo)
    <3>1. /\ Len(todo') = Len(todo) - 1 /\ Len(todo) \in Nat
          /\ \A n \in 1 .. Len(todo) - 1 : todo'[n] = todo[n + 1]
      BY <2>1, NextFile, LenProperties DEF GrowInv, DiskInv, DiskTypes
    <3>2. \A n \in 1 .. Len(todo') : n + 1 \in 1 .. Len(todo) /\ todo'[n] = todo[n + 1]
      BY <3>1
    <3> QED
      BY <3>2 DEF Known
  <2>2. CASE todo' = <<>>
    BY <2>2
  <2>3. CASE UNCHANGED todo
    BY <2>3 DEF Known
  <2> QED
    BY <2>1, <2>2, <2>3
<1> QED
  BY <1>1 DEF Known

LEMMA KnownOpen ==
  ASSUME NoGrowFault
  PROVE  GrowInv /\ DiskOpen => Known'
<1> SUFFICES ASSUME GrowInv, DiskOpen
             PROVE  Known'
  OBVIOUS
<1>1. /\ DiskTypes /\ InTurn /\ UNCHANGED file
      /\ num' = [k \in Kinds |-> IF Counted(k) = 0 THEN 1 ELSE Counted(k)]
      /\ todo' = AllFiles("index", num'["index"]) \o AllFiles("meta", num'["meta"])
  BY DEF GrowInv, DiskInv, DiskOpen, NoGrowFault, disk
<1> DEFINE m == num'["index"]
           n == num'["meta"]
           s == AllFiles("index", m)
           t == AllFiles("meta", n)
<1>2. \A k \in Kinds : num'[k] \in 0 .. MaxFiles /\ Counted(k) \in Nat /\ Counted(k) <= num'[k]
  <2>1. \A k \in Kinds : Counted(k) \in 0 .. MaxFiles
    BY CountedIs
  <2> QED
    BY <1>1, <2>1, ChunkSize
<1>3. ASSUME NEW k \in Kinds, NEW i \in Numbers, file'[k][i] # NoFile
      PROVE  i <= num'[k]
  <2>1. i <= Counted(k)
    BY <1>1, <1>3, NoneMissing
  <2> QED
    BY <1>2, <2>1, ChunkSize DEF Numbers
<1>4. m \in 0 .. MaxFiles /\ n \in 0 .. MaxFiles /\ "index" \in Kinds /\ "meta" \in Kinds
  BY <1>2 DEF Kinds
<1>5. /\ s \in Seq(Kinds \X Numbers) /\ Len(s) = m /\ \A i \in 1 .. m : s[i] = <<"index", i>>
      /\ t \in Seq(Kinds \X Numbers) /\ Len(t) = n /\ \A i \in 1 .. n : t[i] = <<"meta", i>>
  BY <1>4, AllFilesAre
<1>6. todo' = s \o t /\ m \in Nat /\ n \in Nat
  BY <1>1, <1>4, ChunkSize
<1> HIDE DEF s, t, m, n
<1>7. /\ Len(s \o t) = m + n
      /\ \A i \in 1 .. m + n : (s \o t)[i] = IF i <= m THEN s[i] ELSE t[i - m]
  BY <1>5, ConcatProperties
<1>8. ASSUME NEW i \in 1 .. Len(todo')
      PROVE  todo'[i][2] <= num'[todo'[i][1]]
  <2>1. CASE i <= m
    <3>1. todo'[i] = <<"index", i>>
      BY <1>5, <1>6, <1>7, <2>1
    <3> QED
      BY <2>1, <3>1 DEF m
  <2>2. CASE ~(i <= m)
    <3>1. todo'[i] = <<"meta", i - m>> /\ i - m <= n
      BY <1>5, <1>6, <1>7, <2>2
    <3> QED
      BY <3>1 DEF n
  <2> QED
    BY <2>1, <2>2
<1> QED
  BY <1>3, <1>8 DEF Known

LEMMA KnownOpenFile == GrowInv /\ Known /\ OpenFile => Known'
<1> SUFFICES ASSUME GrowInv, Known, OpenFile
             PROVE  Known'
  OBVIOUS
<1>1. DiskTypes /\ todo # <<>> /\ pc = "create" /\ UNCHANGED <<num, open>>
  BY DEF GrowInv, DiskInv, OpenFile
<1> DEFINE k == todo[1][1]
           i == todo[1][2]
           zeros == [at |-> 0, data |-> Zeros(ChunkSectors)]
<1>2. k \in Kinds /\ i \in Numbers /\ 1 \in 1 .. Len(todo)
  BY <1>1, NextFile
<1>3. i <= num[k]
  BY <1>2 DEF Known
<1>4. \/ SetFile(k, i, <<>>, zeros) /\ UNCHANGED todo
      \/ UNCHANGED file /\ todo' = Tail(todo)
  BY DEF OpenFile
<1>5. zeros \in Writes
  BY ZerosFit
<1> HIDE DEF k, i, zeros
<1>6. CASE SetFile(k, i, <<>>, zeros) /\ UNCHANGED todo
  <2>1. \A l \in Kinds, j \in Numbers : l # k \/ j # i => file'[l][j] = file[l][j]
    BY <1>1, <1>2, <1>5, <1>6, EmptyFits, FileSet
  <2> QED
    BY <1>1, <1>3, <1>6, <2>1 DEF Known, Creating
<1>7. CASE UNCHANGED file /\ todo' = Tail(todo)
  BY <1>1, <1>7, KnownKept DEF Creating
<1> QED
  BY <1>4, <1>6, <1>7

LEMMA KnownRewind == GrowInv /\ Known /\ Rewind => Known'
<1> SUFFICES ASSUME GrowInv, Known, Rewind
             PROVE  Known'
  OBVIOUS
<1>1. /\ DiskTypes /\ pc = "rewind" /\ todo # <<>> /\ UNCHANGED <<num, open>> /\ todo' = Tail(todo)
  BY DEF GrowInv, DiskInv, Rewind, CallFits, handle
<1> DEFINE k == todo[1][1]
           i == todo[1][2]
<1>2. k \in Kinds /\ i \in Numbers
  BY <1>1, NextFile
<1>3. SetFile(k, i, Visible(k, i), NoWrite) /\ file[k][i] # NoFile
  BY <1>1, <1>2 DEF Rewind, GrowInv, SlotsOpen, DiskInv, OpenAreFiles
<1> HIDE DEF k, i
<1>4. Visible(k, i) \in Contents /\ NoWrite \in Writes
  BY <1>1, <1>2, VisibleIs, NoWriteFits
<1>5. \A l \in Kinds, j \in Numbers : file'[l][j] # NoFile => file[l][j] # NoFile
  BY <1>1, <1>2, <1>3, <1>4, FileSet
<1> QED
  BY <1>1, <1>5, KnownKept DEF Creating

LEMMA KnownTransfer == GrowInv /\ Known /\ (Transfer \/ TransferFails) => Known'
<1> SUFFICES ASSUME GrowInv, Known, Transfer \/ TransferFails
             PROVE  Known'
  OBVIOUS
<1>1. /\ DiskTypes /\ CallFits /\ pc = "transfer" /\ call # NoCall /\ todo = <<>>
      /\ UNCHANGED <<num, open>> /\ slot[call.kind][Current] = "open" /\ OpenAreFiles /\ open
  BY DEF GrowInv, DiskInv, CallFits, Transfer, TransferFails, Transferring, UsableFile
<1> DEFINE k == call.kind
           i == Current
<1>2. k \in Kinds /\ i \in Numbers /\ i <= num[k]
  BY <1>1, CurrentCounts
<1>3. \E f, w : SetFile(k, i, f, w)
  BY DEF Transfer, TransferFails
<1> HIDE DEF k, i
<1>4. \A l \in Kinds, j \in Numbers : l # k \/ j # i => file'[l][j] = file[l][j]
  BY <1>1, <1>2, <1>3 DEF SetFile, DiskTypes
<1>5. todo' = <<>>
  BY <1>1, ErrorEnds DEF Transfer, TransferFails, Return
<1> QED
  BY <1>1, <1>2, <1>4, <1>5 DEF Known

LEMMA KnownWrite ==
  ASSUME NEW r \in Requests, NEW v \in Data, NoGrowFault
  PROVE  GrowInv /\ Known /\ DiskWrite(r.begin, [s \in 1 .. r.num |-> v]) => Known'
<1> DEFINE data == [s \in 1 .. r.num |-> v]
<1> SUFFICES ASSUME GrowInv, Known, DiskWrite(r.begin, data)
             PROVE  Known'
  OBVIOUS
<1>1. DiskTypes /\ DiskInv' /\ open /\ UNCHANGED <<file, open>>
  BY WriteInv DEF GrowInv, DiskInv, DiskWrite, disk
<1> DEFINE k == KindOf(r.begin)
           reqfile == FileAt(Position(r.begin) + Len(data) - 1)
<1>2. /\ num' = [num EXCEPT ![k] = IF reqfile > @ THEN reqfile ELSE @]
      /\ todo' = NewFiles(k, num'[k])
  BY DEF DiskWrite, NoGrowFault
<1>3. k \in Kinds
  BY RequestFits
<1>4. num[k] \in 0 .. MaxFiles /\ MaxFiles \in Nat /\ num' \in [Kinds -> 0 .. MaxFiles]
  BY <1>1, <1>3, ChunkSize DEF DiskTypes, DiskInv
<1> HIDE DEF data, k, reqfile
<1>5. PICK n \in 0 .. MaxFiles : n = num'[k]
  BY <1>3, <1>4
<1>6. num[k] <= n
  <2>1. \E x : num' = [num EXCEPT ![k] = x] /\ (x = num[k] \/ x > num[k])
    BY <1>2
  <2>2. n = num[k] \/ n > num[k]
    BY <1>1, <1>3, <1>5, <2>1 DEF DiskTypes
  <2> QED
    BY <1>4, <1>5, <2>2
<1>7. \A l \in Kinds : l # k => num'[l] = num[l]
  BY <1>1, <1>2, <1>3 DEF DiskTypes
<1>8. /\ Len(todo') = n - num[k]
      /\ \A f \in 1 .. n - num[k] : todo'[f] = <<k, num[k] + f>>
  BY <1>1, <1>2, <1>3, <1>5, <1>6, NewFilesAre
<1>9. \A f \in 1 .. Len(todo') : todo'[f][2] <= num'[todo'[f][1]]
  BY <1>4, <1>5, <1>6, <1>8
<1>10. ASSUME NEW l \in Kinds, NEW i \in Numbers, file'[l][i] # NoFile
       PROVE  i <= num'[l]
  <2>1. i <= num[l] /\ num[l] \in Nat /\ i \in Nat
    BY <1>1, <1>10, ChunkSize DEF Known, DiskTypes, Numbers
  <2> QED
    BY <1>4, <1>5, <1>6, <1>7, <2>1
<1> QED
  BY <1>9, <1>10 DEF Known

\* A read seeks in files that the array has a slot for.
LEMMA KnownSought ==
  ASSUME GrowInv, Known, open, UNCHANGED num, todo' = <<>>,
         NEW k \in Kinds, NEW from, NEW i \in Numbers, NEW f \in Contents, SeekTo(k, from, i, f),
         from \in Nat, from <= i, i <= num[k]
  PROVE  Known'
<1>1. DiskTypes
  BY DEF GrowInv, DiskInv
<1>2. /\ \A j \in Numbers :
              file'[k][j] = IF j = i THEN f ELSE IF j \in from .. i THEN Visible(k, j) ELSE file[k][j]
      /\ \A l \in Kinds, j \in Numbers : l # k => file'[l][j] = file[l][j]
  BY <1>1, Sought
<1>3. num[k] \in Nat /\ i \in Nat
  BY <1>1, ChunkSize DEF DiskTypes, Numbers
<1>4. \A j \in from .. i : j <= num[k]
  BY <1>3
<1>5. \A l \in Kinds, j \in Numbers : file'[l][j] # NoFile => j <= num[l]
  BY <1>2, <1>4 DEF Known
<1> QED
  BY <1>5 DEF Known

LEMMA KnownNext ==
  ASSUME NoGrowFault
  PROVE  GrowInv /\ Known /\ [DiskNext]_vars => Known'
<1> SUFFICES ASSUME GrowInv, Known, [DiskNext]_vars
             PROVE  Known'
  OBVIOUS
<1>1. DiskTypes /\ CallFits
  BY DEF GrowInv, DiskInv
<1>2. CASE UNCHANGED vars
  BY <1>2 DEF Known, Creating, vars
<1>3. CASE DiskCrash
  BY <1>3 DEF DiskCrash, Return, Known, Creating
<1>4. CASE WriteStep
  <2>1. CASE Opened
    <3>1. UNCHANGED <<file, num, todo>> /\ Creating
      BY <1>1, <2>1 DEF Opened, Return, disk, handle, Creating
    <3> QED
      BY <3>1, KnownKept
  <2>2. CASE TransferWild
    <3>1. UNCHANGED <<file, num, open>> /\ todo' = <<>> /\ ~Creating'
      BY <2>2 DEF TransferWild, Transferring, GoWild, disk, Creating
    <3> QED
      BY <3>1, KnownKept
  <2>3. ~OpenFileFails /\ ~FillFails
    BY DEF NoGrowFault, OpenFileFails, FillFails
  <2> QED
    BY <1>4, <2>1, <2>2, <2>3, KnownOpenFile, KnownRewind, KnownTransfer DEF WriteStep
<1>5. CASE DiskCall
  <2>1. CASE DiskOpen
    BY <2>1, KnownOpen
  <2>2. CASE DiskClose
    <3>1. pc = "idle" /\ todo = <<>>
      BY <1>1, <2>2 DEF DiskClose, CallFits
    <3>2. CASE GoWild /\ UNCHANGED <<disk, open>>
      BY <2>2, <3>2, KnownKept DEF DiskClose, GoWild, disk, handle, Creating
    <3>3. CASE open' = FALSE /\ UNCHANGED <<status, pc, call, todo>>
      BY <3>1, <3>3 DEF Known, Creating
    <3> QED
      BY <2>2, <3>2, <3>3 DEF DiskClose
  <2>3. ASSUME NEW r \in Requests, NEW v \in Data, DiskWrite(r.begin, [s \in 1 .. r.num |-> v])
        PROVE  Known'
    BY <2>3, KnownWrite
  <2>4. ASSUME NEW r \in Requests, ReadPastEnd(r.begin, r.num) \/ DiskReadWild(r.begin, r.num)
        PROVE  Known'
    <3>1. UNCHANGED <<file, num, open>> /\ todo' = <<>> /\ ~Creating'
      BY <2>4 DEF ReadPastEnd, DiskReadWild, Reading, Return, GoWild, disk, Creating
    <3> QED
      BY <3>1, KnownKept
  <2>5. ASSUME NEW r \in Requests, DiskRead(r.begin, r.num)
        PROVE  Known'
    <3> DEFINE k == KindOf(r.begin)
               from == FileAt(Position(r.begin))
               last == FileAt(Position(r.begin) + r.num - 1)
               end == IF last <= num[k] THEN last ELSE num[k]
    <3>1. k \in Kinds /\ from \in Nat \ {0} /\ from <= last /\ last \in Numbers
      BY RequestFits
    <3>2. /\ from <= num[k] /\ SeekTo(k, from, end, Visible(k, end)) /\ open /\ UNCHANGED num
          /\ todo' = <<>>
      BY <2>5 DEF DiskRead, Reading, Return
    <3>3. num[k] \in 0 .. MaxFiles
      BY <1>1, <3>1 DEF DiskTypes
    <3> HIDE DEF k, from, last
    <3>4. end \in Numbers /\ from <= end /\ end <= num[k]
      BY <3>1, <3>2, <3>3, ChunkSize DEF Numbers
    <3> HIDE DEF end
    <3>5. Visible(k, end) \in Contents
      BY <1>1, <3>1, <3>4, VisibleIs
    <3> QED
      BY <3>1, <3>2, <3>4, <3>5, KnownSought
  <2>6. ASSUME NEW r \in Requests, DiskReadFails(r.begin, r.num)
        PROVE  Known'
    <3>1. PICK k \in Kinds : \E i \in 1 .. num[k], from \in Nat \ {0}, w \in Writes :
             /\ i \in Numbers /\ from <= i /\ ReturnError(i) /\ UNCHANGED num /\ open
             /\ SeekTo(k, from, i, Written(file[k][i], w)) /\ file[k][i] \in Contents
      BY <2>6, ReadFailsAt DEF GrowInv
    <3>2. PICK i \in 1 .. num[k], from \in Nat \ {0}, w \in Writes :
             /\ i \in Numbers /\ from <= i /\ ReturnError(i) /\ UNCHANGED num /\ open
             /\ SeekTo(k, from, i, Written(file[k][i], w)) /\ file[k][i] \in Contents
      BY <3>1
    <3>3. Written(file[k][i], w) \in Contents
      BY <3>2, WrittenIs
    <3>4. todo' = <<>>
      BY <1>1, <3>2, ErrorEnds
    <3>5. i <= num[k]
      <4>1. num[k] \in 0 .. MaxFiles
        BY <1>1, <3>2 DEF DiskTypes
      <4> QED
        BY <3>2, <4>1, ChunkSize
    <3> QED
      BY <3>2, <3>3, <3>4, <3>5, KnownSought
  <2> QED
    BY <1>5, <2>1, <2>2, <2>3, <2>4, <2>5, <2>6 DEF DiskCall
<1> QED
  BY <1>2, <1>3, <1>4, <1>5 DEF DiskNext

LEMMA KnownInit == DiskInit => Known
BY DEF DiskInit, Known, Creating

\* The files of a kind are numbered without gaps, so that the next fs_disk_open counts
\* and opens every one of them, wherever in a growth or a write the process died, as
\* long as no creation of a file fails.
THEOREM FilesHaveNoGaps ==
  ASSUME Faults \subseteq {"io"}
  PROVE  DiskSpec => []NoGaps
<1>1. GrowInv => NoGaps
  BY NoneMissing DEF GrowInv, NoGaps
<1>2. NoGrowFault
  BY DEF NoGrowFault
<1> QED
  BY <1>1, <1>2, GrowInvHolds, PTL

\* Only a read that fails goes wild, and only with the status of a meta file that has
\* no index file of its number and is shorter than a chunk.
LEMMA WildNext ==
  ASSUME Faults = {}
  PROVE  GrowInv /\ NeverWild /\ [DiskNext]_vars => NeverWild'
<1> SUFFICES ASSUME GrowInv, NeverWild, [DiskNext]_vars, pc' = "wild"
             PROVE  NeverWild'
  BY DEF NeverWild
<1>1. /\ DiskTypes /\ CallFits /\ NoGrowFault
  BY DEF GrowInv, DiskInv, NoGrowFault
<1>2. CASE UNCHANGED vars
  BY <1>2 DEF NeverWild, Visible, vars
<1>3. CASE DiskCrash
  BY <1>3 DEF DiskCrash, Return
<1>4. CASE WriteStep
  <2>1. ~OpenFileFails /\ ~FillFails /\ ~TransferFails
    BY DEF OpenFileFails, FillFails, TransferFails
  <2>2. ~Opened /\ ~OpenFile /\ ~Rewind /\ ~Transfer
    BY DEF Opened, OpenFile, Rewind, Transfer, Transferring, Return
  <2>3. CASE TransferWild
    <3>1. pc = "transfer" /\ slot[call.kind][Current] # "open" /\ call # NoCall
      BY <1>1, <2>3 DEF TransferWild, Transferring, UsableFile, CallFits
    <3>2. Current \in 1 .. num[call.kind] /\ call.kind \in Kinds /\ open
      <4>1. Current \in Numbers /\ Current <= num[call.kind] /\ call.kind \in Kinds
        BY <1>1, <3>1, CurrentCounts
      <4> QED
        BY <1>1, <3>1, <4>1, ChunkSize DEF Numbers, DiskTypes, CallFits
    <3> QED
      BY <3>1, <3>2, SlotIsOpen DEF Creating
  <2> QED
    BY <1>4, <2>1, <2>2, <2>3 DEF WriteStep
<1>5. CASE DiskCall
  <2>1. CASE DiskOpen
    BY <2>1 DEF DiskOpen
  <2>2. CASE DiskClose
    <3>1. pc = "idle" /\ open
      BY <2>2 DEF DiskClose
    <3>2. \A k \in Kinds : \A i \in 1 .. num[k] : slot[k][i] \notin {"null", "garbage"}
      BY <3>1, SlotIsOpen DEF Creating
    <3> QED
      BY <2>2, <3>1, <3>2 DEF DiskClose
  <2>3. ASSUME NEW r \in Requests, NEW v \in Data, DiskWrite(r.begin, [s \in 1 .. r.num |-> v])
        PROVE  FALSE
    BY <2>3 DEF DiskWrite, Return
  <2>4. ASSUME NEW r \in Requests, ReadPastEnd(r.begin, r.num) \/ DiskRead(r.begin, r.num)
        PROVE  FALSE
    <3>1. Return("success") \/ Return("param")
      BY <2>4 DEF ReadPastEnd, DiskRead
    <3> QED
      BY <3>1 DEF Return
  <2>5. ASSUME NEW r \in Requests, DiskReadWild(r.begin, r.num)
        PROVE  FALSE
    <3>1. pc = "idle" /\ open
      BY <2>5 DEF DiskReadWild, Reading
    <3>2. /\ KindOf(r.begin) \in Kinds /\ FileAt(Position(r.begin)) \in Nat \ {0}
          /\ FileAt(Position(r.begin) + r.num - 1) \in Numbers
      BY RequestFits
    <3>3. PICK i \in FileAt(Position(r.begin)) .. FileAt(Position(r.begin) + r.num - 1) :
            i <= num[KindOf(r.begin)] /\ slot[KindOf(r.begin)][i] # "open"
      BY <2>5 DEF DiskReadWild
    <3>4. i \in 1 .. num[KindOf(r.begin)]
      BY <1>1, <3>2, <3>3, ChunkSize DEF DiskTypes, Numbers
    <3> QED
      BY <3>1, <3>2, <3>3, <3>4, SlotIsOpen DEF Creating
  <2>6. ASSUME NEW r \in Requests, DiskReadFails(r.begin, r.num)
        PROVE  NeverWild'
    <3>1. PICK k \in Kinds : \E i \in 1 .. num[k], from \in Nat \ {0}, w \in Writes :
           /\ i \in Numbers /\ from <= i
           /\ ReturnError(i) /\ UNCHANGED <<slot, num, open>> /\ open /\ pc = "idle"
           /\ SeekTo(k, from, i, Written(file[k][i], w))
           /\ file[k][i] \in Contents
           /\ w = pending[k][i] /\ ~Long(k, i, Position(r.begin), r.num)
      BY <2>6, ReadFailsAt DEF GrowInv
    <3>2. PICK i \in 1 .. num[k], from \in Nat \ {0}, w \in Writes :
           /\ i \in Numbers /\ from <= i
           /\ ReturnError(i) /\ UNCHANGED <<slot, num, open>> /\ open /\ pc = "idle"
           /\ SeekTo(k, from, i, Written(file[k][i], w))
           /\ file[k][i] \in Contents
           /\ w = pending[k][i] /\ ~Long(k, i, Position(r.begin), r.num)
      BY <3>1
    <3>3. ~(i <= num'["index"] /\ slot'["index"][i] \in {"open", "nofile"})
      BY <3>2 DEF ReturnError, Return
    <3>4. i > num["index"] /\ k = "meta"
      <4>1. "index" \in Kinds /\ num["index"] \in Nat /\ num[k] \in Nat
        BY <1>1 DEF Kinds, DiskTypes
      <4>2. i <= num["index"] => slot["index"][i] = "open"
        BY <3>2, <4>1, SlotIsOpen DEF Creating
      <4>3. ~(i <= num["index"])
        BY <3>2, <3>3, <4>2
      <4> QED
        BY <3>2, <4>1, <4>3 DEF Kinds
    <3>5. Visible(k, i) = Written(file[k][i], w) /\ file[k][i] # NoFile /\ Visible(k, i) \in Contents
      BY <1>1, <3>2, EmptyFits, VisibleIs
    <3>6. file'[k][i] = Visible(k, i) /\ pending'[k][i] = NoWrite
      <4>1. i \in from .. i
        BY <3>2, ChunkSize DEF Numbers
      <4> QED
        BY <1>1, <3>2, <3>5, <4>1, Sought
    <3>7. Len(Visible(k, i)) < ChunkSectors
      <4>1. PICK p \in Position(r.begin) .. Position(r.begin) + r.num - 1 :
              ~((p % ChunkSectors) < Len(Visible(k, i)))
        BY <3>2 DEF Long
      <4>2. p \in Nat
        BY <4>1, RequestFits
      <4>3. (p % ChunkSectors) < ChunkSectors /\ (p % ChunkSectors) \in Nat
        BY <4>2, ChunkSize, NatDivision
      <4>4. Len(Visible(k, i)) \in Nat
        BY <3>5, ContentsAre, LenProperties
      <4> QED
        BY <4>1, <4>3, <4>4, ChunkSize
    <3>8. Visible(k, i)' = Written(Visible(k, i), NoWrite) /\ file'[k][i] # NoFile
      BY <3>5, <3>6, EmptyFits DEF Visible
    <3>9. Len(Visible(k, i)') < ChunkSectors
      <4>1. Len(Visible(k, i)) \in Nat
        BY <3>5, ContentsAre, LenProperties
      <4>2. Len(Written(Visible(k, i), NoWrite)) = Len(Visible(k, i))
        <5>1. Len(Written(Visible(k, i), NoWrite))
                = IF Len(Visible(k, i)) > NoWrite.at + Len(NoWrite.data) THEN Len(Visible(k, i))
                  ELSE NoWrite.at + Len(NoWrite.data)
          BY <3>5, NoWriteFits, WrittenIs
        <5>2. NoWrite.at + Len(NoWrite.data) = 0
          BY NoWriteFits
        <5> QED
          BY <4>1, <5>1, <5>2
      <4> QED
        BY <3>7, <3>8, <4>2
    <3>10. i \in num'["index"] + 1 .. num'["meta"]
      BY <1>1, <3>2, <3>4 DEF DiskTypes, Kinds
    <3> QED
      BY <3>4, <3>8, <3>9, <3>10 DEF NeverWild
  <2> QED
    BY <1>5, <2>1, <2>2, <2>3, <2>4, <2>5, <2>6 DEF DiskCall
<1> QED
  BY <1>2, <1>3, <1>4, <1>5 DEF DiskNext

\* Without a failure no call takes a slot of the file arrays that holds no file, even
\* when the files it finds are what a crash in the middle of a growth has left, but for
\* the status of a meta file that the crash cut short.
THEOREM NothingGoesWild ==
  ASSUME Faults = {}
  PROVE  DiskSpec => []NeverWild
<1>1. NoGrowFault
  BY DEF NoGrowFault
<1>2. DiskInit => NeverWild
  BY DEF DiskInit, NeverWild
<1>3. GrowInv /\ NeverWild /\ [DiskNext]_vars => NeverWild'
  BY WildNext
<1> QED
  BY <1>1, <1>2, <1>3, GrowInvHolds, PTL DEF DiskSpec

-----------------------------------------------------------------------------
(***************************************************************************)
(* The files are the device: where a position lies, and what a step on a   *)
(* file does to the sectors in it.                                         *)
(***************************************************************************)
Places == 0 .. LastPosition

LEMMA PlaceIs ==
  ASSUME NEW p \in Nat
  PROVE  /\ FileAt(p) \in Nat \ {0} /\ (p % ChunkSectors) + 1 \in 1 .. ChunkSectors
         /\ p = ChunkSectors * (FileAt(p) - 1) + (p % ChunkSectors)
         /\ \A n \in Nat : FileAt(p) <= n <=> p < ChunkSectors * n
         /\ p \in Places <=> FileAt(p) \in Numbers
<1> DEFINE q == p \div ChunkSectors
           r == (p % ChunkSectors)
<1>1. ChunkSectors \in Nat \ {0} /\ MaxFiles \in Nat \ {0}
  BY ChunkSize
<1>2. q \in Nat /\ r \in 0 .. ChunkSectors - 1 /\ p = ChunkSectors * q + r
  BY <1>1, NatDivision
<1>3. FileAt(p) = q + 1
  BY DEF FileAt
<1> HIDE DEF q, r
<1>4. \A n \in Nat : q < n <=> p < ChunkSectors * n
  BY <1>1, <1>2, QuotientOrder
<1>5. FileAt(p) \in Nat \ {0} /\ FileAt(p) - 1 = q /\ \A n \in Nat : FileAt(p) <= n <=> q < n
  BY <1>2, <1>3
<1>6. r + 1 \in 1 .. ChunkSectors
  BY <1>1, <1>2
<1>7. p \in Places <=> FileAt(p) \in Numbers
  <2>1. LastPosition = ChunkSectors * MaxFiles - 1 /\ ChunkSectors * MaxFiles \in Nat
    BY <1>1 DEF LastPosition
  <2>2. p \in Places <=> p < ChunkSectors * MaxFiles
    BY <2>1 DEF Places
  <2>3. FileAt(p) \in Numbers <=> FileAt(p) <= MaxFiles
    BY <1>1, <1>5 DEF Numbers
  <2> QED
    BY <1>1, <1>4, <1>5, <2>2, <2>3
<1> QED
  BY <1>2, <1>4, <1>5, <1>6, <1>7 DEF r

\* A write lies over what it is written to.
LEMMA OverIs ==
  ASSUME NEW f \in Contents, NEW w \in Writes, NEW s \in Nat \ {0}
  PROVE  SectorAfter(f, w, s) = IF s \in w.at + 1 .. w.at + Len(w.data) THEN w.data[s - w.at]
                                ELSE SectorAfter(f, NoWrite, s)
<1>1. s \notin NoWrite.at + 1 .. NoWrite.at + Len(NoWrite.data)
  BY NoWriteFits
<1> QED
  BY <1>1 DEF SectorAfter

LEMMA AfterWritten ==
  ASSUME NEW f \in Contents, NEW w \in Writes, NEW v \in Writes, NEW s \in Nat \ {0}
  PROVE  SectorAfter(Written(f, w), v, s)
           = IF s \in v.at + 1 .. v.at + Len(v.data) THEN v.data[s - v.at] ELSE SectorAfter(f, w, s)
<1> DEFINE g == Written(f, w)
           end == w.at + Len(w.data)
<1>1. /\ g \in Contents /\ Len(g) = IF Len(f) > end THEN Len(f) ELSE end
      /\ \A t \in 1 .. Len(g) : g[t] = SectorAfter(f, w, t)
  BY WrittenIs
<1>2. Len(f) \in Nat /\ Len(g) \in Nat /\ end \in Nat /\ w.at \in Nat /\ Len(w.data) \in Nat
  <2>1. f \in Seq(Data) /\ g \in Seq(Data) /\ w.data \in Seq(Data) /\ w.at \in Nat
    BY <1>1, ContentsAre, ChunkSize DEF Writes
  <2> QED
    BY <2>1, LenProperties
<1> HIDE DEF g, end
<1>3. CASE s <= Len(g)
  BY <1>1, <1>2, <1>3, s \in 1 .. Len(g) DEF SectorAfter, g
<1>4. CASE ~(s <= Len(g))
  <2>1. ~(s <= Len(f)) /\ ~(s <= end)
    BY <1>1, <1>2, <1>4
  <2>2. SectorAfter(f, w, s) = Zero
    BY <2>1, <1>2 DEF SectorAfter, end
  <2> QED
    BY <1>4, <2>2 DEF SectorAfter, g
<1> QED
  BY <1>3, <1>4

LEMMA WrittenSector ==
  ASSUME NEW f \in Contents, NEW w \in Writes, NEW s \in Nat \ {0}
  PROVE  SectorAfter(Written(f, w), NoWrite, s) = SectorAfter(f, w, s)
<1>1. NoWrite \in Writes /\ s \notin NoWrite.at + 1 .. NoWrite.at + Len(NoWrite.data)
  BY NoWriteFits
<1> QED
  BY <1>1, AfterWritten

\* A part of a write gives a sector what the write gives it, or leaves it.
LEMMA PrefixSector ==
  ASSUME NEW f \in Contents, NEW v \in Writes, NEW w \in Prefixes(v), NEW s \in Nat \ {0}
  PROVE  /\ w \in Writes
         /\ \/ SectorAfter(f, w, s) = SectorAfter(f, v, s)
            \/ SectorAfter(f, w, s) = SectorAfter(f, NoWrite, s)
<1>1. /\ w \in Writes /\ w.at = v.at /\ Len(w.data) \in 0 .. Len(v.data)
      /\ \A j \in 1 .. Len(w.data) : w.data[j] = v.data[j]
  BY PrefixFits
<1>2. v.at \in Nat /\ Len(v.data) \in Nat
  <2>1. v.data \in Seq(Data) /\ v.at \in Nat
    BY ContentsAre, ChunkSize DEF Writes
  <2> QED
    BY <2>1, LenProperties
<1>3. CASE s \in w.at + 1 .. w.at + Len(w.data)
  <2>1. s - w.at \in 1 .. Len(w.data) /\ s \in v.at + 1 .. v.at + Len(v.data) /\ s - w.at = s - v.at
    BY <1>1, <1>2, <1>3
  <2> QED
    BY <1>1, <1>3, <2>1, OverIs
<1>4. CASE s \notin w.at + 1 .. w.at + Len(w.data)
  BY <1>1, <1>4, OverIs
<1> QED
  BY <1>1, <1>3, <1>4

\* What a step does to a file: it leaves it, creates it with its zeros to come, writes
\* its buffer out, or loses a part of the buffer.
Kept(k, i) == file'[k][i] = file[k][i] /\ pending'[k][i] = pending[k][i]
Created(k, i) ==
  /\ file[k][i] = NoFile /\ file'[k][i] = <<>>
  /\ pending'[k][i] = [at |-> 0, data |-> Zeros(ChunkSectors)]
Flushed(k, i) ==
  file[k][i] # NoFile /\ file'[k][i] = Visible(k, i) /\ pending'[k][i] = NoWrite
Lost(k, i) ==
  /\ file[k][i] # NoFile /\ pending'[k][i] = NoWrite
  /\ \E w \in Prefixes(pending[k][i]) : file'[k][i] = Written(file[k][i], w)

\* The sectors that reads give, and what a crash leaves of them at least.
Shown(k, p) == SectorAt(k, p, pending)
Settled(k, p) == SectorAt(k, p, NoWrites)

LEMMA SectorsAre ==
  ASSUME NEW k \in Kinds, NEW p \in Places
  PROVE  /\ file[k][FileAt(p)] = NoFile => Shown(k, p) = Zero /\ Settled(k, p) = Zero
         /\ file[k][FileAt(p)] # NoFile =>
              /\ Shown(k, p) = SectorAfter(file[k][FileAt(p)], pending[k][FileAt(p)], (p % ChunkSectors) + 1)
              /\ Settled(k, p) = SectorAfter(file[k][FileAt(p)], NoWrite, (p % ChunkSectors) + 1)
         /\ file'[k][FileAt(p)] # NoFile =>
              /\ Shown(k, p)' = SectorAfter(file'[k][FileAt(p)], pending'[k][FileAt(p)], (p % ChunkSectors) + 1)
              /\ Settled(k, p)' = SectorAfter(file'[k][FileAt(p)], NoWrite, (p % ChunkSectors) + 1)
<1>1. p \in Nat
  BY DEF Places
<1>2. FileAt(p) \in Numbers
  BY <1>1, PlaceIs
<1>3. NoWrites[k][FileAt(p)] = NoWrite
  BY <1>2 DEF NoWrites
<1> QED
  BY <1>3 DEF Shown, Settled, SectorAt

LEMMA StepOnFile ==
  ASSUME DiskTypes, NEW k \in Kinds, NEW p \in Places
  PROVE  /\ Kept(k, FileAt(p)) \/ Created(k, FileAt(p)) =>
              Shown(k, p)' = Shown(k, p) /\ Settled(k, p)' = Settled(k, p)
         /\ Flushed(k, FileAt(p)) => Shown(k, p)' = Shown(k, p) /\ Settled(k, p)' = Shown(k, p)
         /\ Lost(k, FileAt(p)) => /\ Settled(k, p)' = Shown(k, p)'
                                  /\ Shown(k, p)' = Shown(k, p) \/ Shown(k, p)' = Settled(k, p)
<1> DEFINE i == FileAt(p)
           s == (p % ChunkSectors) + 1
           f == file[k][i]
           w == pending[k][i]
<1>1. p \in Nat
  BY DEF Places
<1>2. i \in Numbers /\ s \in 1 .. ChunkSectors /\ s \in Nat \ {0}
  BY <1>1, PlaceIs, ChunkSize
<1>3. /\ f = NoFile => Shown(k, p) = Zero /\ Settled(k, p) = Zero
      /\ f # NoFile => Shown(k, p) = SectorAfter(f, w, s) /\ Settled(k, p) = SectorAfter(f, NoWrite, s)
      /\ file'[k][i] # NoFile =>
           /\ Shown(k, p)' = SectorAfter(file'[k][i], pending'[k][i], s)
           /\ Settled(k, p)' = SectorAfter(file'[k][i], NoWrite, s)
  BY SectorsAre
<1>4. (f # NoFile => f \in Contents /\ Visible(k, i) = Written(f, w)) /\ w \in Writes
  BY <1>2, VisibleIs DEF DiskTypes
<1> HIDE DEF i, s
<1>5. ASSUME Kept(k, i)
      PROVE  Shown(k, p)' = Shown(k, p) /\ Settled(k, p)' = Settled(k, p)
  <2>1. file'[k][i] = file[k][i] /\ pending'[k][i] = pending[k][i]
    BY <1>5 DEF Kept
  <2>2. NoWrites' = NoWrites
    BY DEF NoWrites
  <2> QED
    BY <2>1, <2>2 DEF Shown, Settled, SectorAt, i
<1>6. ASSUME Created(k, i)
      PROVE  Shown(k, p)' = Shown(k, p) /\ Settled(k, p)' = Settled(k, p)
  <2> DEFINE z == [at |-> 0, data |-> Zeros(ChunkSectors)]
  <2>1. f = NoFile /\ file'[k][i] = <<>> /\ pending'[k][i] = z
    BY <1>6 DEF Created
  <2>2. /\ z \in Writes /\ z.at = 0 /\ Len(z.data) = ChunkSectors
        /\ \A t \in 1 .. ChunkSectors : z.data[t] = Zero
    BY ZerosFit
  <2> HIDE DEF z
  <2>3. s - 0 = s /\ 0 + 1 = 1 /\ 0 + ChunkSectors = ChunkSectors
    BY <1>2, ChunkSize
  <2>4. SectorAfter(<<>>, z, s) = Zero
    BY <1>2, <2>2, <2>3 DEF SectorAfter
  <2>5. SectorAfter(<<>>, NoWrite, s) = Zero
    <3>1. s \notin NoWrite.at + 1 .. NoWrite.at + Len(NoWrite.data) /\ ~(s <= Len(<<>>))
      BY <1>2, NoWriteFits
    <3> QED
      BY <3>1 DEF SectorAfter
  <2> QED
    BY <1>3, <2>1, <2>4, <2>5, EmptyFits
<1>7. ASSUME Flushed(k, i)
      PROVE  Shown(k, p)' = Shown(k, p) /\ Settled(k, p)' = Shown(k, p)
  <2>1. f \in Contents /\ file'[k][i] = Written(f, w) /\ pending'[k][i] = NoWrite
    BY <1>4, <1>7 DEF Flushed
  <2>2. SectorAfter(Written(f, w), NoWrite, s) = SectorAfter(f, w, s)
    BY <1>2, <1>4, <2>1, WrittenSector
  <2>3. Written(f, w) # NoFile /\ f # NoFile
    BY <1>4, <2>1, WrittenIs, EmptyFits
  <2> QED
    BY <1>3, <2>1, <2>2, <2>3
<1>8. ASSUME Lost(k, i)
      PROVE  /\ Settled(k, p)' = Shown(k, p)'
             /\ Shown(k, p)' = Shown(k, p) \/ Shown(k, p)' = Settled(k, p)
  <2>1. PICK v \in Prefixes(w) : file'[k][i] = Written(f, v) /\ pending'[k][i] = NoWrite
    BY <1>8 DEF Lost
  <2>2. f # NoFile /\ f \in Contents
    BY <1>4, <1>8 DEF Lost
  <2>3. /\ v \in Writes
        /\ \/ SectorAfter(f, v, s) = SectorAfter(f, w, s)
           \/ SectorAfter(f, v, s) = SectorAfter(f, NoWrite, s)
    BY <1>2, <1>4, <2>2, PrefixSector
  <2>4. SectorAfter(Written(f, v), NoWrite, s) = SectorAfter(f, v, s)
    BY <1>2, <2>2, <2>3, WrittenSector
  <2>5. Written(f, v) # NoFile
    BY <2>2, <2>3, WrittenIs, EmptyFits
  <2> QED
    BY <1>3, <2>1, <2>2, <2>3, <2>4, <2>5
<1> QED
  BY <1>5, <1>6, <1>7, <1>8 DEF i

\* A write to a file that exists: the buffer is written out, and then the write is
\* buffered, or reaches the file.
LEMMA WriteToFile ==
  ASSUME DiskTypes, NEW k \in Kinds, NEW p \in Places, NEW w \in Writes,
         file[k][FileAt(p)] # NoFile,
         \/ file'[k][FileAt(p)] = Visible(k, FileAt(p)) /\ pending'[k][FileAt(p)] = w
         \/ file'[k][FileAt(p)] = Written(Visible(k, FileAt(p)), w) /\ pending'[k][FileAt(p)] = NoWrite
  PROVE  LET s == (p % ChunkSectors) + 1
         IN  /\ Shown(k, p)' = IF s \in w.at + 1 .. w.at + Len(w.data) THEN w.data[s - w.at]
                               ELSE Shown(k, p)
             /\ Settled(k, p)' = Shown(k, p) \/ Settled(k, p)' = Shown(k, p)'
<1> DEFINE i == FileAt(p)
           s == (p % ChunkSectors) + 1
           f == file[k][i]
           v == pending[k][i]
<1>1. p \in Nat
  BY DEF Places
<1>2. i \in Numbers /\ s \in Nat \ {0}
  BY <1>1, PlaceIs, ChunkSize
<1>3. /\ Shown(k, p) = SectorAfter(f, v, s)
      /\ file'[k][i] # NoFile =>
           /\ Shown(k, p)' = SectorAfter(file'[k][i], pending'[k][i], s)
           /\ Settled(k, p)' = SectorAfter(file'[k][i], NoWrite, s)
  BY SectorsAre
<1>4. f \in Contents /\ Visible(k, i) = Written(f, v) /\ v \in Writes
  BY <1>2, VisibleIs DEF DiskTypes
<1> HIDE DEF i, s
<1> DEFINE g == Written(f, v)
<1>5. g \in Contents /\ g # NoFile
  BY <1>4, WrittenIs, EmptyFits
<1>6. /\ SectorAfter(g, w, s) = IF s \in w.at + 1 .. w.at + Len(w.data) THEN w.data[s - w.at]
                                ELSE SectorAfter(f, v, s)
      /\ SectorAfter(g, NoWrite, s) = SectorAfter(f, v, s)
  BY <1>2, <1>4, AfterWritten, WrittenSector
<1> HIDE DEF g
<1>7. /\ Written(g, w) \in Contents /\ Written(g, w) # NoFile
      /\ SectorAfter(Written(g, w), NoWrite, s) = SectorAfter(g, w, s)
  BY <1>2, <1>5, WrittenIs, EmptyFits, WrittenSector
<1>8. CASE file'[k][i] = g /\ pending'[k][i] = w
  BY <1>3, <1>5, <1>6, <1>8 DEF s
<1>9. CASE file'[k][i] = Written(g, w) /\ pending'[k][i] = NoWrite
  BY <1>3, <1>6, <1>7, <1>9 DEF s
<1> QED
  BY <1>4, <1>8, <1>9 DEF g, i

-----------------------------------------------------------------------------
(***************************************************************************)
(* The steps of the device that the steps on the files are.                *)
(***************************************************************************)

\* Files that are there stay, so that what has been provided never shrinks.
LEMMA SizesGrow ==
  ASSUME \A k \in Kinds, i \in Numbers : file[k][i] # NoFile => file'[k][i] # NoFile
  PROVE  Device!SizeGrows
<1>1. ASSUME NEW k \in Kinds
      PROVE  ChunkSectors * Counted(k)' >= ChunkSectors * Counted(k)
  <2> DEFINE a == Counted(k)
  <2>1. a \in 0 .. MaxFiles /\ \A i \in Numbers : i <= a <=> \A j \in 1 .. i : file[k][j] # NoFile
    BY CountedIs
  <2>2. PICK b : b = Counted(k)'
    OBVIOUS
  <2>3. b = Cardinality({i \in Numbers : \A j \in 1 .. i : file'[k][j] # NoFile})
    BY <2>2 DEF Counted
  <2>4. b \in 0 .. MaxFiles /\ \A i \in Numbers : i <= b <=> \A j \in 1 .. i : file'[k][j] # NoFile
    BY <2>3, CountOf
  <2> HIDE DEF a
  <2>5. a <= b
    <3>1. CASE a = 0
      BY <2>4, <3>1, ChunkSize
    <3>2. CASE a # 0
      <4>1. a \in Numbers /\ a <= a /\ \A j \in 1 .. a : j \in Numbers
        BY <2>1, <3>2, ChunkSize DEF Numbers
      <4> QED
        BY <2>1, <2>4, <4>1
    <3> QED
      BY <3>1, <3>2
  <2>6. ChunkSectors * a <= ChunkSectors * b
    <3>1. a \in Nat /\ b - a \in Nat /\ b = a + (b - a) /\ ChunkSectors \in Nat
      BY <2>1, <2>4, <2>5, ChunkSize
    <3> DEFINE d == b - a
    <3> HIDE DEF d
    <3>2. ChunkSectors * (a + d) = ChunkSectors * a + ChunkSectors * d /\ ChunkSectors * d \in Nat
            /\ ChunkSectors * a \in Nat
      BY <3>1 DEF d
    <3>3. b = a + d
      BY <3>1 DEF d
    <3> QED
      BY <3>2, <3>3
  <2>7. ChunkSectors * a \in Int /\ ChunkSectors * b \in Int
    BY <2>1, <2>4, ChunkSize
  <2> QED
    BY <2>2, <2>6, <2>7 DEF a
<1> QED
  BY <1>1 DEF Device!SizeGrows

LEMMA QuietIs ==
  ASSUME DiskTypes, \A k \in Kinds, i \in Numbers : Kept(k, i) \/ Created(k, i) \/ Flushed(k, i)
  PROVE  /\ Device!Quiet /\ Device!SizeGrows
         /\ \A k \in Kinds, p \in Places :
              /\ Shown(k, p)' = Shown(k, p)
              /\ Settled(k, p)' = Settled(k, p) \/ Settled(k, p)' = Shown(k, p)
<1>1. ASSUME NEW k \in Kinds, NEW p \in Places
      PROVE  /\ Shown(k, p)' = Shown(k, p)
             /\ Settled(k, p)' = Settled(k, p) \/ Settled(k, p)' = Shown(k, p)
  <2>1. FileAt(p) \in Numbers
    BY PlaceIs DEF Places
  <2> QED
    BY <2>1, StepOnFile
<1>2. Device!SizeGrows
  <2>1. \A k \in Kinds, i \in Numbers : file[k][i] # NoFile => file'[k][i] # NoFile
    BY VisibleIs, EmptyFits DEF Kept, Created, Flushed
  <2> QED
    BY <2>1, SizesGrow
<1>3. Device!Quiet
  BY <1>1, <1>2 DEF Device!Quiet, Device!Settling, Device!Positions, Places, Shown, Settled
<1> QED
  BY <1>1, <1>2, <1>3

\* A call that ends in an error may lose what was in the buffers.
LEMMA FailIs ==
  ASSUME DiskTypes, \A k \in Kinds, i \in Numbers : Kept(k, i) \/ Flushed(k, i) \/ Lost(k, i),
         call' = NoCall, ~(status' = "success" /\ pc' # "wild"),
         reply' = <<>> \/ (asked' = NoRequest /\ reply' = reply)
  PROVE  Device!Fail
<1>1. ASSUME NEW k \in Kinds, NEW p \in Places
      PROVE  /\ Shown(k, p)' = Shown(k, p) \/ Shown(k, p)' = Settled(k, p)
             /\ \/ Settled(k, p)' = Settled(k, p)
                \/ Settled(k, p)' = Shown(k, p)
                \/ Settled(k, p)' = Shown(k, p)'
  <2>1. FileAt(p) \in Numbers
    BY PlaceIs DEF Places
  <2> QED
    BY <2>1, StepOnFile
<1>2. Device!SizeGrows
  <2>1. ASSUME NEW k \in Kinds, NEW i \in Numbers, file[k][i] # NoFile
        PROVE  file'[k][i] # NoFile
    <3>1. file[k][i] \in Contents /\ pending[k][i] \in Writes /\ Visible(k, i) \in Contents
      BY <2>1, VisibleIs DEF DiskTypes
    <3>2. \A w \in Prefixes(pending[k][i]) : Written(file[k][i], w) \in Contents
      BY <3>1, PrefixFits, WrittenIs
    <3> QED
      BY <2>1, <3>1, <3>2, EmptyFits DEF Kept, Flushed, Lost
  <2> QED
    BY <2>1, SizesGrow
<1>3. [kind |-> call'.kind, first |-> call'.first, data |-> call'.data] = Device!Idle
  BY DEF Device!Idle, NoCall
<1> QED
  BY <1>1, <1>2, <1>3
     DEF Device!Fail, Device!Settling, Device!Positions, Device!NoRequest, NoRequest, Places, Shown, Settled

\* When the buffers are written out.
LEMMA CrashIs ==
  ASSUME DiskTypes, NEW cut, cut \in Cuts \/ cut = Buffered, WriteOut(cut),
         call' = NoCall, reply' = <<>>, asked' = NoRequest
  PROVE  Device!Crash
<1>1. /\ pending' = NoWrites
      /\ \A k \in Kinds, i \in Numbers :
              IF file[k][i] = NoFile THEN file'[k][i] = NoFile
              ELSE /\ file'[k][i] # NoFile
                   /\ \E w \in Prefixes(pending[k][i]) : file'[k][i] = Written(file[k][i], w)
  BY CutsFit, WrittenOut
<1>2. ASSUME NEW k \in Kinds, NEW p \in Places
      PROVE  /\ Settled(k, p)' = Shown(k, p)'
             /\ Shown(k, p)' = Shown(k, p) \/ Shown(k, p)' = Settled(k, p)
  <2>1. FileAt(p) \in Numbers
    BY PlaceIs DEF Places
  <2>2. CASE file[k][FileAt(p)] = NoFile
    BY <1>1, <2>1, <2>2 DEF Shown, Settled, SectorAt
  <2>3. CASE file[k][FileAt(p)] # NoFile
    <3>1. NoWrites[k][FileAt(p)] = NoWrite
      BY <2>1 DEF NoWrites
    <3>2. Lost(k, FileAt(p))
      BY <1>1, <2>1, <2>3, <3>1 DEF Lost
    <3> QED
      BY <3>2, StepOnFile
  <2> QED
    BY <2>2, <2>3
<1>3. Device!SizeGrows
  BY <1>1, SizesGrow
<1>4. [kind |-> call'.kind, first |-> call'.first, data |-> call'.data] = Device!Idle
  BY DEF Device!Idle, NoCall
<1> QED
  BY <1>2, <1>3, <1>4
     DEF Device!Crash, Device!Positions, Device!NoRequest, NoRequest, Places, Shown, Settled

\* The write in progress is one of at least a sector.
LEMMA BusyIs ==
  ASSUME DiskInv
  PROVE  [kind |-> call.kind, first |-> call.first, data |-> call.data] = Device!Idle <=> call = NoCall
<1>1. call \in [kind : Kinds, first : Nat, data : Seq(Data), done : Nat]
  BY DEF DiskInv, DiskTypes
<1>2. call # NoCall => call.done < Len(call.data)
  BY DEF DiskInv, CallFits
<1>3. call # NoCall => call.data # <<>>
  BY <1>1, <1>2, EmptyFits
<1> QED
  BY <1>3 DEF Device!Idle, NoCall

\* A step that shows nothing outside: when no write is in progress it prepares the
\* device, otherwise it is a step of the write.
LEMMA InsideIs ==
  ASSUME DiskInv, \A k \in Kinds, i \in Numbers : Kept(k, i) \/ Created(k, i) \/ Flushed(k, i),
         UNCHANGED <<call, reply>>, asked' = NoRequest
  PROVE  Device!Next
<1>1. DiskTypes
  BY DEF DiskInv
<1>2. /\ Device!Quiet /\ Device!SizeGrows
      /\ \A k \in Kinds, p \in Places :
              /\ Shown(k, p)' = Shown(k, p)
              /\ Settled(k, p)' = Settled(k, p) \/ Settled(k, p)' = Shown(k, p)
  BY <1>1, QuietIs
<1> DEFINE busy == [kind |-> call.kind, first |-> call.first, data |-> call.data]
<1>3. busy = Device!Idle <=> call = NoCall
  BY BusyIs
<1>4. busy' = busy
  OBVIOUS
<1>5. CASE call = NoCall
  BY <1>2, <1>3, <1>4, <1>5 DEF Device!Next, Device!Prepare, Device!NoRequest, NoRequest
<1>6. CASE call # NoCall
  <2>1. Device!WriteStep
    BY <1>2, <1>3, <1>4, <1>6
       DEF Device!WriteStep, Device!Settling, Device!Positions, Device!NoRequest, NoRequest,
           Places, Shown, Settled
  <2> QED
    BY <2>1 DEF Device!Next
<1> QED
  BY <1>5, <1>6

-----------------------------------------------------------------------------
\* A reply is what the last call has read: nothing writes or opens files over it.
ReplyFits == reply # <<>> => open /\ pc \in {"idle", "wild"}

\* What the write in progress has done so far is what the sectors show.
SoFar ==
  call # NoCall =>
    \A p \in call.first .. call.first + call.done - 1 :
      Shown(call.kind, p) = call.data[p - call.first + 1]

DeviceInv == GrowInv /\ Known /\ ReplyFits /\ SoFar

\* The range of the write in progress lies in files that the array has slots for.
LEMMA RangeFits ==
  ASSUME DiskTypes, CallFits, call # NoCall,
         NEW p \in call.first .. call.first + Len(call.data) - 1
  PROVE  p \in Places /\ p \in Nat /\ FileAt(p) \in 1 .. num[call.kind]
<1> DEFINE q == call.first + Len(call.data) - 1
<1>1. /\ call.kind \in Kinds /\ call.first \in Nat /\ call.data \in Seq(Data)
      /\ num[call.kind] \in 0 .. MaxFiles /\ FileAt(q) <= num[call.kind]
  BY DEF DiskTypes, CallFits
<1>2. Len(call.data) \in Nat
  BY <1>1, LenProperties
<1>3. p \in Nat /\ q \in Nat /\ p <= q
  BY <1>1, <1>2
<1> HIDE DEF q
<1>4. FileAt(p) \in Nat \ {0} /\ FileAt(q) \in Nat \ {0} /\ FileAt(p) <= FileAt(q)
  BY <1>3, FileOrder
<1>5. FileAt(p) \in 1 .. num[call.kind] /\ FileAt(p) \in Numbers
  BY <1>1, <1>4, ChunkSize DEF Numbers
<1> QED
  BY <1>3, <1>5, PlaceIs

\* What the write of a share, or of a part of it, does to the sectors.
LEMMA ShareSectors ==
  ASSUME DiskTypes, CallFits, call # NoCall, file[call.kind][Current] # NoFile,
         NEW w \in Writes, w.at = (Place % ChunkSectors),
         Len(w.data) <= Len(call.data) - call.done,
         \A j \in 1 .. Len(w.data) : w.data[j] = call.data[call.done + j],
         NEW f \in Contents, NEW v \in Writes, SetFile(call.kind, Current, f, v),
         \/ f = Visible(call.kind, Current) /\ v = w
         \/ f = Written(Visible(call.kind, Current), w) /\ v = NoWrite,
         NEW l \in Kinds, NEW p \in Places
  PROVE  /\ l = call.kind /\ p \in Place .. Place + Len(w.data) - 1 =>
              /\ FileAt(p) = Current
              /\ Shown(l, p)' = call.data[p - call.first + 1]
         /\ ~(l = call.kind /\ p \in Place .. Place + Len(w.data) - 1) =>
              Shown(l, p)' = Shown(l, p)
         /\ l = call.kind /\ FileAt(p) = Current =>
              Settled(l, p)' = Shown(l, p) \/ Settled(l, p)' = Shown(l, p)'
         /\ ~(l = call.kind /\ FileAt(p) = Current) => Settled(l, p)' = Settled(l, p)
<1> DEFINE k == call.kind
           i == Current
           a == Place
           n == Len(w.data)
           s == (p % ChunkSectors) + 1
           r == (a % ChunkSectors)
<1>1. /\ a \in Nat /\ i \in Numbers /\ k \in Kinds /\ p \in Nat
      /\ call.first \in Nat /\ call.done \in Nat /\ a = call.first + call.done
  BY CurrentCounts DEF Places, DiskTypes, Place
<1>2. ChunkSectors \in Nat \ {0}
  BY ChunkSize
<1>3. /\ i = FileAt(a) /\ r + 1 \in 1 .. ChunkSectors /\ a = ChunkSectors * (i - 1) + r
      /\ i \in Nat \ {0}
  BY <1>1, PlaceIs DEF Current
<1>4. /\ FileAt(p) \in Nat \ {0} /\ s \in 1 .. ChunkSectors /\ FileAt(p) \in Numbers
      /\ p = ChunkSectors * (FileAt(p) - 1) + (p % ChunkSectors)
  BY <1>1, PlaceIs
<1>5. n \in Nat /\ r + n <= ChunkSectors /\ w.at = r
  <2>1. w.data \in Seq(Data) /\ w.at + Len(w.data) <= ChunkSectors
    BY ContentsAre DEF Writes
  <2> QED
    BY <2>1, LenProperties
<1>6. r \in Nat /\ s \in Nat \ {0} /\ (p % ChunkSectors) = s - 1 /\ (p % ChunkSectors) \in Nat
  <2> DEFINE t == (p % ChunkSectors)
  <2>1. t \in 0 .. ChunkSectors - 1 /\ r \in 0 .. ChunkSectors - 1
    BY <1>1, <1>2, NatDivision
  <2>2. s = t + 1
    OBVIOUS
  <2> HIDE DEF t, r, s
  <2>3. r \in Nat /\ s \in Nat \ {0} /\ t = s - 1 /\ t \in Nat
    BY <1>2, <2>1, <2>2
  <2> QED
    BY <2>3 DEF t
<1>7. ASSUME p \in a .. a + n - 1
      PROVE  FileAt(p) = i
  <2> DEFINE c == p - a
             m == i - 1
  <2> HIDE DEF r, s, n, a, i
  <2>1. c \in Nat /\ c < n /\ p = a + c /\ m \in Nat /\ i = m + 1
    <3>1. a \in Nat /\ p \in Nat /\ n \in Nat /\ i \in Nat \ {0}
      BY <1>1, <1>3, <1>5
    <3>2. c \in Nat /\ c < n /\ p = a + c
      BY ONLY <1>7, <3>1 DEF c
    <3>3. m \in Nat /\ i = m + 1
      BY ONLY <3>1 DEF m
    <3> QED
      BY <3>2, <3>3
  <2> HIDE DEF c, m
  <2>2. r + c \in 0 .. ChunkSectors - 1
    BY <1>2, <1>5, <1>6, <2>1
  <2>3. p = ChunkSectors * m + (r + c)
    <3>1. a = ChunkSectors * m + r
      BY <1>3 DEF m
    <3>2. ChunkSectors * m \in Nat
      BY <1>2, <2>1
    <3> QED
      BY <1>6, <2>1, <3>1, <3>2
  <2>4. p \div ChunkSectors = m
    BY <1>2, <2>1, <2>2, <2>3, QuotientIs
  <2> QED
    BY <2>1, <2>4 DEF FileAt, i
<1>8. FileAt(p) = i => p - a = s - 1 - r
  <2> HIDE DEF r, s, a, i
  <2>1. SUFFICES ASSUME FileAt(p) = i
                 PROVE  p - a = s - 1 - r
    OBVIOUS
  <2> DEFINE b == ChunkSectors * (i - 1)
  <2>2. b \in Nat
    BY <1>2, <1>3
  <2>3. p = b + (s - 1) /\ a = b + r
    BY <1>3, <1>4, <1>6, <2>1
  <2> HIDE DEF b
  <2> QED
    BY <1>6, <2>2, <2>3
<1>9. FileAt(p) = i => (s \in w.at + 1 .. w.at + n <=> p \in a .. a + n - 1)
  <2> HIDE DEF r, s, a, i, n
  <2>1. SUFFICES ASSUME FileAt(p) = i
                 PROVE  s \in w.at + 1 .. w.at + n <=> p \in a .. a + n - 1
    OBVIOUS
  <2>2. p - a = s - 1 - r
    BY <1>8, <2>1
  <2>3. p \in Nat /\ a \in Nat /\ n \in Nat /\ r \in Nat /\ s \in Nat
    BY <1>1, <1>5, <1>6
  <2>4. s \in r + 1 .. r + n <=> p \in a .. a + n - 1
    BY ONLY <2>2, <2>3
  <2> QED
    BY <1>5, <2>4
<1>10. /\ file'[k][i] = f /\ pending'[k][i] = v
       /\ \A m \in Kinds, j \in Numbers : m # k \/ j # i => Kept(m, j)
  BY <1>1, FileSet DEF Kept
<1>11. CASE l = k /\ FileAt(p) = i
  <2>1. \/ file'[k][FileAt(p)] = Visible(k, FileAt(p)) /\ pending'[k][FileAt(p)] = w
        \/ file'[k][FileAt(p)] = Written(Visible(k, FileAt(p)), w) /\ pending'[k][FileAt(p)] = NoWrite
    BY <1>10, <1>11
  <2>2. /\ Shown(l, p)' = IF s \in w.at + 1 .. w.at + n THEN w.data[s - w.at] ELSE Shown(l, p)
        /\ Settled(l, p)' = Shown(l, p) \/ Settled(l, p)' = Shown(l, p)'
    <3>1. file[l][FileAt(p)] # NoFile
      BY <1>11
    <3>2. \/ file'[l][FileAt(p)] = Visible(l, FileAt(p)) /\ pending'[l][FileAt(p)] = w
          \/ file'[l][FileAt(p)] = Written(Visible(l, FileAt(p)), w) /\ pending'[l][FileAt(p)] = NoWrite
      BY <1>11, <2>1
    <3> QED
      BY <3>1, <3>2, WriteToFile
  <2>3. ASSUME p \in a .. a + n - 1
        PROVE  Shown(l, p)' = call.data[p - call.first + 1]
    <3>1. s \in w.at + 1 .. w.at + n
      BY <1>9, <1>11, <2>3
    <3> HIDE DEF s, n
    <3>2. s - w.at \in 1 .. n /\ call.done + (s - w.at) = p - call.first + 1
      <4> DEFINE d == call.done
                 e == call.first
      <4> HIDE DEF r, a, i
      <4>1. p - a = s - 1 - r
        BY <1>8, <1>11
      <4>2. p \in Nat /\ a \in Nat /\ n \in Nat /\ r \in Nat /\ s \in Nat /\ d \in Nat /\ e \in Nat
            /\ a = e + d /\ s \in r + 1 .. r + n
        BY <1>1, <1>5, <1>6, <3>1
      <4> HIDE DEF d, e
      <4>3. s - r \in 1 .. n /\ d + (s - r) = p - e + 1
        BY ONLY <4>1, <4>2
      <4> QED
        BY <1>5, <4>3 DEF d, e
    <3>3. w.data[s - w.at] = call.data[call.done + (s - w.at)]
      BY <3>2 DEF n
    <3> QED
      BY <2>2, <3>1, <3>2, <3>3
  <2> QED
    BY <1>9, <1>11, <2>2, <2>3
<1>12. CASE ~(l = k /\ FileAt(p) = i)
  <2>1. Kept(l, FileAt(p))
    BY <1>4, <1>10, <1>12
  <2>2. Shown(l, p)' = Shown(l, p) /\ Settled(l, p)' = Settled(l, p)
    BY <2>1, StepOnFile
  <2> QED
    BY <1>7, <1>12, <2>2
<1> QED
  BY <1>11, <1>12

\* What a transfer has done when it is over.
LEMMA TransferIs ==
  ASSUME DeviceInv, Transfer
  PROVE  /\ call # NoCall /\ call.kind \in Kinds /\ DiskTypes /\ CallFits
         /\ UNCHANGED reply /\ open /\ pc = "transfer"
         /\ Device!SizeGrows
         /\ Len(Share.data) \in 1 .. Len(call.data) - call.done
         /\ \A l \in Kinds, p \in Places :
              /\ Shown(l, p)' # Shown(l, p) =>
                   /\ l = call.kind /\ p \in call.first .. call.first + Len(call.data) - 1
                   /\ Shown(l, p)' = call.data[p - call.first + 1]
              /\ l = call.kind /\ FileAt(p) = Current =>
                   /\ Settled(l, p)' = Shown(l, p) \/ Settled(l, p)' = Shown(l, p)'
              /\ ~(l = call.kind /\ FileAt(p) = Current) =>
                   Settled(l, p)' = Settled(l, p) /\ Shown(l, p)' = Shown(l, p)
         /\ \A l \in Kinds, p \in call.first .. call.first + call.done + Len(Share.data) - 1 :
              p \in Places /\ (l = call.kind => Shown(l, p)' = call.data[p - call.first + 1])
<1>1. /\ DiskTypes /\ CallFits /\ OpenAreFiles /\ SoFar /\ pc = "transfer" /\ call # NoCall
      /\ UNCHANGED reply /\ slot[call.kind][Current] = "open"
      /\ SetFile(call.kind, Current, Visible(call.kind, Current), Share)
  BY DEF DeviceInv, GrowInv, DiskInv, CallFits, Transfer, Transferring, UsableFile
<1>2. /\ Place \in Nat /\ Current \in Numbers /\ call.kind \in Kinds /\ call.done < Len(call.data)
      /\ open
  BY <1>1, CurrentCounts DEF CallFits
<1>3. file[call.kind][Current] # NoFile /\ Visible(call.kind, Current) \in Contents
  BY <1>1, <1>2, VisibleIs DEF OpenAreFiles
<1>4. /\ Share \in Writes /\ Share.at = (Place % ChunkSectors)
      /\ Len(Share.data) \in 1 .. Len(call.data) - call.done
      /\ \A j \in 1 .. Len(Share.data) : Share.data[j] = call.data[call.done + j]
  BY <1>1, <1>2, ShareFits
<1>5. call.first \in Nat /\ call.done \in Nat /\ Len(call.data) \in Nat /\ Place = call.first + call.done
  <2>1. call.data \in Seq(Data) /\ call.first \in Nat /\ call.done \in Nat
    BY <1>1 DEF DiskTypes
  <2> QED
    BY <2>1, LenProperties DEF Place
<1> DEFINE n == Len(Share.data)
<1>6. Len(Share.data) <= Len(call.data) - call.done /\ n \in Nat
  BY <1>4, <1>5
<1>7. \A l \in Kinds, p \in Places :
         /\ l = call.kind /\ p \in Place .. Place + n - 1 =>
              /\ FileAt(p) = Current
              /\ Shown(l, p)' = call.data[p - call.first + 1]
         /\ ~(l = call.kind /\ p \in Place .. Place + n - 1) =>
              Shown(l, p)' = Shown(l, p)
         /\ l = call.kind /\ FileAt(p) = Current =>
              Settled(l, p)' = Shown(l, p) \/ Settled(l, p)' = Shown(l, p)'
         /\ ~(l = call.kind /\ FileAt(p) = Current) => Settled(l, p)' = Settled(l, p)
  <2> PICK w \in Writes : w = Share
    BY <1>4
  <2> HIDE DEF n
  <2>1. n = Len(w.data)
    BY DEF n
  <2> QED
    BY <1>1, <1>3, <1>4, <1>6, <2>1, ShareSectors
<1> HIDE DEF n
<1>8. \A p \in Place .. Place + n - 1 : p \in call.first .. call.first + Len(call.data) - 1
  BY <1>4, <1>5 DEF n
<1>9. ASSUME NEW l \in Kinds, NEW p \in call.first .. call.first + call.done + n - 1
      PROVE  p \in Places /\ (l = call.kind => Shown(l, p)' = call.data[p - call.first + 1])
  <2>1. p \in call.first .. call.first + Len(call.data) - 1
    BY <1>4, <1>5 DEF n
  <2>2. p \in Places
    BY <1>1, <2>1, RangeFits
  <2>3. CASE p \in Place .. Place + n - 1
    BY <1>7, <2>2, <2>3
  <2>4. CASE p \notin Place .. Place + n - 1
    <3>1. p \in call.first .. call.first + call.done - 1
      BY <1>4, <1>5, <2>4 DEF n
    <3> QED
      BY <1>1, <1>7, <2>2, <2>4, <3>1 DEF SoFar
  <2> QED
    BY <2>3, <2>4
<1>10. Device!SizeGrows
  <2>1. \A l \in Kinds, j \in Numbers : file[l][j] # NoFile => file'[l][j] # NoFile
    BY <1>1, <1>2, <1>3, <1>4, FileSet
  <2> QED
    BY <2>1, SizesGrow
<1> QED
  BY <1>1, <1>2, <1>4, <1>7, <1>8, <1>9, <1>10 DEF n

\* The sectors up to one in a file that is there have been provided.
LEMMA Provided ==
  ASSUME InTurn, NEW k \in Kinds, NEW p \in Places, file[k][FileAt(p)] # NoFile
  PROVE  p < ChunkSectors * Counted(k)
<1>1. p \in Nat /\ FileAt(p) \in Numbers
  BY PlaceIs DEF Places
<1>2. FileAt(p) <= Counted(k) /\ Counted(k) \in Nat
  BY <1>1, NoneMissing, CountedIs
<1> QED
  BY <1>1, <1>2, PlaceIs

LEMMA DeviceTransfer ==
  ASSUME DeviceInv, Transfer, asked' = NoRequest
  PROVE  Device!Next /\ ReplyFits' /\ SoFar'
<1>1. /\ call # NoCall /\ call.kind \in Kinds /\ DiskTypes /\ CallFits
      /\ UNCHANGED reply /\ open /\ pc = "transfer"
      /\ Device!SizeGrows
      /\ Len(Share.data) \in 1 .. Len(call.data) - call.done
      /\ \A l \in Kinds, p \in Places :
              /\ Shown(l, p)' # Shown(l, p) =>
                   /\ l = call.kind /\ p \in call.first .. call.first + Len(call.data) - 1
                   /\ Shown(l, p)' = call.data[p - call.first + 1]
              /\ l = call.kind /\ FileAt(p) = Current =>
                   /\ Settled(l, p)' = Shown(l, p) \/ Settled(l, p)' = Shown(l, p)'
              /\ ~(l = call.kind /\ FileAt(p) = Current) =>
                   Settled(l, p)' = Settled(l, p) /\ Shown(l, p)' = Shown(l, p)
      /\ \A l \in Kinds, p \in call.first .. call.first + call.done + Len(Share.data) - 1 :
              p \in Places /\ (l = call.kind => Shown(l, p)' = call.data[p - call.first + 1])
  BY TransferIs
<1>2. DiskInv /\ GrowInv /\ InTurn /\ ReplyFits
  BY DEF DeviceInv, GrowInv
<1> DEFINE busy == [kind |-> call.kind, first |-> call.first, data |-> call.data]
           n == Len(Share.data)
<1>3. busy # Device!Idle
  BY <1>1, <1>2, BusyIs
<1>4. \/ call.done + n = Len(call.data) /\ Return("success")
      \/ /\ call.done + n # Len(call.data) /\ UNCHANGED <<pc, status, todo>>
         /\ call' = [call EXCEPT !.done = @ + n]
  BY DEF Transfer
<1>5. reply = <<>> /\ reply' = <<>>
  BY <1>1, <1>2 DEF ReplyFits
<1>6. ReplyFits'
  BY <1>5 DEF ReplyFits
<1>7. Len(call.data) \in Nat /\ call.first \in Nat /\ call.done \in Nat
      /\ call \in [kind : Kinds, first : Nat, data : Seq(Data), done : Nat]
  <2>1. call.data \in Seq(Data) /\ call.first \in Nat /\ call.done \in Nat
    BY <1>1 DEF DiskTypes
  <2> QED
    BY <1>1, <2>1, LenProperties DEF DiskTypes
<1>8. SoFar'
  <2>1. CASE Return("success")
    BY <2>1 DEF Return, SoFar
  <2>2. CASE call' = [call EXCEPT !.done = @ + n]
    <3> HIDE DEF n
    <3>1. /\ call'.kind = call.kind /\ call'.first = call.first /\ call'.data = call.data
          /\ call'.done = call.done + n
      BY <1>7, <2>2
    <3>2. n \in Nat
      BY <1>1, <1>7 DEF n
    <3>3. call.first + (call.done + n) - 1 = call.first + call.done + n - 1
      BY <1>7, <3>2
    <3>4. \A l \in Kinds, p \in call.first .. call.first + call.done + n - 1 :
            l = call.kind => Shown(l, p)' = call.data[p - call.first + 1]
      BY <1>1 DEF n
    <3>5. \A l \in Kinds, p \in call'.first .. call'.first + call'.done - 1 :
            l = call'.kind => Shown(l, p)' = call'.data[p - call'.first + 1]
      BY ONLY <3>1, <3>3, <3>4
    <3>6. call'.kind \in Kinds
      BY <1>1, <3>1
    <3> QED
      BY <3>5, <3>6 DEF SoFar
  <2> QED
    BY <1>4, <2>1, <2>2
<1>9. \A k \in Kinds, p \in Places :
         Settled(k, p)' # Shown(k, p)' =>
            \/ k = call.kind /\ p \in call.first .. call.first + Len(call.data) - 1
            \/ \A q \in Places : q \div ChunkSectors = p \div ChunkSectors => Shown(k, q)' = Shown(k, q)
  <2> SUFFICES ASSUME NEW k \in Kinds, NEW p \in Places, Settled(k, p)' # Shown(k, p)',
                      Shown(k, p)' = Shown(k, p),
                      NEW q \in Places, q \div ChunkSectors = p \div ChunkSectors
               PROVE  Shown(k, q)' = Shown(k, q)
    BY <1>1
  <2>1. ~(k = call.kind /\ FileAt(p) = Current)
    BY <1>1
  <2>2. FileAt(q) = FileAt(p)
    BY DEF FileAt
  <2> QED
    BY <1>1, <2>1, <2>2
<1>10. \A k \in Kinds, p \in Places :
          \/ Settled(k, p)' = Settled(k, p)
          \/ Settled(k, p)' = Shown(k, p)
          \/ Settled(k, p)' = Shown(k, p)'
  BY <1>1
<1>11. CASE call.done + n # Len(call.data) /\ call' = [call EXCEPT !.done = @ + n]
  <2>1. busy' = busy
    BY <1>7, <1>11
  <2>2. Device!WriteStep
    BY <1>1, <1>3, <1>9, <1>10, <2>1
       DEF Device!WriteStep, Device!Settling, Device!InRange, Device!RangeOf, Device!Chunk,
           Device!Positions, Device!NoRequest, NoRequest, Places, Shown, Settled
  <2> QED
    BY <1>6, <1>8, <2>2 DEF Device!Next
<1>12. CASE call.done + n = Len(call.data) /\ Return("success")
  <2>1. busy' = Device!Idle
    BY <1>12 DEF Return, Device!Idle, NoCall
  <2>2. \A l \in Kinds, p \in call.first .. call.first + Len(call.data) - 1 :
          /\ p \in Places /\ (l = call.kind => Shown(l, p)' = call.data[p - call.first + 1])
    <3> HIDE DEF n
    <3>1. call.first + call.done + n - 1 = call.first + Len(call.data) - 1
      <4>1. n \in Nat
        BY <1>1, <1>7 DEF n
      <4> QED
        BY <1>7, <1>12, <4>1
    <3>2. \A l \in Kinds, p \in call.first .. call.first + call.done + n - 1 :
            p \in Places /\ (l = call.kind => Shown(l, p)' = call.data[p - call.first + 1])
      BY <1>1 DEF n
    <3> QED
      BY ONLY <3>1, <3>2
  <2>3. ASSUME NEW k \in Kinds, k = call.kind,
               NEW p \in call.first .. call.first + Len(call.data) - 1
        PROVE  p < ChunkSectors * Counted(k)'
    <3>1. p \in Places /\ p \in Nat /\ FileAt(p) \in 1 .. num[k]
      BY <1>1, <2>3, RangeFits
    <3>2. file[k][FileAt(p)] # NoFile
      BY <1>1, <1>2, <3>1, SlotIsOpen DEF Creating
    <3>3. p < ChunkSectors * Counted(k)
      BY <1>2, <3>1, <3>2, Provided
    <3>4. ChunkSectors * Counted(k)' >= ChunkSectors * Counted(k)
      BY <1>1 DEF Device!SizeGrows
    <3>5. Counted(k) \in Nat /\ Counted(k)' \in Nat
      <4>1. PICK b : b = Counted(k)'
        OBVIOUS
      <4>2. b = Cardinality({i \in Numbers : \A j \in 1 .. i : file'[k][j] # NoFile})
        BY <4>1 DEF Counted
      <4> QED
        BY <4>1, <4>2, CountOf, CountedIs
    <3>6. ChunkSectors * Counted(k) \in Int /\ ChunkSectors * Counted(k)' \in Int
      BY <3>5, ChunkSize
    <3> QED
      BY <3>1, <3>3, <3>4, <3>6
  <2>4. Device!WriteStep
    BY <1>1, <1>3, <1>9, <1>10, <2>1, <2>2, <2>3
       DEF Device!WriteStep, Device!Settling, Device!InRange, Device!RangeOf, Device!Chunk,
           Device!Positions, Device!NoRequest, NoRequest, Places, Shown, Settled
  <2> QED
    BY <1>6, <1>8, <2>4 DEF Device!Next
<1> QED
  BY <1>4, <1>6, <1>8, <1>11, <1>12

\* No write is in progress between calls.
LEMMA NoneBusy ==
  ASSUME DeviceInv, pc \in {"idle", "wild"}
  PROVE  call = NoCall /\ todo = <<>> /\ DiskInv /\ DiskTypes /\ OpenAreFiles /\ SlotsOpen /\ InTurn
BY DEF DeviceInv, GrowInv, DiskInv, CallFits

LEMMA NothingSoFar ==
  ASSUME call' = NoCall
  PROVE  SoFar'
BY DEF SoFar

LEMMA DeviceOpen ==
  ASSUME NoGrowFault, DeviceInv, DiskOpen, asked' = NoRequest
  PROVE  Device!Next /\ ReplyFits' /\ SoFar'
<1>1. pc = "idle" /\ ~open /\ UNCHANGED <<file, pending, call>> /\ reply' = <<>>
  BY DEF DiskOpen, NoGrowFault, disk
<1>2. reply = <<>> /\ DiskInv /\ call = NoCall
  BY <1>1, NoneBusy DEF DeviceInv, ReplyFits
<1>3. \A k \in Kinds, i \in Numbers : Kept(k, i)
  BY <1>1 DEF Kept
<1>4. Device!Next
  BY <1>1, <1>2, <1>3, InsideIs
<1> QED
  BY <1>1, <1>2, <1>4, NothingSoFar DEF ReplyFits

\* A step of the creation of files that leaves the call.
LEMMA DeviceCreates ==
  ASSUME DeviceInv, Creating, UNCHANGED <<call, reply>>, asked' = NoRequest,
         \A k \in Kinds, i \in Numbers : Kept(k, i) \/ Created(k, i) \/ Flushed(k, i)
  PROVE  Device!Next /\ ReplyFits' /\ SoFar'
<1>1. reply = <<>> /\ DiskInv /\ DiskTypes /\ CallFits /\ SoFar
  BY DEF DeviceInv, GrowInv, DiskInv, ReplyFits, Creating
<1>2. Device!Next
  BY <1>1, InsideIs
<1>3. \A k \in Kinds, p \in Places : Shown(k, p)' = Shown(k, p)
  BY <1>1, QuietIs
<1>4. SoFar'
  <2> SUFFICES ASSUME call # NoCall, NEW k, k = call.kind,
                      NEW p \in call.first .. call.first + call.done - 1
               PROVE  Shown(k, p)' = call.data[p - call.first + 1]
    BY DEF SoFar
  <2>1. k \in Kinds /\ p \in call.first .. call.first + Len(call.data) - 1
    <3>1. /\ call.first \in Nat /\ call.done \in Nat /\ call.data \in Seq(Data) /\ k \in Kinds
          /\ call.done < Len(call.data)
      BY <1>1 DEF DiskTypes, CallFits
    <3>2. Len(call.data) \in Nat
      BY <3>1, LenProperties
    <3> QED
      BY <3>1, <3>2
  <2>2. p \in Places
    BY <1>1, <2>1, RangeFits
  <2> QED
    BY <1>1, <1>3, <2>1, <2>2 DEF SoFar
<1> QED
  BY <1>1, <1>2, <1>4 DEF ReplyFits

LEMMA DeviceOpened ==
  ASSUME DeviceInv, Opened, asked' = NoRequest
  PROVE  Device!Next /\ ReplyFits' /\ SoFar'
<1>1. pc = "create" /\ UNCHANGED <<file, pending, reply>>
  BY DEF Opened, disk
<1>2. call' = call
  BY DEF Opened, Return
<1>3. \A k \in Kinds, i \in Numbers : Kept(k, i)
  BY <1>1 DEF Kept
<1> QED
  BY <1>1, <1>2, <1>3, DeviceCreates DEF Creating

LEMMA DeviceOpenFile ==
  ASSUME DeviceInv, OpenFile, asked' = NoRequest
  PROVE  Device!Next /\ ReplyFits' /\ SoFar'
<1>1. DiskTypes /\ pc = "create" /\ todo # <<>> /\ UNCHANGED <<call, reply>>
  BY DEF DeviceInv, GrowInv, DiskInv, OpenFile
<1> DEFINE k == todo[1][1]
           i == todo[1][2]
           z == [at |-> 0, data |-> Zeros(ChunkSectors)]
<1>2. k \in Kinds /\ i \in Numbers
  BY <1>1 DEF DiskTypes
<1>3. \/ file[k][i] = NoFile /\ SetFile(k, i, <<>>, z)
      \/ UNCHANGED <<file, pending>>
  BY DEF OpenFile
<1>4. z \in Writes
  BY ZerosFit
<1> HIDE DEF k, i
<1>5. ASSUME NEW l \in Kinds, NEW j \in Numbers
      PROVE  Kept(l, j) \/ Created(l, j)
  <2>1. CASE UNCHANGED <<file, pending>>
    BY <2>1 DEF Kept
  <2>2. CASE file[k][i] = NoFile /\ SetFile(k, i, <<>>, z)
    <3> HIDE DEF z
    <3>1. /\ file'[k][i] = <<>> /\ pending'[k][i] = z
          /\ l # k \/ j # i => file'[l][j] = file[l][j] /\ pending'[l][j] = pending[l][j]
      BY <1>1, <1>2, <1>4, <2>2, EmptyFits, FileSet
    <3> QED
      BY <2>2, <3>1 DEF Kept, Created, z
  <2> QED
    BY <1>3, <2>1, <2>2
<1> QED
  BY <1>1, <1>5, DeviceCreates DEF Creating

LEMMA DeviceRewind ==
  ASSUME DeviceInv, Rewind, asked' = NoRequest
  PROVE  Device!Next /\ ReplyFits' /\ SoFar'
<1>1. /\ DiskTypes /\ OpenAreFiles /\ pc = "rewind" /\ todo # <<>> /\ UNCHANGED <<call, reply>>
      /\ slot[todo[1][1]][todo[1][2]] = "open"
  BY DEF DeviceInv, GrowInv, DiskInv, CallFits, SlotsOpen, Rewind
<1> DEFINE k == todo[1][1]
           i == todo[1][2]
<1>2. k \in Kinds /\ i \in Numbers /\ SetFile(k, i, Visible(k, i), NoWrite) /\ slot[k][i] = "open"
  BY <1>1 DEF DiskTypes, Rewind
<1> HIDE DEF k, i
<1>3. file[k][i] # NoFile /\ Visible(k, i) \in Contents
  BY <1>1, <1>2, VisibleIs DEF OpenAreFiles
<1>4. ASSUME NEW l \in Kinds, NEW j \in Numbers
      PROVE  Kept(l, j) \/ Flushed(l, j)
  <2>1. /\ file'[k][i] = Visible(k, i) /\ pending'[k][i] = NoWrite
        /\ l # k \/ j # i => file'[l][j] = file[l][j] /\ pending'[l][j] = pending[l][j]
    BY <1>1, <1>2, <1>3, NoWriteFits, FileSet
  <2> QED
    BY <1>3, <2>1 DEF Kept, Flushed
<1> QED
  BY <1>1, <1>4, DeviceCreates DEF Creating

LEMMA DeviceWrite ==
  ASSUME NEW r \in Requests, NEW v \in Data, NoGrowFault, DeviceInv,
         DiskWrite(r.begin, [s \in 1 .. r.num |-> v]),
         Asks("write", r.begin, r.num, [s \in 1 .. r.num |-> v])
  PROVE  Device!Next /\ ReplyFits' /\ SoFar'
<1> DEFINE data == [s \in 1 .. r.num |-> v]
<1>1. pc = "idle" /\ UNCHANGED <<file, pending>> /\ reply' = <<>>
  BY DEF DiskWrite, disk
<1>2. call = NoCall /\ DiskInv /\ DiskTypes
  BY <1>1, NoneBusy
<1>3. /\ call' = [kind |-> KindOf(r.begin), first |-> Position(r.begin), data |-> data, done |-> 0]
      /\ pc' = "create" /\ UNCHANGED status
  BY DEF DiskWrite, NoGrowFault
<1>4. r.num \in Nat \ {0} /\ Position(r.begin) \in Nat
  BY RequestFits
<1>5. data # <<>>
  <2>1. data \in [1 .. r.num -> Data] /\ 1 \in 1 .. r.num
    BY <1>4
  <2>2. DOMAIN data = 1 .. r.num /\ DOMAIN <<>> = {}
    OBVIOUS
  <2> QED
    BY <2>1, <2>2
<1> HIDE DEF data
<1>6. Device!Quiet
  <2>1. \A k \in Kinds, i \in Numbers : Kept(k, i)
    BY <1>1 DEF Kept
  <2> QED
    BY <1>2, <2>1, QuietIs
<1>7. [kind |-> call.kind, first |-> call.first, data |-> call.data] = Device!Idle
  BY <1>2, BusyIs
<1>9. (status' = "success" /\ pc' # "wild") <=> (status = "success" /\ pc # "wild")
  BY <1>1, <1>3
<1>10. Device!StartWrite
  <2>1. UNCHANGED (status = "success" /\ pc # "wild")
    BY <1>9, Zenon
  <2> QED
    <3>1. /\ asked'.op = "write" /\ asked'.kind = call'.kind /\ asked'.first = call'.first
          /\ asked'.data = call'.data
      BY <1>3 DEF Asks, data
    <3> QED
      BY <1>1, <1>6, <1>7, <2>1, <3>1 DEF Device!StartWrite
<1>11. SoFar'
  <2>1. call'.done = 0 /\ call'.first \in Nat
    BY <1>3, <1>4
  <2>2. call'.first .. call'.first + call'.done - 1 = {}
    BY <2>1
  <2> QED
    BY <2>2 DEF SoFar
<1> QED
  BY <1>1, <1>10, <1>11 DEF ReplyFits, Device!Next

LEMMA DeviceTransferFails ==
  ASSUME DeviceInv, TransferFails, asked' = NoRequest
  PROVE  Device!Next /\ ReplyFits' /\ SoFar'
<1>1. /\ DiskTypes /\ CallFits /\ OpenAreFiles /\ DiskInv /\ pc = "transfer" /\ call # NoCall
      /\ UNCHANGED reply /\ slot[call.kind][Current] = "open" /\ reply = <<>>
  BY DEF DeviceInv, GrowInv, DiskInv, CallFits, TransferFails, Transferring, UsableFile, ReplyFits
<1> DEFINE k == call.kind
           i == Current
<1>2. k \in Kinds /\ i \in Numbers /\ call.done < Len(call.data)
  BY <1>1, CurrentCounts
<1>3. /\ \/ \E w \in Prefixes(pending[k][i]) : SetFile(k, i, Written(file[k][i], w), NoWrite)
         \/ \E w \in Prefixes(Share) : SetFile(k, i, Written(Visible(k, i), w), NoWrite)
      /\ ReturnError(i)
  BY DEF TransferFails
<1>4. /\ Share \in Writes /\ Visible(k, i) \in Contents /\ pending[k][i] \in Writes
      /\ file[k][i] \in Contents /\ file[k][i] # NoFile
  <2>1. file[k][i] # NoFile
    BY <1>1, <1>2 DEF OpenAreFiles
  <2> QED
    BY <1>1, <1>2, <2>1, ShareFits, VisibleIs DEF DiskTypes
<1>5. /\ call' = NoCall /\ pc' \in {"idle", "wild"} /\ ~(status' = "success" /\ pc' # "wild")
  BY <1>1, <1>3, ErrorEnds
<1>6. CASE \E w \in Prefixes(pending[k][i]) : SetFile(k, i, Written(file[k][i], w), NoWrite)
  <2>1. PICK w \in Prefixes(pending[k][i]) : SetFile(k, i, Written(file[k][i], w), NoWrite)
    BY <1>6
  <2>2. Written(file[k][i], w) \in Contents
    BY <1>4, PrefixFits, WrittenIs
  <2> HIDE DEF k, i
  <2>3. ASSUME NEW l \in Kinds, NEW j \in Numbers
        PROVE  Kept(l, j) \/ Lost(l, j)
    <3>1. /\ file'[k][i] = Written(file[k][i], w) /\ pending'[k][i] = NoWrite
          /\ l # k \/ j # i => file'[l][j] = file[l][j] /\ pending'[l][j] = pending[l][j]
      BY <1>1, <1>2, <2>1, <2>2, NoWriteFits, FileSet
    <3> QED
      BY <1>4, <3>1 DEF Kept, Lost
  <2>4. Device!Fail
    BY <1>1, <1>5, <2>3, FailIs
  <2> QED
    BY <1>1, <1>5, <2>4, NothingSoFar DEF Device!Next, ReplyFits
<1>7. CASE \E w \in Prefixes(Share) : SetFile(k, i, Written(Visible(k, i), w), NoWrite)
  <2>1. PICK w \in Prefixes(Share) : SetFile(k, i, Written(Visible(k, i), w), NoWrite)
    BY <1>7
  <2>2. /\ Share.at = (Place % ChunkSectors)
        /\ Len(Share.data) \in 1 .. Len(call.data) - call.done
        /\ \A j \in 1 .. Len(Share.data) : Share.data[j] = call.data[call.done + j]
    BY <1>1, <1>2, ShareFits
  <2>3. /\ w \in Writes /\ w.at = Share.at /\ Len(w.data) \in 0 .. Len(Share.data)
        /\ \A j \in 1 .. Len(w.data) : w.data[j] = Share.data[j]
    BY <1>4, PrefixFits
  <2>4. call.first \in Nat /\ call.done \in Nat /\ Len(call.data) \in Nat /\ Place = call.first + call.done
    <3>1. call.data \in Seq(Data) /\ call.first \in Nat /\ call.done \in Nat
      BY <1>1 DEF DiskTypes
    <3> QED
      BY <3>1, LenProperties DEF Place
  <2>5. Len(w.data) <= Len(call.data) - call.done
    BY <2>2, <2>3, <2>4
  <2>6. \A j \in 1 .. Len(w.data) : w.data[j] = call.data[call.done + j]
    BY <2>2, <2>3
  <2>7. Written(Visible(k, i), w) \in Contents /\ NoWrite \in Writes
    BY <1>4, <2>3, WrittenIs, NoWriteFits
  <2>8. \A l \in Kinds, p \in Places :
         /\ l = call.kind /\ p \in Place .. Place + Len(w.data) - 1 =>
              /\ FileAt(p) = Current
              /\ Shown(l, p)' = call.data[p - call.first + 1]
         /\ ~(l = call.kind /\ p \in Place .. Place + Len(w.data) - 1) =>
              Shown(l, p)' = Shown(l, p)
         /\ l = call.kind /\ FileAt(p) = Current =>
              Settled(l, p)' = Shown(l, p) \/ Settled(l, p)' = Shown(l, p)'
         /\ ~(l = call.kind /\ FileAt(p) = Current) => Settled(l, p)' = Settled(l, p)
    BY <1>1, <1>4, <2>1, <2>2, <2>3, <2>5, <2>6, <2>7, ShareSectors
  <2>9. Place .. Place + Len(w.data) - 1 \subseteq call.first .. call.first + Len(call.data) - 1
    BY <2>3, <2>4, <2>5
  <2>10. Device!SizeGrows
    <3>1. \A l \in Kinds, j \in Numbers : file[l][j] # NoFile => file'[l][j] # NoFile
      BY <1>1, <1>2, <2>1, <2>7, FileSet
    <3> QED
      BY <3>1, SizesGrow
  <2>11. \A l \in Kinds, p \in Places :
          /\ \/ Shown(l, p)' = Shown(l, p)
             \/ /\ l = call.kind /\ p \in call.first .. call.first + Len(call.data) - 1
                /\ Shown(l, p)' = call.data[p - call.first + 1]
          /\ \/ Settled(l, p)' = Settled(l, p)
             \/ Settled(l, p)' = Shown(l, p)
             \/ Settled(l, p)' = Shown(l, p)'
    BY <2>8, <2>9
  <2>12. [kind |-> call'.kind, first |-> call'.first, data |-> call'.data] = Device!Idle
    BY <1>5 DEF Device!Idle, NoCall
  <2>13. Device!Fail
    BY <1>1, <1>5, <2>10, <2>11, <2>12
       DEF Device!Fail, Device!Settling, Device!InRange, Device!RangeOf, Device!Positions,
           Device!NoRequest, NoRequest, Places, Shown, Settled
  <2> QED
    BY <1>1, <1>5, <2>13, NothingSoFar DEF Device!Next, ReplyFits
<1> QED
  BY <1>3, <1>6, <1>7

\* A step that goes wild and leaves the files alone.
LEMMA DeviceWild ==
  ASSUME DeviceInv, UNCHANGED <<file, pending>>, GoWild, UNCHANGED open,
         reply' = <<>> \/ (asked' = NoRequest /\ reply' = reply)
  PROVE  Device!Next /\ ReplyFits' /\ SoFar'
<1>1. \A k \in Kinds, i \in Numbers : Kept(k, i)
  BY DEF Kept
<1>2. Device!Fail
  BY <1>1, FailIs DEF DeviceInv, GrowInv, DiskInv, GoWild
<1> QED
  BY <1>2, NothingSoFar DEF Device!Next, ReplyFits, GoWild, DeviceInv

LEMMA DeviceReadPastEnd ==
  ASSUME NEW r \in Requests, DeviceInv, ReadPastEnd(r.begin, r.num),
         Asks("read", r.begin, r.num, <<>>)
  PROVE  Device!Next /\ ReplyFits' /\ SoFar'
<1> DEFINE k == KindOf(r.begin)
           first == Position(r.begin)
<1>1. /\ pc = "idle" /\ UNCHANGED <<file, pending>> /\ call' = NoCall /\ reply' = <<>>
      /\ open /\ FileAt(first) > num[k] /\ status' = "success" /\ pc' = "idle"
  BY DEF ReadPastEnd, Reading, Return, disk
<1>2. call = NoCall /\ DiskInv /\ DiskTypes
  BY <1>1, NoneBusy
<1>3. Device!Quiet
  <2>1. \A kind \in Kinds, n \in Numbers : Kept(kind, n)
    BY <1>1 DEF Kept
  <2> QED
    BY <1>2, <2>1, QuietIs
<1>4. [kind |-> call.kind, first |-> call.first, data |-> call.data] = Device!Idle
  BY <1>2, BusyIs
<1>5. k \in Kinds /\ first \in Nat /\ asked'.op = "read" /\ asked'.kind = k /\ asked'.first = first
  BY RequestFits DEF Asks
<1> HIDE DEF k, first
<1>6. first >= ChunkSectors * Counted(k)
  <2>1. Counted(k) \in 0 .. MaxFiles /\ num[k] \in 0 .. MaxFiles /\ MaxFiles \in Nat
    BY <1>2, <1>5, ChunkSize, CountedIs DEF DiskTypes
  <2>2. Counted(k) <= num[k]
    <3>1. CASE Counted(k) = 0
      BY <2>1, <3>1
    <3>2. CASE Counted(k) # 0
      <4>1. Counted(k) \in Numbers /\ Counted(k) <= Counted(k) /\ Counted(k) \in 1 .. Counted(k)
        BY <2>1, <3>2 DEF Numbers
      <4>2. file[k][Counted(k)] # NoFile
        BY <1>5, <4>1, CountedIs
      <4> QED
        BY <1>1, <1>5, <4>1, <4>2 DEF DeviceInv, Known
    <3> QED
      BY <3>1, <3>2
  <2>3. ~(FileAt(first) <= Counted(k))
    <3>1. FileAt(first) \in Nat
      BY <1>5, PlaceIs
    <3> QED
      BY <1>1, <2>1, <2>2, <3>1
  <2>4. ~(first < ChunkSectors * Counted(k)) /\ Counted(k) \in Nat
    BY <1>5, <2>1, <2>3, PlaceIs
  <2>5. ChunkSectors * Counted(k) \in Nat
    BY <2>4, ChunkSize
  <2> QED
    BY <1>5, <2>4, <2>5
<1>7. Device!Read
  BY <1>1, <1>2, <1>3, <1>4, <1>5, <1>6 DEF Device!Read
<1> QED
  BY <1>1, <1>7, NothingSoFar DEF Device!Next, ReplyFits

\* The files that a read has sought in are flushed, the last perhaps in part.
LEMMA SoughtFiles ==
  ASSUME DiskTypes, OpenAreFiles, NEW k \in Kinds, NEW from \in Nat, NEW i \in Numbers, from <= i,
         NEW w \in Writes, w \in Prefixes(pending[k][i]) \/ w = pending[k][i],
         SeekTo(k, from, i, Written(file[k][i], w)), \A j \in from .. i : slot[k][j] = "open"
  PROVE  \A l \in Kinds, j \in Numbers :
           \/ Kept(l, j) \/ Flushed(l, j)
           \/ w \in Prefixes(pending[k][i]) /\ Lost(l, j)
<1>1. \A j \in Numbers : j \in from .. i => file[k][j] # NoFile /\ file[k][j] \in Contents
  BY VisibleIs DEF OpenAreFiles
<1>2. i \in from .. i
  BY ChunkSize DEF Numbers
<1>3. Written(file[k][i], w) \in Contents
  BY <1>1, <1>2, WrittenIs
<1>4. /\ \A j \in Numbers :
              /\ file'[k][j] = IF j = i THEN Written(file[k][i], w)
                               ELSE IF j \in from .. i THEN Visible(k, j) ELSE file[k][j]
              /\ pending'[k][j] = IF j \in from .. i THEN NoWrite ELSE pending[k][j]
      /\ \A l \in Kinds, j \in Numbers :
              l # k => file'[l][j] = file[l][j] /\ pending'[l][j] = pending[l][j]
  BY <1>3, Sought
<1>5. file[k][i] # NoFile => Visible(k, i) = Written(file[k][i], pending[k][i])
  BY VisibleIs
<1> SUFFICES ASSUME NEW l \in Kinds, NEW j \in Numbers
             PROVE  Kept(l, j) \/ Flushed(l, j) \/ (w \in Prefixes(pending[k][i]) /\ Lost(l, j))
  OBVIOUS
<1>6. CASE l # k
  BY <1>4, <1>6 DEF Kept
<1>7. CASE l = k /\ j = i
  <2>1. CASE w = pending[k][i]
    BY <1>1, <1>2, <1>4, <1>5, <1>7, <2>1 DEF Flushed
  <2>2. CASE w \in Prefixes(pending[k][i])
    BY <1>1, <1>2, <1>4, <1>7, <2>2 DEF Lost
  <2> QED
    BY <2>1, <2>2
<1>8. CASE l = k /\ j # i
  BY <1>1, <1>4, <1>8 DEF Kept, Flushed
<1> QED
  BY <1>6, <1>7, <1>8

LEMMA DeviceReadFails ==
  ASSUME NEW r \in Requests, DeviceInv, DiskReadFails(r.begin, r.num)
  PROVE  Device!Next /\ ReplyFits' /\ SoFar'
<1>1. pc = "idle" /\ reply' = <<>>
  BY DEF DiskReadFails, Reading
<1>2. DiskInv /\ DiskTypes /\ OpenAreFiles
  BY <1>1, NoneBusy
<1>3. PICK k \in Kinds : \E i \in 1 .. num[k], from \in Nat \ {0}, w \in Writes :
        /\ i \in Numbers /\ from <= i /\ \A j \in from .. i : slot[k][j] = "open"
        /\ ReturnError(i) /\ SeekTo(k, from, i, Written(file[k][i], w))
        /\ w \in Prefixes(pending[k][i]) \/ w = pending[k][i]
  BY <1>2, ReadFailsAt
<1>4. PICK i \in Numbers, from \in Nat, w \in Writes :
        /\ from <= i /\ \A j \in from .. i : slot[k][j] = "open"
        /\ ReturnError(i) /\ SeekTo(k, from, i, Written(file[k][i], w))
        /\ w \in Prefixes(pending[k][i]) \/ w = pending[k][i]
  BY <1>3
<1>5. \A l \in Kinds, j \in Numbers : Kept(l, j) \/ Flushed(l, j) \/ Lost(l, j)
  BY <1>2, <1>4, SoughtFiles
<1>6. call' = NoCall /\ ~(status' = "success" /\ pc' # "wild")
  BY <1>2, <1>4, ErrorEnds
<1>7. Device!Fail
  BY <1>1, <1>2, <1>5, <1>6, FailIs
<1> QED
  BY <1>1, <1>6, <1>7, NothingSoFar DEF Device!Next, ReplyFits

LEMMA DeviceRead ==
  ASSUME NEW r \in Requests, DeviceInv, DiskRead(r.begin, r.num),
         Asks("read", r.begin, r.num, <<>>)
  PROVE  Device!Next /\ ReplyFits' /\ SoFar'
<1> DEFINE k == KindOf(r.begin)
           first == Position(r.begin)
           n == r.num
           from == FileAt(first)
           last == FileAt(first + n - 1)
           end == IF last <= num[k] THEN last ELSE num[k]
<1>1. /\ pc = "idle" /\ open /\ from <= num[k] /\ UNCHANGED open
      /\ \A i \in from .. end : slot[k][i] = "open" /\ Long(k, i, first, n)
      /\ SeekTo(k, from, end, Visible(k, end))
      /\ \/ /\ last <= num[k] /\ Return("success")
            /\ reply' = [s \in 1 .. n |-> Visible(k, FileAt(first + s - 1))[((first + s - 1) % ChunkSectors) + 1]]
         \/ reply' = <<>> /\ Return("param")
  BY DEF DiskRead, Reading, SectorRead
<1>2. call = NoCall /\ DiskInv /\ DiskTypes /\ OpenAreFiles /\ InTurn
  BY <1>1, NoneBusy
<1>3. /\ k \in Kinds /\ first \in Nat /\ n \in Nat \ {0}
      /\ from \in Nat \ {0} /\ from <= last /\ last \in Numbers
  BY RequestFits
<1>4. end \in Numbers /\ from <= end /\ (last <= num[k] => end = last)
  <2>1. num[k] \in 0 .. MaxFiles /\ MaxFiles \in Nat
    BY <1>2, <1>3, ChunkSize DEF DiskTypes
  <2> HIDE DEF k, from, last
  <2> QED
    BY <1>1, <1>3, <2>1 DEF Numbers
<1> HIDE DEF k, end, n
<1>5. \A l \in Kinds, j \in Numbers : Kept(l, j) \/ Flushed(l, j)
  <2> HIDE DEF first, from, last
  <2>1. file[k][end] # NoFile
    BY <1>1, <1>2, <1>3, <1>4, ChunkSize DEF OpenAreFiles, Numbers
  <2>2. PICK w \in Writes : w = pending[k][end]
    BY <1>2, <1>3, <1>4 DEF DiskTypes
  <2>3. Visible(k, end) = Written(file[k][end], w) /\ Visible(k, end) \in Contents
    BY <1>2, <1>3, <1>4, <2>1, <2>2, VisibleIs
  <2>4. /\ \A j \in Numbers :
              /\ file'[k][j] = IF j = end THEN Visible(k, end)
                               ELSE IF j \in from .. end THEN Visible(k, j) ELSE file[k][j]
              /\ pending'[k][j] = IF j \in from .. end THEN NoWrite ELSE pending[k][j]
        /\ \A l \in Kinds, j \in Numbers :
              l # k => file'[l][j] = file[l][j] /\ pending'[l][j] = pending[l][j]
    BY <1>1, <1>2, <1>3, <2>3, Sought
  <2>5. end \in from .. end /\ \A j \in Numbers : j \in from .. end => file[k][j] # NoFile
    BY <1>1, <1>2, <1>3, <1>4, ChunkSize DEF OpenAreFiles, Numbers
  <2> QED
    BY <2>4, <2>5 DEF Kept, Flushed
<1>6. call' = NoCall
  BY <1>1 DEF Return
<1>7. Device!Quiet
  BY <1>2, <1>5, QuietIs
<1>8. /\ [kind |-> call.kind, first |-> call.first, data |-> call.data] = Device!Idle
      /\ [kind |-> call'.kind, first |-> call'.first, data |-> call'.data] = Device!Idle
  BY <1>2, <1>6, BusyIs
<1>9. CASE reply' = <<>> /\ Return("param")
  <2>1. Device!Read
    <3>1. asked'.op = "read" /\ status' # "success"
      BY <1>9 DEF Asks, Return
    <3> QED
      BY <1>7, <1>8, <1>9, <3>1 DEF Device!Read
  <2> QED
    BY <1>6, <1>9, <2>1, NothingSoFar DEF Device!Next, ReplyFits
<1>10. CASE /\ last <= num[k] /\ Return("success")
            /\ reply' = [s \in 1 .. n |-> Visible(k, FileAt(first + s - 1))[((first + s - 1) % ChunkSectors) + 1]]
  <2>1. ASSUME NEW s \in 1 .. n
        PROVE  /\ first + s - 1 \in Places
               /\ first + s - 1 < ChunkSectors * Counted(k)
               /\ Visible(k, FileAt(first + s - 1))[((first + s - 1) % ChunkSectors) + 1]
                    = Shown(k, first + s - 1)
    <3> DEFINE p == first + s - 1
               i == FileAt(p)
               m == (p % ChunkSectors)
    <3>1. p \in Nat /\ first <= p /\ p <= first + n - 1 /\ first + n - 1 \in Nat
          /\ p \in first .. first + n - 1
      BY <1>3
    <3>2. i \in from .. end
      <4> HIDE DEF p
      <4> DEFINE q == first + n - 1
      <4>1. p \in Nat /\ q \in Nat /\ first \in Nat /\ first <= p /\ p <= q
        BY <1>3, <3>1
      <4> HIDE DEF q, first
      <4>2. FileAt(first) <= FileAt(p) /\ FileAt(p) <= FileAt(q)
            /\ FileAt(first) \in Nat /\ FileAt(p) \in Nat /\ FileAt(q) \in Nat
        BY <4>1, FileOrder
      <4>3. end = FileAt(q)
        BY <1>4, <1>10 DEF q
      <4> QED
        BY <4>2, <4>3
    <3>3. i \in Numbers
      BY <1>3, <1>4, <3>2, ChunkSize DEF Numbers
    <3>4. p \in Places /\ m \in Nat /\ m + 1 \in 1 .. ChunkSectors
      <4> HIDE DEF p
      <4>1. p \in Places /\ m + 1 \in 1 .. ChunkSectors
        BY <3>1, <3>3, PlaceIs
      <4>2. m \in Nat
        BY <3>1, ChunkSize, NatDivision
      <4> QED
        BY <4>1, <4>2
    <3> HIDE DEF p
    <3>5. slot[k][i] = "open" /\ Long(k, i, first, n)
      BY <1>1, <3>2
    <3> HIDE DEF first, from, last
    <3>6. file[k][i] # NoFile
      BY <1>2, <1>3, <3>3, <3>5 DEF OpenAreFiles
    <3>7. p < ChunkSectors * Counted(k)
      BY <1>2, <1>3, <3>4, <3>6, Provided
    <3>8. m < Len(Visible(k, i))
      BY <3>1, <3>5 DEF Long
    <3>9. /\ Visible(k, i) = Written(file[k][i], pending[k][i]) /\ Visible(k, i) \in Contents
          /\ file[k][i] \in Contents /\ pending[k][i] \in Writes
      BY <1>2, <1>3, <3>3, <3>6, VisibleIs DEF DiskTypes
    <3>10. Len(Visible(k, i)) \in Nat
      BY <3>9, ContentsAre, LenProperties
    <3>11. m + 1 \in 1 .. Len(Visible(k, i))
      <4> HIDE DEF m, i
      <4> QED
        BY <3>4, <3>8, <3>10
    <3>12. Visible(k, i)[m + 1] = SectorAfter(file[k][i], pending[k][i], m + 1)
      BY <3>9, <3>11, WrittenIs
    <3>13. Shown(k, p) = SectorAfter(file[k][i], pending[k][i], m + 1)
      BY <1>3, <3>4, <3>6, SectorsAre
    <3> QED
      BY <3>4, <3>7, <3>12, <3>13 DEF p
  <2>2. reply' = [s \in 1 .. n |-> Shown(k, first + s - 1)]
    BY <1>10, <2>1
  <2>3. /\ asked'.op = "read" /\ asked'.kind = k /\ asked'.first = first /\ asked'.num = n
        /\ status' = "success" /\ pc' # "wild"
    BY <1>10 DEF Asks, Return, k, n
  <2> HIDE DEF first, from, last
  <2>4. reply' = [s \in 1 .. n |->
           [l \in Kinds |-> [p \in 0 .. LastPosition |-> SectorAt(l, p, pending)]][k][first + s - 1]]
    BY <1>3, <2>1, <2>2 DEF Shown, Places
  <2>5. Device!Read
    BY <1>7, <1>8, <2>3, <2>4 DEF Device!Read
  <2>6. ReplyFits'
    BY <1>1, <1>10 DEF ReplyFits, Return
  <2> QED
    BY <1>6, <2>5, <2>6, NothingSoFar DEF Device!Next
<1> QED
  BY <1>1, <1>9, <1>10

LEMMA DeviceClose ==
  ASSUME DeviceInv, DiskClose, asked' = NoRequest
  PROVE  Device!Next /\ ReplyFits' /\ SoFar'
<1>1. pc = "idle" /\ reply' = <<>>
  BY DEF DiskClose
<1>2. call = NoCall /\ DiskTypes
  BY <1>1, NoneBusy
<1>3. CASE GoWild /\ UNCHANGED <<disk, open>>
  BY <1>1, <1>3, DeviceWild DEF disk
<1>4. CASE /\ UNCHANGED <<status, pc, call, todo>>
           /\ \E cut \in IF "io" \in Faults THEN Cuts ELSE {Buffered} : WriteOut(cut)
  <2>1. PICK cut : (cut \in Cuts \/ cut = Buffered) /\ WriteOut(cut)
    BY <1>4
  <2>2. Device!Crash
    BY <1>1, <1>2, <1>4, <2>1, CrashIs
  <2> QED
    BY <1>1, <1>2, <1>4, <2>2, NothingSoFar DEF Device!Next, ReplyFits
<1> QED
  BY <1>3, <1>4 DEF DiskClose

LEMMA DeviceCrash ==
  ASSUME DeviceInv, DiskCrash, asked' = NoRequest
  PROVE  Device!Next /\ ReplyFits' /\ SoFar'
<1>1. PICK cut \in Cuts : WriteOut(cut)
  BY DEF DiskCrash
<1>2. reply' = <<>> /\ call' = NoCall /\ DiskTypes
  BY DEF DiskCrash, Return, DeviceInv, GrowInv, DiskInv
<1>3. Device!Crash
  BY <1>1, <1>2, CrashIs
<1> QED
  BY <1>2, <1>3, NothingSoFar DEF Device!Next, ReplyFits

LEMMA DeviceStep ==
  ASSUME NoGrowFault
  PROVE  DeviceInv /\ [DiskNext]_vars => [Device!Next]_(Device!dvars) /\ DeviceInv'
<1> SUFFICES ASSUME DeviceInv, [DiskNext]_vars
             PROVE  [Device!Next]_(Device!dvars) /\ ReplyFits' /\ SoFar'
  BY GrowInvNext, KnownNext DEF DeviceInv
<1>1. CASE UNCHANGED vars
  <2>1. UNCHANGED <<file, pending, open, status, pc, call, reply, asked>>
    BY <1>1 DEF vars
  <2>2. ReplyFits' /\ SoFar'
    BY <2>1 DEF DeviceInv, ReplyFits, SoFar, Shown, SectorAt
  <2>3. UNCHANGED Device!dvars
    BY <2>1 DEF Device!dvars, SectorAt, Counted
  <2> QED
    BY <2>2, <2>3
<1>2. CASE DiskCrash /\ asked' = NoRequest
  BY <1>2, DeviceCrash
<1>3. CASE WriteStep
  <2>1. asked' = NoRequest
    BY <1>3 DEF WriteStep
  <2>2. CASE TransferWild
    BY <2>1, <2>2, DeviceWild DEF TransferWild, Transferring, disk
  <2>3. CASE OpenFileFails
    BY <2>3 DEF NoGrowFault, OpenFileFails
  <2>4. CASE FillFails
    BY <2>4 DEF NoGrowFault, FillFails
  <2> QED
    BY <1>3, <2>1, <2>2, <2>3, <2>4, DeviceOpened, DeviceOpenFile, DeviceRewind, DeviceTransfer,
       DeviceTransferFails DEF WriteStep
<1>4. CASE DiskCall
  <2>1. CASE DiskOpen /\ asked' = NoRequest
    BY <2>1, DeviceOpen
  <2>2. CASE DiskClose /\ asked' = NoRequest
    BY <2>2, DeviceClose
  <2>3. ASSUME NEW r \in Requests, NEW v \in Data, DiskWrite(r.begin, [s \in 1 .. r.num |-> v]),
               Asks("write", r.begin, r.num, [s \in 1 .. r.num |-> v])
        PROVE  Device!Next /\ ReplyFits' /\ SoFar'
    BY <2>3, DeviceWrite
  <2>4. ASSUME NEW r \in Requests, DiskReadWild(r.begin, r.num)
        PROVE  Device!Next /\ ReplyFits' /\ SoFar'
    BY <2>4, DeviceWild DEF DiskReadWild, Reading, disk
  <2>5. ASSUME NEW r \in Requests, Asks("read", r.begin, r.num, <<>>),
               \/ ReadPastEnd(r.begin, r.num) \/ DiskRead(r.begin, r.num)
               \/ DiskReadFails(r.begin, r.num)
        PROVE  Device!Next /\ ReplyFits' /\ SoFar'
    BY <2>5, DeviceReadPastEnd, DeviceRead, DeviceReadFails
  <2> QED
    BY <1>4, <2>1, <2>2, <2>3, <2>4, <2>5 DEF DiskCall
<1> QED
  BY <1>1, <1>2, <1>3, <1>4 DEF DiskNext

\* The chunk files behave like the sectors of one device, for any size and number of
\* the files: a read gives what was written, only the range of a write changes, also
\* when it crosses files that it has to create, and neither a failed transfer nor a
\* crash between any two steps does more than undo writes that were still buffered.
THEOREM FilesAreADevice ==
  ASSUME Faults \subseteq {"io"}
  PROVE  DiskSpec => DeviceSpec
<1>1. NoGrowFault
  BY DEF NoGrowFault
<1>2. DiskInit => DeviceInv /\ Device!Init
  <2> SUFFICES ASSUME DiskInit
               PROVE  DeviceInv /\ Device!Init
    OBVIOUS
  <2>1. DeviceInv
    BY GrowInvInit, KnownInit DEF DeviceInv, DiskInit, ReplyFits, SoFar
  <2>2. \A k \in Kinds, p \in Places : Shown(k, p) = 0 /\ Settled(k, p) = 0
    <3>1. \A k \in Kinds, p \in Places : file[k][FileAt(p)] = NoFile
      BY PlaceIs DEF DiskInit, Places
    <3> QED
      BY <3>1, SectorsAre DEF Zero
  <2>3. \A k \in Kinds : ChunkSectors * Counted(k) = 0
    <3>1. ASSUME NEW k \in Kinds
          PROVE  Counted(k) = 0
      <4>1. 1 \in Numbers /\ 1 \in 1 .. 1 /\ file[k][1] = NoFile
        BY ChunkSize DEF Numbers, DiskInit
      <4>2. ~(1 <= Counted(k)) /\ Counted(k) \in Nat
        BY <4>1, CountedIs
      <4> QED
        BY <4>2
    <3> QED
      BY <3>1, ChunkSize
  <2>4. [kind |-> call.kind, first |-> call.first, data |-> call.data] = Device!Idle
    BY DEF DiskInit, Device!Idle, NoCall
  <2>5. (status = "success" /\ pc # "wild") = TRUE /\ reply = <<>> /\ asked = Device!NoRequest
    BY DEF DiskInit, NoRequest, Device!NoRequest
  <2>6. Device!Init
    BY <2>2, <2>3, <2>4, <2>5 DEF Device!Init, Device!Positions, Places, Shown, Settled
  <2> QED
    BY <2>1, <2>6
<1>3. DeviceInv /\ [DiskNext]_vars => [Device!Next]_(Device!dvars) /\ DeviceInv'
  BY <1>1, DeviceStep
<1> QED
  BY <1>2, <1>3, PTL DEF DiskSpec, DeviceSpec, Device!Spec

=============================================================================
