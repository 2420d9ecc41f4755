------------------------- MODULE DataStream_proofs -------------------------
(***************************************************************************)
(* What holds of the data stream for all sizes of cells and items: it uses *)
(* its vector as the vector's own clients do, its pointers stay good, and  *)
(* it implements ItemQueue.                                                *)
(***************************************************************************)
EXTENDS DataStream, FragVector_proofs

\* A number is called with where a cell is meant only when an item is one cell.
WholeIndices == IndexIsOfItem => \A size \in ItemSizes : CellsOf(size) = 1

(***************************************************************************)
(* The inductive invariant.  An item in hand is in its cells up to         *)
(* currentIndex, in the datum of the insert and in rest; as long as no     *)
(* array is missing, with them the cells are those of whole items.  When   *)
(* one is missing, it is the next to be written to.                        *)
(***************************************************************************)
Pending == Len(rest) + (IF pc = "insert" THEN 1 ELSE 0)
Multiple(n) == \E k \in 0 .. n : n = cells * k

NothingOpen ==
  ~Streaming => /\ itemSize = 0 /\ current_size = 0 /\ dest_index = 0 /\ rest = <<>>
                /\ handles = {} /\ answer = "success"
OwnTypes ==
  /\ itemSize \in ItemSizes \cup {0} /\ current_size \in 0 .. MaxCount
  /\ rest \in Seq(Values) /\ dest_index \in 0 .. currentIndex
  /\ answer \in {"success", "memory"}
ItemInHand ==
  Streaming => /\ pc # "closed" /\ Len(rest) < cells
               /\ Pending <= cells /\ currentIndex + Pending <= MaxCells
               /\ pc = "wild" => rest = <<>>
               /\ Pending # 0 => given = <<>>
WholeItems ==
  Streaming => /\ Multiple(dest_index)
               /\ ~Broken => Multiple(currentIndex + Pending)
               /\ current_size >=
                    itemSize * (((currentIndex + Pending) \div cells) - (dest_index \div cells))
StoredValues == Streaming => \A i \in 0 .. currentIndex - 1 : Cell(i) \in Values
MissingIsNext ==
  Streaming /\ Broken /\ pc # "wild" =>
    HasRoom /\ bufferArray[Getaddr(currentIndex).array] = Null
GoodHandles ==
  \A h \in handles : /\ h.item \in ItemsOf(itemSize)
                     /\ \E i \in 0 .. currentIndex - 1 : h.at = Getaddr(i) /\ Cell(i) = h.item[1]

StreamInv ==
  /\ VectorInv /\ MissingByFault
  /\ NothingOpen /\ OwnTypes /\ ItemInHand /\ WholeItems
  /\ StoredValues /\ MissingIsNext /\ GoodHandles
-----------------------------------------------------------------------------
\* An item has a cell at least.
LEMMA CellsPositive ==
  ASSUME VectorAssumption, NEW size \in Nat \ {0}
  PROVE  CellsOf(size) \in Nat \ {0}
<1> DEFINE q == size \div CellSize
           r == (size % CellSize)
<1>1. CellSize \in Nat \ {0}
  BY DEF VectorAssumption
<1>2. q \in Nat /\ r \in 0 .. CellSize - 1 /\ size = CellSize * q + r
  BY <1>1, NatDivision
<1>3. CellsOf(size) = q + IF r = 0 THEN 0 ELSE 1
  BY DEF CellsOf
<1> HIDE DEF q, r
<1>4. q = 0 => CellSize * q = 0
  BY <1>1
<1> QED
  BY <1>2, <1>3, <1>4

\* The numbers that the invariant is about.
LEMMA StreamNumbers ==
  ASSUME VectorAssumption, StreamAssumption, VectorInv, OwnTypes
  PROVE  /\ CellSize \in Nat \ {0} /\ currentIndex \in Nat /\ currentIndex <= MaxData
         /\ MaxCells \in Nat /\ MaxCells <= MaxData /\ MaxCount \in Nat
         /\ itemSize \in Nat /\ current_size \in Nat /\ dest_index \in Nat
         /\ Len(rest) \in Nat /\ Pending \in Nat
         /\ Streaming => cells \in Nat \ {0}
<1>1. /\ CellSize \in Nat \ {0} /\ currentIndex \in Nat /\ currentIndex <= MaxData
      /\ MaxCells \in Nat /\ MaxCells <= MaxData /\ MaxCount \in Nat
      /\ itemSize \in Nat /\ current_size \in Nat /\ dest_index \in Nat
  BY DEF VectorAssumption, StreamAssumption, VectorInv, VectorTypeOK, OwnTypes
<1>2. Len(rest) \in Nat
  BY DEF OwnTypes
<1>3. Streaming => cells \in Nat \ {0}
  BY <1>1, CellsPositive DEF Streaming, cells
<1> QED
  BY <1>1, <1>2, <1>3 DEF Pending

\* fs_datastream.h, every call: what the stream does to its vector, the vector's own
\* clients may do too.
LEMMA StreamUsesVector ==
  ASSUME VectorAssumption, StreamAssumption, StreamInv, [StreamNext]_streamVars
  PROVE  [VectorNext]_vars
<1>1. /\ OwnTypes /\ ItemInHand
      /\ currentIndex \in Nat /\ MaxCells \in Nat /\ MaxCells <= MaxData /\ MaxData \in Nat
      /\ Len(rest) \in Nat /\ (Streaming => cells \in Nat \ {0})
  BY StreamNumbers DEF StreamInv, VectorAssumption
<1>2. ASSUME NEW size \in ItemSizes, StreamOpen(size)
      PROVE  VectorNext
  BY <1>2 DEF StreamOpen, StreamAssumption, VectorNext, VectorCall
<1>3. ASSUME NEW item \in ItemsOf(itemSize), Lshift(item), currentIndex + cells <= MaxCells
      PROVE  VectorNext
  <2>1. Streaming /\ cells \in Nat \ {0}
    BY <1>1, <1>3 DEF Lshift, Ready
  <2>2. Head(item) \in Values
    <3>1. item \in [1 .. cells -> Values]
      BY DEF ItemsOf, cells
    <3>2. Head(item) = item[1]
      BY <2>1, <3>1
    <3> QED
      BY <2>1, <3>1, <3>2
  <2>3. currentIndex < MaxData
    BY <1>1, <1>3, <2>1
  <2> QED
    BY <1>3, <2>2, <2>3 DEF Lshift, VectorNext, VectorCall
<1>4. ASSUME LshiftOn
      PROVE  VectorNext
  <2>1. Streaming /\ rest # <<>> /\ Insert(Head(rest)) /\ pc = "idle"
    BY <1>4 DEF LshiftOn, Insert
  <2>2. Head(rest) \in Values /\ Len(rest) # 0
    BY <2>1 DEF StreamInv, OwnTypes
  <2>3. currentIndex < MaxData
    BY <1>1, <2>1, <2>2 DEF ItemInHand, Pending
  <2> QED
    BY <2>1, <2>2, <2>3 DEF VectorNext, VectorCall
<1>5. LshiftStep => VectorNext
  BY DEF LshiftStep, VectorNext
<1>6. StreamClose => VectorNext
  BY DEF StreamClose, VectorNext, VectorCall
<1>7. Rshift \/ RshiftFails \/ RgetdataFails \/ (\E h \in handles : Free(h))
        \/ (\E i \in 0 .. Rgetsize - 1 : Rgetdata(i)) => UNCHANGED vars
  BY DEF Rshift, RshiftFails, RgetdataFails, RstreamFails, Free, Rgetdata
<1>8. BareVector => VectorNext
  BY DEF BareVector
<1>9. UNCHANGED streamVars => UNCHANGED vars
  BY DEF streamVars
<1> QED
  BY <1>2, <1>3, <1>4, <1>5, <1>6, <1>7, <1>8, <1>9 DEF StreamNext, StreamCall
-----------------------------------------------------------------------------
\* Cells and addresses are those of before as long as the arrays are.
LEMMA SameCells ==
  ASSUME UNCHANGED <<firstArrayInsert, reallocArrayInsert, bufferArray>>
  PROVE  \A i : Getaddr(i)' = Getaddr(i) /\ Cell(i)' = Cell(i)
<1> SUFFICES ASSUME NEW i
             PROVE  Getaddr(i)' = Getaddr(i) /\ Cell(i)' = Cell(i)
  OBVIOUS
<1>1. Getaddr(i)' = Getaddr(i)
  BY DEF Getaddr
<1> QED
  BY <1>1 DEF Cell

\* What is said of cells and pointers stays true when no array changes.
LEMMA ArraysKeep ==
  ASSUME StoredValues, MissingIsNext, GoodHandles, pc # "wild",
         UNCHANGED <<firstArrayInsert, reallocArrayInsert, bufferArray, maxArraySize,
                     currentIndex, itemSize>>
  PROVE  /\ StoredValues' /\ MissingIsNext'
         /\ handles' \subseteq handles => GoodHandles'
         /\ pc' # "wild" => (Broken' <=> Broken)
<1>1. \A i : Getaddr(i)' = Getaddr(i) /\ Cell(i)' = Cell(i)
  BY SameCells
<1>2. (Streaming' <=> Streaming) /\ (HasRoom' <=> HasRoom)
  BY DEF Streaming, HasRoom
<1>3. pc' # "wild" => (Broken' <=> Broken)
  BY DEF Broken
<1>4. StoredValues'
  BY <1>1, <1>2 DEF StoredValues
<1>5. MissingIsNext'
  BY <1>1, <1>2, <1>3 DEF MissingIsNext
<1>6. handles' \subseteq handles => GoodHandles'
  BY <1>1 DEF GoodHandles, ItemsOf, CellsOf
<1> QED
  BY <1>3, <1>4, <1>5, <1>6

\* A step of the stream keeps the invariants of its vector.
LEMMA VectorKeeps ==
  ASSUME VectorAssumption, StreamAssumption, StreamInv, [StreamNext]_streamVars
  PROVE  VectorInv' /\ MissingByFault'
<1>1. VectorInv /\ MissingByFault
  BY DEF StreamInv
<1>2. [VectorNext]_vars
  BY StreamUsesVector
<1> QED
  BY <1>1, <1>2, VectorStep, VectorStutter, VectorRefines

\* A call that only reads.
LEMMA QuietStep ==
  ASSUME VectorAssumption, StreamAssumption, StreamInv, Ready,
         VectorInv', MissingByFault',
         UNCHANGED <<vars, itemSize, rest>>, answer' \in {"success", "memory"},
         dest_index' \in 0 .. currentIndex, Multiple(dest_index)',
         current_size' \in 0 .. MaxCount,
         current_size' >= itemSize * ((currentIndex \div cells) - (dest_index' \div cells)),
         GoodHandles'
  PROVE  StreamInv'
<1>1. /\ UNCHANGED <<firstArrayInsert, reallocArrayInsert, bufferArray, maxArraySize,
                     currentIndex, pc, itemSize, rest>>
      /\ Streaming /\ Streaming' /\ pc = "idle" /\ rest = <<>> /\ Pending = 0 /\ Pending' = 0
      /\ cells' = cells /\ currentIndex \in Nat /\ currentIndex + 0 = currentIndex
  BY StreamNumbers DEF vars, shape, Ready, Streaming, Pending, cells, CellsOf, StreamInv
<1>2. StoredValues' /\ MissingIsNext' /\ (Broken' <=> Broken)
  BY <1>1, ArraysKeep DEF StreamInv
<1>3. NothingOpen'
  BY <1>1 DEF NothingOpen
<1>4. OwnTypes'
  BY <1>1 DEF OwnTypes, StreamInv
<1>5. ItemInHand'
  BY <1>1 DEF ItemInHand, StreamInv
<1>6. WholeItems'
  <2>1. ~Broken => Multiple(currentIndex)
    BY <1>1 DEF WholeItems, StreamInv
  <2>2. Multiple(currentIndex)' <=> Multiple(currentIndex)
    BY <1>1 DEF Multiple
  <2>3. (currentIndex + Pending)' = currentIndex
    BY <1>1
  <2> QED
    BY <1>1, <1>2, <2>1, <2>2, <2>3 DEF WholeItems, Multiple
<1> QED
  BY <1>2, <1>3, <1>4, <1>5, <1>6 DEF StreamInv

\* What rstream reads is an item, and the pointer to it is good.
LEMMA RstreamGives ==
  ASSUME VectorAssumption, StreamAssumption, StreamInv, NEW index \in Nat, Rstream(index),
         UNCHANGED vars
  PROVE  ItemAt(index) \in ItemsOf(itemSize) /\ GoodHandles'
<1>1. /\ Streaming /\ cells \in Nat \ {0} /\ currentIndex \in Nat
      /\ index + cells <= currentIndex /\ itemSize' = itemSize
  BY StreamNumbers DEF Rstream, Ready, StreamInv
<1>2. ASSUME NEW c \in 1 .. cells
      PROVE  Cell(index + c - 1) \in Values
  <2>1. index + c - 1 \in 0 .. currentIndex - 1
    BY <1>1
  <2> QED
    BY <1>1, <2>1 DEF StreamInv, StoredValues
<1>3. ItemAt(index) \in ItemsOf(itemSize)
  BY <1>2 DEF ItemAt, ItemsOf, cells
<1>4. \A i : Getaddr(i)' = Getaddr(i) /\ Cell(i)' = Cell(i)
  BY SameCells DEF vars, shape
<1>5. index \in 0 .. currentIndex - 1 /\ ItemAt(index)[1] = Cell(index)
  <2>1. 1 \in 1 .. cells /\ index + 1 - 1 = index
    BY <1>1
  <2> QED
    BY <1>1, <2>1 DEF ItemAt
<1>6. handles' \subseteq handles \cup {[at |-> Getaddr(index), item |-> ItemAt(index)]}
  BY DEF Rstream
<1>7. ASSUME NEW h \in handles'
      PROVE  /\ h.item \in ItemsOf(itemSize)
             /\ \E i \in 0 .. currentIndex - 1 : h.at = Getaddr(i) /\ Cell(i) = h.item[1]
  <2>1. CASE h \in handles
    BY <2>1 DEF StreamInv, GoodHandles
  <2>2. CASE h = [at |-> Getaddr(index), item |-> ItemAt(index)]
    BY <1>3, <1>5, <2>2
  <2> QED
    BY <1>6, <1>7, <2>1, <2>2
<1>8. currentIndex' = currentIndex /\ ItemsOf(itemSize)' = ItemsOf(itemSize)
  BY <1>1 DEF vars, ItemsOf, CellsOf
<1> QED
  BY <1>3, <1>4, <1>7, <1>8 DEF GoodHandles

\* The place to read from is behind so many items, and when there is another, it is counted.
LEMMA TakenItems ==
  ASSUME VectorAssumption, StreamAssumption, StreamInv, Streaming
  PROVE  /\ dest_index \div cells \in Nat /\ dest_index = cells * (dest_index \div cells)
         /\ currentIndex \div cells \in Nat /\ dest_index \div cells <= currentIndex \div cells
         /\ dest_index + cells <= currentIndex =>
              /\ (dest_index + cells) \div cells = (dest_index \div cells) + 1
              /\ (dest_index \div cells) + 1 <= currentIndex \div cells
<1>1. /\ cells \in Nat \ {0} /\ dest_index \in 0 .. currentIndex /\ currentIndex \in Nat
      /\ dest_index \in Nat
  BY StreamNumbers DEF StreamInv, OwnTypes
<1>2. PICK k \in 0 .. dest_index : dest_index = cells * k
  BY DEF StreamInv, WholeItems, Multiple
<1>3. dest_index \div cells = k
  <2>1. dest_index = cells * k + 0 /\ 0 \in 0 .. cells - 1 /\ k \in Nat
    BY <1>1, <1>2
  <2> QED
    BY <1>1, <2>1, QuotientIs
<1>4. /\ \A c \in 0 .. currentIndex : c \div cells \in Nat /\ c \div cells <= currentIndex \div cells
      /\ (dest_index + cells) \div cells = (dest_index \div cells) + 1
  BY <1>1, QuotientSteps
<1>5. dest_index + cells <= currentIndex => dest_index + cells \in 0 .. currentIndex
  BY <1>1
<1>6. currentIndex \in 0 .. currentIndex
  BY <1>1
<1> QED
  BY <1>1, <1>2, <1>3, <1>4, <1>5, <1>6

\* What is subtracted of current_size was counted for an item that is still there.
LEMMA RshiftStep ==
  ASSUME VectorAssumption, StreamAssumption, StreamInv, VectorInv', MissingByFault', Rshift
  PROVE  StreamInv'
<1> DEFINE t == dest_index \div cells
           r == currentIndex \div cells
<1>1. /\ Ready /\ Streaming /\ Rstream(dest_index) /\ UNCHANGED <<vars, itemSize, rest>>
      /\ dest_index + cells <= currentIndex /\ answer' = "success"
      /\ dest_index' = dest_index + cells /\ current_size' = current_size - Subtracted
      /\ pc = "idle" /\ rest = <<>>
  BY DEF Rshift, Rstream, Ready, Answer
<1>2. /\ cells \in Nat \ {0} /\ dest_index \in Nat /\ currentIndex \in Nat /\ itemSize \in Nat
      /\ current_size \in Nat /\ MaxCount \in Nat /\ current_size <= MaxCount
  BY <1>1, StreamNumbers DEF StreamInv, OwnTypes
<1>3. /\ t \in Nat /\ r \in Nat /\ t + 1 <= r /\ dest_index = cells * t
      /\ (dest_index + cells) \div cells = t + 1
  BY <1>1, TakenItems
<1>4. current_size >= itemSize * (r - t)
  <2>1. Pending = 0 /\ currentIndex + Pending = currentIndex
    BY <1>1, <1>2 DEF Pending
  <2> QED
    BY <1>1, <2>1 DEF StreamInv, WholeItems
<1>5. cells' = cells
  BY <1>1 DEF cells, CellsOf
<1> HIDE DEF t, r
<1>6. Subtracted \in 0 .. itemSize
  BY <1>2 DEF Subtracted
<1>7. current_size' \in 0 .. MaxCount /\ current_size' >= itemSize * (r - (t + 1))
  <2>1. PICK d \in Nat : r = t + 1 + d
    <3>1. r - t - 1 \in Nat /\ r = t + 1 + (r - t - 1)
      BY <1>3
    <3> QED
      BY <3>1
  <2>2. itemSize * (r - t) = itemSize * d + itemSize /\ r - (t + 1) = d /\ itemSize * d \in Nat
    BY <1>2, <1>3, <2>1
  <2> QED
    BY <1>1, <1>2, <1>4, <1>6, <2>2
<1>8. dest_index' \in 0 .. currentIndex /\ Multiple(dest_index)'
  <2>1. cells * (t + 1) = cells * t + cells /\ cells * (t + 1) \in Nat /\ cells * t >= t
    BY <1>2, <1>3
  <2>2. dest_index' = cells * (t + 1) /\ t + 1 \in 0 .. dest_index'
    BY <1>1, <1>2, <1>3, <2>1
  <2>3. \E k \in 0 .. dest_index' : dest_index' = cells' * k
    BY ONLY <1>5, <2>2, Zenon
  <2> QED
    BY <1>1, <1>2, <2>3 DEF Multiple
<1>9. GoodHandles'
  BY <1>1, <1>2, RstreamGives
<1>10. dest_index' \div cells = t + 1
  BY <1>1, <1>3
<1> QED
  BY <1>1, <1>7, <1>8, <1>9, <1>10, QuietStep DEF r

\* The calls that leave the place to read from where it is.
LEMMA OtherReads ==
  ASSUME VectorAssumption, StreamAssumption, StreamInv, VectorInv', MissingByFault',
         \/ \E i \in 0 .. Rgetsize - 1 : Rgetdata(i)
         \/ RshiftFails \/ RgetdataFails \/ \E h \in handles : Free(h)
  PROVE  StreamInv'
<1>1. Ready /\ Streaming /\ UNCHANGED <<vars, itemSize, rest, dest_index>>
      /\ pc = "idle" /\ rest = <<>>
  BY DEF Rgetdata, Rstream, RshiftFails, RgetdataFails, RstreamFails, Free, Ready
<1>2. /\ cells \in Nat \ {0} /\ dest_index \in Nat /\ currentIndex \in Nat /\ itemSize \in Nat
      /\ current_size \in Nat /\ MaxCount \in Nat /\ current_size <= MaxCount
      /\ dest_index \in 0 .. currentIndex /\ answer \in {"success", "memory"}
  BY <1>1, StreamNumbers DEF StreamInv, OwnTypes
<1>3. answer' \in {"success", "memory"}
  BY <1>2 DEF Rgetdata, Rstream, RshiftFails, RgetdataFails, RstreamFails, Free, Answer
<1>4. Multiple(dest_index)' /\ cells' = cells
  BY <1>1 DEF StreamInv, WholeItems, Multiple, cells, CellsOf
<1>5. current_size' \in current_size .. MaxCount
  <2>1. Subtracted \in 0 .. itemSize
    BY <1>2 DEF Subtracted
  <2> QED
    BY <1>2, <2>1 DEF Rgetdata, RshiftFails, RgetdataFails, RstreamFails, Free
<1>6. current_size' >= itemSize * ((currentIndex \div cells) - (dest_index' \div cells))
  <2>1. Pending = 0 /\ currentIndex + Pending = currentIndex
    BY <1>1, <1>2 DEF Pending
  <2>2. current_size >= itemSize * ((currentIndex \div cells) - (dest_index \div cells))
    BY <1>1, <2>1 DEF StreamInv, WholeItems
  <2>3. currentIndex \div cells \in Nat /\ dest_index \div cells \in Nat
    BY <1>1, TakenItems
  <2>4. itemSize * ((currentIndex \div cells) - (dest_index \div cells)) \in Int
    BY <1>2, <2>3
  <2> QED
    BY <1>1, <1>2, <1>5, <2>2, <2>4
<1>7. GoodHandles'
  <2>1. ASSUME NEW i \in 0 .. Rgetsize - 1, Rgetdata(i)
        PROVE  GoodHandles'
    <3>1. currentIndex \div cells \in Nat /\ i \in Nat /\ i * cells \in Nat
      BY <1>1, <1>2, TakenItems DEF Rgetsize
    <3> QED
      BY <1>1, <2>1, <3>1, RstreamGives DEF Rgetdata
  <2>2. CASE handles' \subseteq handles
    BY <1>1, <2>2, ArraysKeep DEF StreamInv, vars, shape
  <2> QED
    BY <2>1, <2>2 DEF RshiftFails, RgetdataFails, RstreamFails, Free
<1>8. /\ dest_index' \in 0 .. currentIndex /\ current_size' \in 0 .. MaxCount
  BY <1>1, <1>2, <1>5
<1> QED
  BY <1>1, <1>3, <1>4, <1>6, <1>7, <1>8, QuietStep

\* A cell of an item goes into the vector's hands.
LEMMA InsertBegins ==
  ASSUME VectorAssumption, StreamAssumption, StreamInv, VectorInv', MissingByFault', Streaming,
         NEW v \in Values, Insert(v), rest' \in Seq(Values), given' = <<>>,
         UNCHANGED <<itemSize, dest_index, handles, answer>>,
         Len(rest') + 1 <= cells, currentIndex + (Len(rest') + 1) <= MaxCells,
         ~Broken => Multiple(currentIndex + (Len(rest') + 1)),
         current_size' \in 0 .. MaxCount,
         current_size' >= itemSize * (((currentIndex + (Len(rest') + 1)) \div cells)
                                        - (dest_index \div cells))
  PROVE  StreamInv'
<1>1. /\ UNCHANGED <<firstArrayInsert, reallocArrayInsert, bufferArray, maxArraySize,
                     currentIndex, itemSize, dest_index, handles, answer>>
      /\ pc = "idle" /\ pc' = "insert" /\ Streaming' /\ cells' = cells /\ given' = <<>>
  BY DEF Insert, shape, Streaming, cells, CellsOf
<1>2. Pending' = Len(rest') + 1 /\ (currentIndex + Pending)' = currentIndex + (Len(rest') + 1)
  BY <1>1 DEF Pending
<1>3. /\ StoredValues' /\ MissingIsNext' /\ GoodHandles' /\ (Broken' <=> Broken)
  BY <1>1, ArraysKeep DEF StreamInv
<1>4. NothingOpen' /\ OwnTypes' /\ ItemInHand'
  <2>1. Len(rest') < cells
    <3>1. Len(rest') \in Nat /\ cells \in Nat
      BY StreamNumbers DEF StreamInv
    <3> QED
      BY <3>1
  <2> QED
    BY <1>1, <1>2, <2>1 DEF NothingOpen, OwnTypes, ItemInHand, StreamInv
<1>5. WholeItems'
  <2>1. Multiple(dest_index)' <=> Multiple(dest_index)
    BY <1>1 DEF Multiple
  <2>2. ASSUME NEW n, (currentIndex + Pending)' = n
        PROVE  Multiple(currentIndex + Pending)' <=> Multiple(n)
    BY <1>1, <2>2 DEF Multiple
  <2>3. Multiple(currentIndex + Pending)' <=> Multiple(currentIndex + (Len(rest') + 1))
    BY <1>2, <2>2
  <2>4. Multiple(dest_index)
    BY <1>1 DEF StreamInv, WholeItems
  <2>5. (current_size >= itemSize * (((currentIndex + Pending) \div cells) - (dest_index \div cells)))'
    BY <1>1, <1>2
  <2> QED
    BY <1>3, <2>1, <2>3, <2>4, <2>5 DEF WholeItems
<1> QED
  BY <1>3, <1>4, <1>5 DEF StreamInv

\* One more item: its cells are counted from the first on.
LEMMA LshiftBegins ==
  ASSUME VectorAssumption, StreamAssumption, StreamInv, VectorInv', MissingByFault',
         NEW item \in ItemsOf(itemSize), currentIndex + cells <= MaxCells,
         current_size + itemSize <= MaxCount, Lshift(item)
  PROVE  StreamInv'
<1> DEFINE t == dest_index \div cells
           r == currentIndex \div cells
<1>1. /\ Streaming /\ Insert(Head(item)) /\ rest' = Tail(item) /\ pc = "idle" /\ rest = <<>>
      /\ current_size' = current_size + itemSize /\ given' = <<>>
      /\ UNCHANGED <<itemSize, dest_index, handles, answer>>
  BY DEF Lshift, Ready
<1>2. /\ cells \in Nat \ {0} /\ currentIndex \in Nat /\ itemSize \in Nat
      /\ current_size \in Nat /\ MaxCount \in Nat
  BY <1>1, StreamNumbers DEF StreamInv
<1>3. item \in Seq(Values) /\ Len(item) = cells
  BY <1>2 DEF ItemsOf, cells
<1>4. Head(item) \in Values /\ rest' \in Seq(Values) /\ Len(rest') + 1 = cells
  <2>1. item # <<>>
    BY <1>2, <1>3
  <2> QED
    BY <1>1, <1>2, <1>3, <2>1, HeadTailProperties
<1>5. t \in Nat /\ r \in Nat /\ (currentIndex + cells) \div cells = r + 1
  BY <1>1, <1>2, TakenItems, QuotientSteps
<1>6. Pending = 0 /\ currentIndex + Pending = currentIndex
  BY <1>1, <1>2 DEF Pending
<1>7. current_size' \in 0 .. MaxCount
  BY <1>1, <1>2
<1>8. current_size' >= itemSize * (((currentIndex + cells) \div cells) - t)
  <2>1. current_size >= itemSize * (r - t)
    BY <1>1, <1>6 DEF StreamInv, WholeItems
  <2> HIDE DEF t, r
  <2>2. itemSize * ((r + 1) - t) = itemSize * (r - t) + itemSize /\ itemSize * (r - t) \in Int
    BY <1>2, <1>5
  <2> QED
    BY <1>1, <1>2, <1>5, <2>1, <2>2
<1>9. ~Broken => Multiple(currentIndex + cells)
  <2> SUFFICES ASSUME ~Broken
               PROVE  Multiple(currentIndex + cells)
    OBVIOUS
  <2>1. PICK k \in 0 .. currentIndex : currentIndex = cells * k
    BY <1>1, <1>6 DEF StreamInv, WholeItems, Multiple
  <2>2. cells * (k + 1) = cells * k + cells /\ cells * (k + 1) >= k + 1
    BY <1>2, <2>1
  <2>3. k + 1 \in 0 .. currentIndex + cells /\ currentIndex + cells = cells * (k + 1)
    BY <1>2, <2>1, <2>2
  <2> QED
    BY ONLY <2>3, Zenon DEF Multiple
<1>10. /\ Len(rest') + 1 <= cells /\ currentIndex + (Len(rest') + 1) <= MaxCells
       /\ ~Broken => Multiple(currentIndex + (Len(rest') + 1))
       /\ current_size' >= itemSize * (((currentIndex + (Len(rest') + 1)) \div cells) - t)
  <2>1. cells <= cells
    BY <1>2
  <2> QED
    BY ONLY <1>4, <1>8, <1>9, <2>1, currentIndex + cells <= MaxCells, Zenon
<1> QED
  BY <1>1, <1>4, <1>7, <1>10, InsertBegins

\* The next cell of the item in hand.
LEMMA LshiftGoesOn ==
  ASSUME VectorAssumption, StreamAssumption, StreamInv, VectorInv', MissingByFault', LshiftOn
  PROVE  StreamInv'
<1>1. /\ Streaming /\ Insert(Head(rest)) /\ rest' = Tail(rest) /\ pc = "idle" /\ rest # <<>>
      /\ rest \in Seq(Values)
      /\ UNCHANGED <<itemSize, current_size, dest_index, handles, given, answer>>
  BY DEF LshiftOn, Insert, StreamInv, OwnTypes
<1>2. Head(rest) \in Values /\ rest' \in Seq(Values) /\ Len(rest') + 1 = Len(rest) /\ Len(rest) # 0
  BY <1>1, HeadTailProperties
<1>3. Pending = Len(rest') + 1
  BY <1>1, <1>2 DEF Pending
<1>4. /\ Len(rest') + 1 <= cells /\ currentIndex + (Len(rest') + 1) <= MaxCells
      /\ ~Broken => Multiple(currentIndex + (Len(rest') + 1))
      /\ current_size >= itemSize * (((currentIndex + (Len(rest') + 1)) \div cells)
                                        - (dest_index \div cells))
      /\ current_size \in 0 .. MaxCount
  <2>1. /\ Pending <= cells /\ currentIndex + Pending <= MaxCells
        /\ ~Broken => Multiple(currentIndex + Pending)
        /\ current_size >= itemSize * (((currentIndex + Pending) \div cells)
                                          - (dest_index \div cells))
        /\ current_size \in 0 .. MaxCount
    BY <1>1 DEF StreamInv, ItemInHand, WholeItems, OwnTypes
  <2> QED
    BY ONLY <1>3, <2>1, Zenon
<1>5. given = <<>>
  <2>1. Pending # 0
    BY <1>1, <1>2 DEF Pending
  <2> QED
    BY <1>1, <2>1 DEF StreamInv, ItemInHand
<1>6. /\ current_size' \in 0 .. MaxCount
      /\ current_size' >= itemSize * (((currentIndex + (Len(rest') + 1)) \div cells)
                                         - (dest_index \div cells))
  <2>1. current_size' = current_size
    BY <1>1
  <2> QED
    BY ONLY <1>4, <2>1, Zenon
<1>7. UNCHANGED <<itemSize, dest_index, handles, answer>> /\ given' = <<>>
  BY <1>1, <1>5
<1> QED
  BY <1>1, <1>2, <1>4, <1>6, <1>7, InsertBegins

\* A new stream, with nothing in it.
LEMMA StreamOpens ==
  ASSUME VectorAssumption, StreamAssumption, StreamInv, VectorInv', MissingByFault',
         NEW size \in ItemSizes, StreamOpen(size)
  PROVE  StreamInv'
<1>1. /\ ~Streaming /\ Open(CellOpens) /\ itemSize' = size /\ pc' = "idle" /\ currentIndex' = 0
      /\ bufferArray' = << Cells(0) >> /\ given' = <<>> /\ answer' = "success"
      /\ UNCHANGED <<current_size, dest_index, rest, handles>> /\ 0 \div CellSize = 0
  <2>1. CellSize \in Nat \ {0}
    BY DEF VectorAssumption
  <2>2. 0 \div CellSize = 0
    BY <2>1
  <2>3. CellOpens.first = 0
    BY DEF CellOpens
  <2> QED
    BY <2>2, <2>3 DEF StreamOpen, Open, Answer
<1>2. current_size' = 0 /\ dest_index' = 0 /\ rest' = <<>> /\ handles' = {}
  BY <1>1 DEF StreamInv, NothingOpen
<1>3. size \in Nat \ {0} /\ Streaming' /\ cells' = CellsOf(size) /\ CellsOf(size) \in Nat \ {0}
      /\ MaxCells \in Nat /\ MaxCount \in Nat
  <2>1. size \in Nat \ {0} /\ MaxCells \in Nat /\ MaxCount \in Nat
    BY DEF StreamAssumption, VectorAssumption
  <2>2. CellsOf(size) \in Nat \ {0}
    BY <2>1, CellsPositive
  <2>3. Streaming' /\ cells' = CellsOf(size)
    BY <1>1, <2>1 DEF Streaming, cells, CellsOf
  <2> QED
    BY <2>1, <2>2, <2>3
<1>4. Pending' = 0 /\ (currentIndex + Pending)' = 0
  BY <1>1, <1>2 DEF Pending
<1>5. ~Broken'
  <2>1. Cells(0) = <<>> /\ Null # <<>>
    <3>1. Cells(0) = <<>>
      BY DEF Cells
    <3>2. <<>> \in Seq(Values \cup {Unwritten})
      OBVIOUS
    <3> QED
      BY <3>1, <3>2 DEF VectorAssumption
  <2>2. bufferArray' = << <<>> >>
    BY <1>1, <2>1
  <2> QED
    BY <1>1, <2>1, <2>2 DEF Broken
<1>6. NothingOpen' /\ OwnTypes' /\ ItemInHand'
  BY <1>1, <1>2, <1>3, <1>4 DEF NothingOpen, OwnTypes, ItemInHand
<1>7. WholeItems'
  <2> DEFINE c == CellsOf(size)
  <2>1. c \in Nat \ {0}
    BY <1>3
  <2> HIDE DEF c
  <2>2. 0 \in 0 .. 0 /\ 0 = c * 0 /\ 0 \div c = 0 /\ size * (0 - 0) = 0
    BY <1>3, <2>1
  <2>3. Multiple(dest_index)' /\ Multiple(currentIndex + Pending)'
    BY <1>2, <1>3, <1>4, <2>2 DEF Multiple, c
  <2>4. (current_size >= itemSize * (((currentIndex + Pending) \div cells) - (dest_index \div cells)))'
    BY <1>1, <1>2, <1>3, <1>4, <2>2 DEF c
  <2> QED
    BY <2>3, <2>4 DEF WholeItems
<1>8. StoredValues' /\ MissingIsNext' /\ GoodHandles'
  BY <1>1, <1>2, <1>5 DEF StoredValues, MissingIsNext, GoodHandles
<1> QED
  BY <1>6, <1>7, <1>8 DEF StreamInv

\* No stream: closed, or a vector that is used by itself.
LEMMA NoStream ==
  ASSUME VectorAssumption, StreamAssumption, VectorInv', MissingByFault',
         itemSize' = 0, current_size' = 0, dest_index' = 0, rest' = <<>>, handles' = {},
         answer' = "success"
  PROVE  StreamInv'
<1>1. ~Streaming' /\ currentIndex' \in Nat /\ MaxCount \in Nat
  BY DEF Streaming, VectorInv, VectorTypeOK, VectorAssumption, StreamAssumption
<1>2. OwnTypes' /\ NothingOpen'
  BY <1>1 DEF OwnTypes, NothingOpen
<1>3. ItemInHand' /\ WholeItems' /\ StoredValues' /\ MissingIsNext' /\ GoodHandles'
  BY <1>1, Zenon DEF ItemInHand, WholeItems, StoredValues, MissingIsNext, GoodHandles
<1> QED
  BY <1>2, <1>3 DEF StreamInv

\* The cells of the data stay when the data before do.
LEMMA DataKeepCells ==
  ASSUME currentIndex \in Nat, currentIndex' \in Nat, currentIndex <= currentIndex',
         pc # "wild", pc' # "wild",
         UNCHANGED <<firstArrayInsert, reallocArrayInsert>>,
         \A i \in 1 .. currentIndex : Data'[i] = Data[i]
  PROVE  \A i \in 0 .. currentIndex - 1 : Getaddr(i)' = Getaddr(i) /\ Cell(i)' = Cell(i)
<1> SUFFICES ASSUME NEW i \in 0 .. currentIndex - 1
             PROVE  Getaddr(i)' = Getaddr(i) /\ Cell(i)' = Cell(i)
  OBVIOUS
<1>1. Data = [j \in 1 .. currentIndex |-> Cell(j - 1)]
  BY DEF Data
<1>2. Data' = [j \in 1 .. currentIndex' |-> Cell(j - 1)']
  BY DEF Data
<1>3. i + 1 \in 1 .. currentIndex /\ i + 1 \in 1 .. currentIndex' /\ (i + 1) - 1 = i
  OBVIOUS
<1>4. Data[i + 1] = Cell(i) /\ Data'[i + 1] = Cell(i)'
  BY <1>1, <1>2, <1>3
<1>5. Cell(i)' = Cell(i)
  BY <1>3, <1>4
<1>6. Getaddr(i)' = Getaddr(i)
  BY DEF Getaddr
<1> QED
  BY <1>5, <1>6

\* A step that fails or stores or adds an array: what it takes of the item in hand, and
\* what it must show of the vector.
LEMMA ItemStep ==
  ASSUME VectorAssumption, StreamAssumption, StreamInv, VectorInv', MissingByFault', Streaming,
         pc = "insert", pc' # "closed",
         rest' = rest \/ rest' = <<>>, pc' = "wild" => rest' = <<>>, answer' \in {"success", "memory"},
         UNCHANGED <<itemSize, current_size, dest_index, handles, given>>,
         currentIndex' = currentIndex \/ currentIndex' = currentIndex + 1,
         currentIndex' = currentIndex + 1 => pc' = "idle",
         ~Broken' => ~Broken /\ (currentIndex + Pending)' = currentIndex + Pending,
         \A i \in 0 .. currentIndex - 1 : Getaddr(i)' = Getaddr(i) /\ Cell(i)' = Cell(i),
         currentIndex' = currentIndex + 1 => \A i : i = currentIndex => Cell(i)' \in Values,
         MissingIsNext'
  PROVE  StreamInv'
<1>1. /\ Streaming' /\ cells' = cells /\ cells \in Nat \ {0} /\ currentIndex \in Nat
      /\ Len(rest) \in Nat /\ rest \in Seq(Values) /\ Pending = Len(rest) + 1
      /\ itemSize \in Nat /\ MaxCells \in Nat /\ dest_index \in Nat
  BY StreamNumbers DEF StreamInv, Streaming, cells, CellsOf, OwnTypes, Pending
<1>2. /\ Len(rest') \in Nat /\ rest' \in Seq(Values) /\ Len(rest') <= Len(rest)
  <2>1. CASE rest' = rest
    BY <1>1, <2>1
  <2>2. CASE rest' = <<>>
    <3>1. <<>> \in Seq(Values) /\ Len(<<>>) = 0
      OBVIOUS
    <3> QED
      BY <1>1, <2>2, <3>1
  <2> QED
    BY <2>1, <2>2
<1> DEFINE n == currentIndex + Pending
           m == currentIndex' + Pending'
<1>3. /\ Pending' \in Nat /\ Pending' <= Pending /\ currentIndex' \in Nat
      /\ n \in Nat /\ m \in Nat /\ m <= n
  BY <1>1, <1>2 DEF Pending
<1> HIDE DEF n, m
<1>4. NothingOpen' /\ OwnTypes'
  BY <1>1, <1>2 DEF NothingOpen, OwnTypes, StreamInv
<1>5. ItemInHand'
  <2>1. Pending <= cells /\ n <= MaxCells /\ given = <<>>
    BY <1>1 DEF StreamInv, ItemInHand, n
  <2>2. Pending' <= cells /\ m <= MaxCells
    BY <1>1, <1>3, <2>1
  <2> QED
    BY <1>1, <2>1, <2>2 DEF ItemInHand, m
<1>6. WholeItems'
  <2> DEFINE t == dest_index \div cells
  <2>1. n \in Nat /\ m \in 0 .. n
    BY <1>3
  <2>2. m \div cells \in Nat /\ m \div cells <= n \div cells /\ n \div cells \in Nat
    <3>1. n \in 0 .. n
      BY <2>1
    <3> QED
      BY <1>1, <2>1, <3>1, QuotientSteps
  <2>3. t \in Nat
    BY <1>1, TakenItems
  <2>4. current_size >= itemSize * ((n \div cells) - t)
    BY <1>1 DEF StreamInv, WholeItems, n
  <2>5. current_size >= itemSize * ((m \div cells) - t)
    <3>1. PICK d \in Nat : n \div cells = (m \div cells) + d
      <4>1. (n \div cells) - (m \div cells) \in Nat
        BY <2>2
      <4> QED
        BY <2>2, <4>1
    <3> DEFINE a == (m \div cells) - t
    <3>2. a \in Int /\ (n \div cells) - t = a + d
      BY <2>2, <2>3, <3>1
    <3> HIDE DEF a
    <3>3. itemSize * (a + d) = itemSize * a + itemSize * d /\ itemSize * d \in Nat
          /\ itemSize * a \in Int
      BY <1>1, <3>1, <3>2
    <3>4. current_size \in Int
      BY DEF StreamInv, OwnTypes, StreamAssumption
    <3> QED
      BY <2>4, <3>2, <3>3, <3>4 DEF a
  <2> HIDE DEF t
  <2>6. (current_size >= itemSize * (((currentIndex + Pending) \div cells) - (dest_index \div cells)))'
    BY <1>1, <2>5 DEF t, m
  <2>7. Multiple(dest_index)'
    BY <1>1 DEF StreamInv, WholeItems, Multiple
  <2>8. ~Broken' => Multiple(currentIndex + Pending)'
    <3>1. ~Broken => Multiple(currentIndex + Pending)
      BY <1>1 DEF StreamInv, WholeItems
    <3> QED
      BY <1>1, <3>1 DEF Multiple
  <2> QED
    BY <2>6, <2>7, <2>8 DEF WholeItems
<1>7. StoredValues'
  <2> SUFFICES ASSUME NEW i \in 0 .. currentIndex' - 1
               PROVE  Cell(i)' \in Values
    BY DEF StoredValues
  <2>1. CASE i \in 0 .. currentIndex - 1
    BY <1>1, <2>1 DEF StreamInv, StoredValues
  <2>2. CASE i = currentIndex
    BY <1>1, <2>2
  <2> QED
    BY <1>1, <2>1, <2>2
<1>8. GoodHandles'
  <2> SUFFICES ASSUME NEW h \in handles
               PROVE  /\ h.item \in ItemsOf(itemSize)
                      /\ \E i \in 0 .. currentIndex' - 1 : h.at = Getaddr(i)' /\ Cell(i)' = h.item[1]
    BY DEF GoodHandles, ItemsOf, CellsOf
  <2>1. PICK i \in 0 .. currentIndex - 1 : h.at = Getaddr(i) /\ Cell(i) = h.item[1]
    BY DEF StreamInv, GoodHandles
  <2>2. i \in 0 .. currentIndex' - 1
    BY <1>1, <2>1
  <2>3. h.item \in ItemsOf(itemSize)
    BY DEF StreamInv, GoodHandles
  <2> QED
    BY <2>1, <2>2, <2>3
<1> QED
  BY <1>4, <1>5, <1>6, <1>7, <1>8 DEF StreamInv

\* An array that is missing is that of the next datum, for it was added when there was no room.
LEMMA MissingArrayIsNext ==
  ASSUME VectorAssumption, VectorInv, VectorInv', ReallocFails
  PROVE  HasRoom' /\ (bufferArray[Getaddr(currentIndex).array] = Null)'
<1> DEFINE n == Len(bufferArray)
<1>1. /\ pc = "insert" /\ pc' = "idle" /\ ~HasRoom /\ currentIndex' = currentIndex
      /\ UNCHANGED <<firstArrayInsert, reallocArrayInsert>>
      /\ bufferArray' = Append(bufferArray, Null)
  BY DEF ReallocFails, Inserting, shape, Return
<1>2. /\ n \in Nat \ {0} /\ currentIndex \in Nat /\ CellsIn(n) \in Nat /\ ~(currentIndex < CellsIn(n))
      /\ firstArrayInsert \in Nat /\ reallocArrayInsert \in Nat \ {0} /\ ShapeOK
  BY <1>1, RoomIsCells DEF VectorInv, VectorTypeOK, ShapeOK
<1>3. /\ Len(bufferArray') = n + 1 /\ bufferArray'[n + 1] = Null
      /\ DOMAIN bufferArray = 1 .. n
  <2>1. bufferArray \in Seq(Arrays)
    BY DEF VectorInv, VectorTypeOK, Arrays
  <2> QED
    BY <1>1, <2>1
<1>4. CellsIn(n + 1) = CellsIn(n) + reallocArrayInsert
  <2>1. reallocArrayInsert * ((n + 1) - 1) = reallocArrayInsert * (n - 1) + reallocArrayInsert
        /\ reallocArrayInsert * (n - 1) \in Int
    BY <1>2
  <2> QED
    BY <1>2, <2>1 DEF CellsIn
<1>5. currentIndex <= CellsIn(n)
  <2>1. CASE currentIndex = 0
    BY <1>2, <2>1
  <2>2. CASE currentIndex # 0
    <3>1. currentIndex - 1 \in Nat /\ currentIndex - 1 \in 0 .. currentIndex - 1
      BY <1>2, <2>2
    <3>2. Getaddr(currentIndex - 1).array <= n
      BY <1>3, <3>1 DEF VectorInv, DataInArrays, InArrays
    <3>3. currentIndex - 1 < CellsIn(n)
      BY <1>2, <3>1, <3>2, AddressInArrays
    <3> QED
      BY <1>2, <3>1, <3>3
  <2> QED
    BY <2>1, <2>2
<1>6. currentIndex < CellsIn(n + 1) /\ CellsIn(n + 1) \in Nat
  BY <1>2, <1>4, <1>5
<1>7. HasRoom'
  <2> DEFINE c == CellsIn(n + 1)
  <2>1. CellsIn(Len(bufferArray))' = c
    BY <1>1, <1>3 DEF CellsIn
  <2>2. PICK r \in 0 .. CellSize - 1 : maxArraySize' = CellSize * c + r
    BY <1>1, <2>1 DEF VectorInv, OpenOrEmpty, BytesAreCells
  <2>3. CellSize \in Nat \ {0} /\ c \in Nat /\ currentIndex + 1 \in Nat /\ maxArraySize' \in Nat
    BY <1>2, <1>6 DEF VectorAssumption, VectorInv, VectorTypeOK
  <2> HIDE DEF c
  <2>4. c < currentIndex + 1 <=> CellSize * c + r < CellSize * (currentIndex + 1)
    BY <2>3, QuotientOrder
  <2>5. CellSize * (currentIndex + 1) = currentIndex * CellSize + CellSize
        /\ currentIndex * CellSize \in Nat
    BY <1>2, <2>3
  <2>6. ~(c < currentIndex + 1)
    BY <1>2, <1>6, <2>3 DEF c
  <2> QED
    BY <1>1, <2>2, <2>3, <2>4, <2>5, <2>6 DEF HasRoom
<1>8. Getaddr(currentIndex).array = n + 1
  <2>1. Getaddr(currentIndex).array \in Nat /\ ~(Getaddr(currentIndex).array <= n)
        /\ Getaddr(currentIndex).array <= n + 1
    <3>1. n + 1 \in Nat \ {0}
      BY <1>2
    <3> QED
      BY <1>2, <1>6, <3>1, AddressInArrays
  <2> QED
    BY <1>2, <2>1
<1>9. Getaddr(currentIndex)' = Getaddr(currentIndex)
  BY <1>1 DEF Getaddr
<1> QED
  BY <1>3, <1>7, <1>8, <1>9

\* A step of the insert in progress, in whichever way it ends.
LEMMA LshiftGoesStep ==
  ASSUME VectorAssumption, StreamAssumption, StreamInv, VectorInv', MissingByFault', LshiftStep
  PROVE  StreamInv'
<1>1. /\ Streaming /\ InsertStep /\ Inserting /\ pc = "insert" /\ VectorInv
      /\ UNCHANGED <<firstArrayInsert, reallocArrayInsert>>
      /\ UNCHANGED <<itemSize, current_size, dest_index, handles, given>>
  BY DEF LshiftStep, InsertStep, Realloc, ReallocFails, TableFails, Store, StoreWild, Inserting,
         shape, StreamInv
<1>2. /\ rest' = IF status' = "success" /\ pc' # "wild" THEN rest ELSE <<>>
      /\ answer' = IF pc' = "idle" /\ rest' = <<>> THEN status' ELSE answer
  BY DEF LshiftStep
<1>3. /\ currentIndex \in Nat /\ answer \in {"success", "memory"} /\ status' \in {"success", "memory"}
      /\ datum \in Values
  BY <1>1 DEF StreamInv, OwnTypes, VectorInv, VectorTypeOK
<1>4. answer' \in {"success", "memory"} /\ (rest' = rest \/ rest' = <<>>)
      /\ (pc' = "wild" => rest' = <<>>)
  BY <1>2, <1>3
<1>5. ASSUME ~HasRoom, pc' # "wild", NEW array, bufferArray' = Append(bufferArray, array),
             UNCHANGED currentIndex
      PROVE  \A i \in 0 .. currentIndex - 1 : Getaddr(i)' = Getaddr(i) /\ Cell(i)' = Cell(i)
  <2>1. Data' = Data
    BY <1>1, <1>5, MoreArraysSameData
  <2> QED
    BY <1>1, <1>3, <1>5, <2>1, DataKeepCells
<1>6. ~HasRoom => ~Broken
  BY <1>1 DEF StreamInv, MissingIsNext
<1>7. CASE Realloc
  <2>1. /\ ~HasRoom /\ UNCHANGED <<currentIndex, pc>> /\ status' = "success"
        /\ bufferArray' = Append(bufferArray, Cells(reallocArrayInsert))
    BY <1>7, Zenon DEF Realloc
  <2>2. Cells(reallocArrayInsert) # Null
    <3>1. Cells(reallocArrayInsert) \in Seq(Values \cup {Unwritten})
      BY <1>1 DEF Cells, VectorInv, VectorTypeOK
    <3> QED
      BY <3>1 DEF VectorAssumption
  <2>3. ~Broken'
    BY <1>1, <1>6, <2>1, <2>2, MoreArraysSameData
  <2>4. rest' = rest /\ Pending' = Pending
    BY <1>1, <1>2, <2>1 DEF Pending
  <2>5. MissingIsNext'
    BY <2>3 DEF MissingIsNext
  <2>6. (currentIndex + Pending)' = currentIndex + Pending
    BY <2>1, <2>4
  <2> QED
    BY <1>1, <1>3, <1>4, <1>5, <1>6, <2>1, <2>5, <2>6, ItemStep
<1>8. CASE ReallocFails
  <2>1. /\ ~HasRoom /\ UNCHANGED currentIndex /\ pc' = "idle"
        /\ bufferArray' = Append(bufferArray, Null)
    BY <1>8 DEF ReallocFails, Return
  <2>2. Broken'
    BY <1>1, <2>1, MoreArraysSameData
  <2>3. MissingIsNext'
    BY <1>1, <1>8, MissingArrayIsNext DEF MissingIsNext
  <2> QED
    BY <1>1, <1>3, <1>4, <1>5, <2>1, <2>2, <2>3, ItemStep
<1>9. CASE Store
  <2> DEFINE addr == Getaddr(currentIndex)
  <2>1. /\ HasRoom /\ IsCell(addr) /\ currentIndex' = currentIndex + 1 /\ pc' = "idle"
        /\ status' = "success"
    BY <1>9 DEF Store, Return
  <2>2. ~Broken
    BY <1>1, <2>1 DEF StreamInv, MissingIsNext, IsCell
  <2>3. Data' = Append(Data, datum) /\ ~Broken'
    BY <1>1, <1>9, <2>2, StoreAppends
  <2>4. Data = [i \in 1 .. currentIndex |-> Cell(i - 1)]
    BY <1>1 DEF Data
  <2>5. Data' = [i \in 1 .. currentIndex + 1 |-> IF i = currentIndex + 1 THEN datum ELSE Data[i]]
    BY <1>3, <2>3, <2>4
  <2>6. \A i \in 0 .. currentIndex - 1 : Getaddr(i)' = Getaddr(i) /\ Cell(i)' = Cell(i)
    <3>1. \A i \in 1 .. currentIndex : Data'[i] = Data[i]
      BY <1>3, <2>5
    <3> QED
      BY <1>1, <1>3, <2>1, <3>1, DataKeepCells
  <2>7. ASSUME NEW i, i = currentIndex
        PROVE  Cell(i)' \in Values
    <3>1. Data' = [j \in 1 .. currentIndex + 1 |-> Cell(j - 1)']
      BY <2>1 DEF Data
    <3>2. i + 1 \in 1 .. currentIndex + 1 /\ (i + 1) - 1 = i
      BY <1>3, <2>7
    <3>3. Data'[i + 1] = Cell(i)'
      BY <3>1, <3>2
    <3>4. Data'[i + 1] = datum
      BY <1>3, <2>5, <2>7, <3>2
    <3> QED
      BY <1>3, <3>3, <3>4
  <2>8. (currentIndex + Pending)' = currentIndex + Pending
    <3>1. rest' = rest /\ Len(rest) \in Nat
      BY <1>2, <2>1 DEF StreamInv, OwnTypes
    <3> QED
      BY <1>1, <1>3, <2>1, <3>1 DEF Pending
  <2>9. MissingIsNext'
    BY <2>3 DEF MissingIsNext
  <2> QED
    BY <1>1, <1>3, <1>4, <2>1, <2>2, <2>6, <2>7, <2>8, <2>9, ItemStep
<1>10. ASSUME GoWild
       PROVE  StreamInv'
  <2>1. pc' = "wild" /\ UNCHANGED <<bufferArray, currentIndex>>
    BY <1>10 DEF GoWild
  <2>2. \A i : Getaddr(i)' = Getaddr(i) /\ Cell(i)' = Cell(i)
    BY <1>1, <2>1, SameCells
  <2>3. MissingIsNext' /\ Broken'
    BY <2>1 DEF MissingIsNext, Broken
  <2> QED
    BY <1>1, <1>3, <1>4, <2>1, <2>2, <2>3, ItemStep
<1> QED
  BY <1>1, <1>7, <1>8, <1>9, <1>10 DEF InsertStep, TableFails, StoreWild

\* Every call of the stream, and every step of one, keeps the invariant.
LEMMA StreamStep ==
  ASSUME VectorAssumption, StreamAssumption, StreamInv, [StreamNext]_streamVars
  PROVE  StreamInv'
<1>1. VectorInv' /\ MissingByFault'
  BY VectorKeeps
<1>2. CASE StreamCall
  <2>1. StreamClose => StreamInv'
    BY <1>1, NoStream DEF StreamClose, Answer
  <2> QED
    BY <1>1, <1>2, <2>1, StreamOpens, LshiftBegins, RshiftStep, OtherReads DEF StreamCall
<1>3. CASE BareVector
  <2>1. /\ itemSize = 0 /\ current_size = 0 /\ dest_index = 0 /\ rest = <<>> /\ handles = {}
        /\ answer = "success"
    BY <1>3 DEF BareVector, StreamInv, NothingOpen
  <2> QED
    BY <1>1, <1>3, <2>1, NoStream DEF BareVector, own
<1>4. CASE UNCHANGED streamVars
  <2>1. UNCHANGED <<firstArrayInsert, reallocArrayInsert, numOfBufferAry, bufferArray, maxArraySize,
                    currentIndex, status, pc, datum, reply, itemSize, current_size, dest_index,
                    rest, handles, given, answer>>
    BY <1>4 DEF streamVars, vars, shape, own
  <2> QED
    BY <1>1, <2>1, SameCells
       DEF StreamInv, NothingOpen, OwnTypes, ItemInHand, WholeItems, StoredValues, MissingIsNext,
           GoodHandles, Streaming, Pending, Multiple, cells, CellsOf, ItemsOf, Broken, HasRoom
<1> QED
  BY <1>1, <1>2, <1>3, <1>4, LshiftGoesOn, LshiftGoesStep DEF StreamNext

\* The invariant holds of every behaviour of the stream.
THEOREM StreamInvariant ==
  ASSUME VectorAssumption, StreamAssumption
  PROVE  Spec => []StreamInv
<1>1. StreamInit => StreamInv
  <2> SUFFICES ASSUME StreamInit
               PROVE  StreamInv
    OBVIOUS
  <2>1. VectorInv /\ MissingByFault
    BY DEF StreamInit, VectorInit, VectorInv, VectorTypeOK, TableHoldsArrays, OpenOrEmpty,
           DataInArrays, WildOnlyWithoutMemory, VectorAssumption, MissingByFault, Broken
  <2>2. /\ itemSize = 0 /\ current_size = 0 /\ dest_index = 0 /\ rest = <<>> /\ handles = {}
        /\ answer = "success" /\ ~Streaming /\ currentIndex = 0 /\ MaxCount \in Nat
    BY DEF StreamInit, VectorInit, Streaming, StreamAssumption
  <2> QED
    BY <2>1, <2>2 DEF StreamInv, NothingOpen, OwnTypes, ItemInHand, WholeItems, StoredValues,
                      MissingIsNext, GoodHandles
<1>2. StreamInv /\ [StreamNext]_streamVars => StreamInv'
  BY VectorAssumption, StreamAssumption, StreamStep
<1> QED
  BY <1>1, <1>2, PTL DEF Spec

\* fs_datastream.h, every call: the vector under a stream behaves as the vector of any
\* other client, so what is proved of the vector is true of it.
THEOREM StreamIsVectorClient ==
  ASSUME VectorAssumption, StreamAssumption
  PROVE  Spec => VectorSpec
<1>1. StreamInit => VectorInit
  BY DEF StreamInit
<1>2. StreamInv /\ [StreamNext]_streamVars => [VectorNext]_vars
  BY VectorAssumption, StreamAssumption, StreamUsesVector
<1>3. Spec => []StreamInv
  BY StreamInvariant
<1> QED
  BY <1>1, <1>2, <1>3, PTL DEF Spec, VectorSpec

\* fs_fragment_vector.h:158-194 as the stream uses it: the cells that there is said to be
\* room for are in the arrays, and an address outside them comes only of memory refused.
THEOREM StreamAddressesInArrays ==
  ASSUME VectorAssumption, StreamAssumption
  PROVE  Spec => [](AddressesInArrays /\ TableHoldsArrays /\ WildOnlyWithoutMemory)
<1>1. VectorSpec => []AddressesInArrays /\ []TableHoldsArrays /\ []WildOnlyWithoutMemory
  BY AddressesStayInArrays, TableIsLargeEnough, InsertionsStayInArrays
<1> QED
  BY <1>1, StreamIsVectorClient, PTL

\* fs_fragment_vector.h:127-148 as the stream uses it: the shifts are those of the lengths.
THEOREM StreamShiftsAreLengths ==
  ASSUME VectorAssumption, StreamAssumption, WidthAssumption
  PROVE  Spec => []ShiftIsLength
BY ShiftsAreLengths, StreamIsVectorClient, PTL

\* fs_datastream.h: the stream's own numbers keep their ranges, the place to read from is
\* not behind the cells, and an item never has more cells to store than it has.
THEOREM StreamTypes ==
  ASSUME VectorAssumption, StreamAssumption
  PROVE  Spec => [](VectorTypeOK /\ StreamTypeOK)
<1>1. StreamInv => VectorTypeOK /\ StreamTypeOK
  <2> SUFFICES ASSUME StreamInv
               PROVE  VectorTypeOK /\ StreamTypeOK
    OBVIOUS
  <2>1. handles # {} => Streaming
    BY DEF StreamInv, NothingOpen
  <2> QED
    BY <2>1 DEF StreamInv, VectorInv, OwnTypes, ItemInHand, GoodHandles, StreamTypeOK
<1> QED
  BY <1>1, StreamInvariant, PTL

\* fs_datastream.h:77-78, fs_fragment_vector.h:158-170: what a pointer points to stays the
\* item that it was given for, for all sizes and whatever is stored or fails later.
THEOREM PointersStayGood ==
  ASSUME VectorAssumption, StreamAssumption
  PROVE  Spec => []HandlesKeepData
<1>1. StreamInv => HandlesKeepData
  BY DEF StreamInv, GoodHandles, HandlesKeepData, Cell
<1> QED
  BY <1>1, StreamInvariant, PTL

\* fs_datastream.h:58, 79, 92 and 103: current_size covers the bytes still to be shifted out.
THEOREM CountStaysCovering ==
  ASSUME VectorAssumption, StreamAssumption
  PROVE  Spec => []CountCoversRest
<1>1. ASSUME StreamInv
      PROVE  CountCoversRest
  <2> SUFFICES ASSUME Streaming
               PROVE  current_size >= itemSize * (Rgetsize - (dest_index \div cells))
    BY DEF CountCoversRest
  <2> DEFINE r == currentIndex \div cells
             n == currentIndex + Pending
             m == n \div cells
             t == dest_index \div cells
  <2>1. /\ cells \in Nat \ {0} /\ currentIndex \in Nat /\ Pending \in Nat /\ itemSize \in Nat
        /\ current_size \in Nat
    BY <1>1, StreamNumbers DEF StreamInv
  <2>2. n \in Nat /\ currentIndex \in 0 .. n /\ n \in 0 .. n
    BY <2>1
  <2>3. r \in Nat /\ m \in Nat /\ r <= m
    <3> HIDE DEF n
    <3> QED
      BY <2>1, <2>2, QuotientSteps
  <2>4. t \in Nat
    BY <1>1, TakenItems
  <2>5. current_size >= itemSize * (m - t)
    BY <1>1 DEF StreamInv, WholeItems
  <2> HIDE DEF r, n, m, t
  <2>6. current_size >= itemSize * (r - t)
    <3>1. PICK d \in Nat : m = r + d
      <4>1. m - r \in Nat /\ m = r + (m - r)
        BY <2>3
      <4> QED
        BY <4>1
    <3> DEFINE a == r - t
    <3>2. a \in Int /\ m - t = a + d
      BY <2>3, <2>4, <3>1
    <3> HIDE DEF a
    <3>3. itemSize * (a + d) = itemSize * a + itemSize * d /\ itemSize * d \in Nat
          /\ itemSize * a \in Int
      BY <2>1, <3>1, <3>2
    <3> QED
      BY <2>1, <2>5, <3>2, <3>3 DEF a
  <2> QED
    BY <2>6 DEF Rgetsize, r, t
<1> QED
  BY <1>1, StreamInvariant, PTL
-----------------------------------------------------------------------------
\* An item of a number is in cells that are in the stream.
LEMMA ItemsInCells ==
  ASSUME VectorAssumption, StreamAssumption, StreamInv, Streaming, NEW i \in 1 .. Rgetsize
  PROVE  /\ i \in Nat /\ (i - 1) * cells \in Nat /\ (i - 1) * cells + cells <= currentIndex
<1> DEFINE q == currentIndex \div cells
           r == (currentIndex % cells)
<1>1. cells \in Nat \ {0} /\ currentIndex \in Nat
  BY StreamNumbers DEF StreamInv
<1>2. q \in Nat /\ r \in Nat /\ currentIndex = cells * q + r
  <2>1. q \in Nat /\ r \in 0 .. cells - 1 /\ currentIndex = cells * q + r
    BY ONLY <1>1, NatDivision, Zenon
  <2> HIDE DEF q, r
  <2> QED
    BY <1>1, <2>1
<1>3. i \in 1 .. q
  BY DEF Rgetsize
<1> HIDE DEF q, r
<1>4. PICK d \in Nat : q = i + d
  <2>1. q - i \in Nat /\ q = i + (q - i)
    BY <1>2, <1>3
  <2> QED
    BY <2>1
<1>5. /\ cells * q = (i - 1) * cells + cells + cells * d /\ cells * d \in Nat
      /\ (i - 1) * cells \in Nat
  BY <1>1, <1>3, <1>4
<1> QED
  BY <1>1, <1>2, <1>3, <1>5

\* What is in the stream, by the number of the item.
LEMMA ItemsByNumber ==
  ASSUME VectorAssumption, StreamAssumption, StreamInv, Streaming, pc # "wild"
  PROVE  /\ StoredItems = [i \in 1 .. Rgetsize |-> ItemAt((i - 1) * cells)]
         /\ Rgetsize = currentIndex \div cells /\ Rgetsize \in Nat
         /\ Len(StoredItems) = Rgetsize /\ ShiftedOut = dest_index \div cells
<1>1. Rgetsize = currentIndex \div cells /\ Rgetsize \in Nat
  BY TakenItems DEF Rgetsize
<1>2. /\ StoredItems = [i \in 1 .. Rgetsize |-> ItemAt((i - 1) * cells)]
      /\ ShiftedOut = dest_index \div cells
  BY DEF StoredItems, ShiftedOut
<1>3. Len(StoredItems) = Rgetsize
  BY ONLY <1>1, <1>2
<1> QED
  BY <1>1, <1>2, <1>3

\* An item stays as it is when its cells do.
LEMMA ItemKeeps ==
  ASSUME VectorAssumption, StreamAssumption, StreamInv, Streaming, itemSize' = itemSize,
         \A i \in 0 .. currentIndex - 1 : Cell(i)' = Cell(i)
  PROVE  \A i \in 1 .. Rgetsize : ItemAt((i - 1) * cells)' = ItemAt((i - 1) * cells)
<1> SUFFICES ASSUME NEW i \in 1 .. Rgetsize
             PROVE  ItemAt((i - 1) * cells)' = ItemAt((i - 1) * cells)
  OBVIOUS
<1> DEFINE p == (i - 1) * cells
<1>1. p \in Nat /\ p + cells <= currentIndex /\ cells \in Nat /\ currentIndex \in Nat
  BY ItemsInCells, StreamNumbers DEF StreamInv
<1>2. cells' = cells /\ p' = p
  BY DEF cells, CellsOf
<1> HIDE DEF p
<1>3. ASSUME NEW c \in 1 .. cells
      PROVE  Cell(p + c - 1)' = Cell(p + c - 1)
  <2>1. p + c - 1 \in 0 .. currentIndex - 1
    BY <1>1
  <2>2. \A x : x = p + c - 1 => Cell(x)' = Cell(x)
    BY <2>1
  <2> QED
    BY <1>2, <2>2
<1>4. ItemAt(p)' = ItemAt(p)
  BY <1>2, <1>3 DEF ItemAt
<1> QED
  BY <1>4 DEF p

\* The stream has the same items when it has as many and their cells stay.
LEMMA SameItems ==
  ASSUME VectorAssumption, StreamAssumption, StreamInv, Streaming, pc # "wild", pc' # "wild",
         itemSize' = itemSize, currentIndex' \div cells = currentIndex \div cells,
         \A i \in 0 .. currentIndex - 1 : Cell(i)' = Cell(i)
  PROVE  StoredItems' = StoredItems
<1>1. cells' = cells /\ Streaming'
  BY DEF cells, CellsOf, Streaming
<1>2. Rgetsize' = Rgetsize
  BY <1>1 DEF Rgetsize
<1>3. \A i \in 1 .. Rgetsize : ItemAt((i - 1) * cells)' = ItemAt((i - 1) * cells)
  BY ItemKeeps
<1>4. StoredItems = [i \in 1 .. Rgetsize |-> ItemAt((i - 1) * cells)]
  BY DEF StoredItems
<1>5. StoredItems' = [i \in 1 .. Rgetsize |-> ItemAt((i - 1) * cells)']
  BY <1>2 DEF StoredItems
<1> QED
  BY <1>3, <1>4, <1>5

\* Opening is the beginning of a call.
LEMMA OpenRefines ==
  ASSUME VectorAssumption, StreamAssumption, StreamInv, StreamInv', NEW size \in ItemSizes,
         StreamOpen(size)
  PROVE  Queue!Begin
<1>1. /\ ~Streaming /\ Open(CellOpens) /\ itemSize' = size /\ pc' = "idle" /\ currentIndex' = 0
      /\ pc = "closed" /\ given' = <<>> /\ answer' = "success" /\ dest_index' = dest_index
      /\ answer = "success" /\ dest_index = 0
  BY DEF StreamOpen, Open, Answer, StreamInv, NothingOpen
<1>2. Streaming' /\ cells' \in Nat \ {0} /\ 0 \div cells' = 0
  <2> DEFINE c == CellsOf(size)
  <2>1. size \in Nat \ {0}
    BY DEF StreamAssumption
  <2>2. c \in Nat \ {0}
    BY <2>1, CellsPositive
  <2> HIDE DEF c
  <2>3. 0 \div c = 0
    BY <2>2
  <2>4. cells' = c
    BY <1>1 DEF cells, CellsOf, c
  <2> QED
    BY <1>1, <2>1, <2>2, <2>3, <2>4 DEF Streaming
<1>3. StoredItems = <<>> /\ ShiftedOut = 0 /\ ~StoresNoMore
  <2>1. StoredItems = [i \in 1 .. 0 |-> ItemAt((i - 1) * cells)]
    BY <1>1 DEF StoredItems, Rgetsize
  <2> QED
    BY <1>1, <2>1 DEF ShiftedOut, StoresNoMore
<1>4. StoredItems' = <<>> /\ ShiftedOut' = 0
  <2>1. Rgetsize' = 0
    BY <1>1, <1>2 DEF Rgetsize
  <2>2. StoredItems' = [i \in 1 .. 0 |-> ItemAt((i - 1) * cells)']
    BY <1>1, <2>1 DEF StoredItems
  <2>3. StoredItems' = <<>>
    BY <2>2
  <2>4. ShiftedOut' = 0
    <3>1. ShiftedOut' = dest_index' \div cells' /\ dest_index' = 0
      BY <1>1, <1>2 DEF ShiftedOut
    <3> QED
      BY <1>2, <3>1
  <2> QED
    BY <2>3, <2>4
<1>5. ~StoresNoMore'
  <2>1. bufferArray' = << Cells(0 \div CellSize) >>
    BY <1>1 DEF Open, CellOpens
  <2>2. 0 \div CellSize = 0
    <3>1. CellSize \in Nat \ {0}
      BY DEF VectorAssumption
    <3> QED
      BY <3>1
  <2>3. Cells(0) \in Seq(Values \cup {Unwritten})
    BY DEF Cells
  <2>4. Cells(0) # Null
    BY <2>3 DEF VectorAssumption
  <2> QED
    BY <1>1, <2>1, <2>2, <2>4 DEF StoresNoMore, Broken
<1> QED
  BY <1>1, <1>3, <1>4, <1>5, Zenon DEF Queue!Begin, StoresNoMore

\* A call that has no item stored yet, or a step that stores no last cell.
LEMMA QueueStays ==
  ASSUME VectorAssumption, StreamAssumption, StreamInv, Streaming, pc # "wild", pc' # "wild",
         UNCHANGED <<itemSize, dest_index>>, Broken' <=> Broken,
         currentIndex' \div cells = currentIndex \div cells,
         \A i \in 0 .. currentIndex - 1 : Cell(i)' = Cell(i)
  PROVE  UNCHANGED <<StoredItems, ShiftedOut>> /\ (StoresNoMore' <=> StoresNoMore)
<1>1. StoredItems' = StoredItems
  BY SameItems
<1>2. ShiftedOut' = ShiftedOut
  BY DEF ShiftedOut, Streaming, cells, CellsOf
<1>3. StoresNoMore' <=> StoresNoMore
  BY DEF StoresNoMore, Streaming
<1> QED
  BY <1>1, <1>2, <1>3

\* A cell that is not the last of its item makes no item more.
LEMMA PartOfItem ==
  ASSUME NEW b \in Nat \ {0}, NEW n \in Nat, NEW p \in 2 .. b, NEW k \in Nat, n + p = b * k
  PROVE  (n + 1) \div b = n \div b
<1>1. k - 1 \in Nat
  <2>1. k = 0 => b * k = 0
    OBVIOUS
  <2> QED
    BY <2>1
<1>2. b * k = b * (k - 1) + b /\ b * (k - 1) \in Nat
  BY <1>1
<1> DEFINE r == b - p
<1>3. r \in 0 .. b - 1 /\ r + 1 \in 0 .. b - 1
  OBVIOUS
<1>4. n = b * (k - 1) + r /\ n + 1 = b * (k - 1) + (r + 1)
  BY <1>2
<1> HIDE DEF r
<1>5. n \div b = k - 1
  BY <1>1, <1>3, <1>4, QuotientIs
<1>6. (n + 1) \div b = k - 1
  BY <1>1, <1>3, <1>4, QuotientIs
<1> QED
  BY <1>5, <1>6

\* The last cell of its item makes one.
LEMMA LastOfItem ==
  ASSUME NEW b \in Nat \ {0}, NEW n \in Nat, NEW k \in Nat, n + 1 = b * k
  PROVE  /\ (n + 1) \div b = (n \div b) + 1 /\ n \div b \in Nat
         /\ b * (n \div b) + b = n + 1
<1>1. k - 1 \in Nat
  <2>1. k = 0 => b * k = 0
    OBVIOUS
  <2> QED
    BY <2>1
<1>2. b * k = b * (k - 1) + b /\ b * (k - 1) \in Nat
  BY <1>1
<1>3. n = b * (k - 1) + (b - 1) /\ b - 1 \in 0 .. b - 1
  BY <1>2
<1>4. n \div b = k - 1
  BY <1>1, <1>3, QuotientIs
<1>5. (n + 1) \div b = k
  <2>1. n + 1 = b * k + 0 /\ 0 \in 0 .. b - 1
    OBVIOUS
  <2> QED
    BY <2>1, QuotientIs
<1> QED
  BY <1>1, <1>2, <1>4, <1>5

\* A datum is stored in a cell of its own, and the cells before it stay.
LEMMA StoreKeeps ==
  ASSUME VectorAssumption, StreamAssumption, StreamInv, Streaming, pc = "insert", Store
  PROVE  /\ currentIndex' = currentIndex + 1 /\ pc' = "idle" /\ status' = "success"
         /\ ~Broken /\ ~Broken'
         /\ \A i \in 0 .. currentIndex - 1 : Cell(i)' = Cell(i)
<1>1. /\ HasRoom /\ IsCell(Getaddr(currentIndex)) /\ currentIndex' = currentIndex + 1
      /\ pc' = "idle" /\ status' = "success" /\ currentIndex \in Nat
      /\ UNCHANGED <<firstArrayInsert, reallocArrayInsert>>
  BY StreamNumbers DEF Store, Return, Inserting, shape, StreamInv
<1>2. ~Broken
  BY <1>1 DEF StreamInv, MissingIsNext, IsCell
<1>3. Data' = Append(Data, datum) /\ ~Broken'
  BY <1>2, StoreAppends DEF StreamInv
<1>4. Data = [i \in 1 .. currentIndex |-> Cell(i - 1)]
  BY DEF Data
<1>5. Data' = [i \in 1 .. currentIndex + 1 |-> IF i = currentIndex + 1 THEN datum ELSE Data[i]]
  BY <1>1, <1>3, <1>4
<1>6. \A i \in 1 .. currentIndex : Data'[i] = Data[i]
  BY <1>1, <1>5
<1>7. \A i \in 0 .. currentIndex - 1 : Cell(i)' = Cell(i)
  BY <1>1, <1>6, DataKeepCells
<1> QED
  BY <1>1, <1>2, <1>3, <1>7

\* A cell is stored: the last of its item shifts the item in, another changes nothing yet.
LEMMA StoreRefines ==
  ASSUME VectorAssumption, StreamAssumption, StreamInv, StreamInv', LshiftStep, Store
  PROVE  [Queue!Next]_(Queue!queueVars)
<1>1. /\ Streaming /\ pc = "insert" /\ rest \in Seq(Values)
      /\ rest' = IF status' = "success" /\ pc' # "wild" THEN rest ELSE <<>>
      /\ answer' = IF pc' = "idle" /\ rest' = <<>> THEN status' ELSE answer
      /\ UNCHANGED <<itemSize, current_size, dest_index, handles, given>>
  BY DEF LshiftStep, Store, Inserting, StreamInv, OwnTypes
<1>2. /\ currentIndex' = currentIndex + 1 /\ pc' = "idle" /\ status' = "success"
      /\ ~Broken /\ ~Broken' /\ \A i \in 0 .. currentIndex - 1 : Cell(i)' = Cell(i)
  BY <1>1, StoreKeeps
<1>3. /\ cells \in Nat \ {0} /\ currentIndex \in Nat /\ cells' = cells /\ Streaming'
      /\ Len(rest) \in Nat /\ Pending = Len(rest) + 1 /\ Pending <= cells /\ given = <<>>
  BY <1>1, StreamNumbers DEF StreamInv, cells, CellsOf, Streaming, Pending, ItemInHand
<1>4. PICK k \in Nat : currentIndex + Pending = cells * k
  <2>1. PICK k \in 0 .. currentIndex + Pending : currentIndex + Pending = cells * k
    BY <1>1, <1>2, Zenon DEF StreamInv, WholeItems, Multiple
  <2>2. k \in Nat
    BY <1>3
  <2> QED
    BY ONLY <2>1, <2>2, Zenon
<1>5. CASE rest # <<>>
  <2>1. Len(rest) # 0
    BY <1>1, <1>5
  <2> DEFINE p == Pending
             n == currentIndex
  <2>2. p \in 2 .. cells /\ n \in Nat /\ n + p = cells * k
    BY <1>3, <1>4, <2>1
  <2> HIDE DEF p, n
  <2>3. (n + 1) \div cells = n \div cells
    BY <1>3, <2>2, PartOfItem
  <2>4. currentIndex' \div cells = currentIndex \div cells
    BY <1>2, <2>3 DEF n
  <2>5. UNCHANGED <<StoredItems, ShiftedOut>> /\ (StoresNoMore' <=> StoresNoMore)
    BY <1>1, <1>2, <2>4, QueueStays
  <2>6. UNCHANGED <<given, answer>>
    BY <1>1, <1>2, <1>5
  <2> QED
    BY <2>5, <2>6, Zenon DEF Queue!queueVars, StoresNoMore
<1>6. CASE rest = <<>>
  <2> DEFINE n == currentIndex
  <2>1. n \in Nat /\ n + 1 = cells * k
    BY <1>3, <1>4, <1>6
  <2>2. PICK q \in Nat : /\ n \div cells = q /\ (n + 1) \div cells = q + 1
                         /\ cells * q + cells = n + 1
    <3> HIDE DEF n
    <3> QED
      BY <1>3, <1>4, <2>1, LastOfItem
  <2>3. /\ StoredItems = [i \in 1 .. q |-> ItemAt((i - 1) * cells)]
        /\ Rgetsize = q /\ Rgetsize' = q + 1
    BY <1>1, <1>2, <1>3, <2>2 DEF StoredItems, Rgetsize
  <2>4. StoredItems' = [i \in 1 .. q + 1 |-> ItemAt((i - 1) * cells)']
    BY <1>2, <2>3 DEF StoredItems
  <2>5. \A i \in 1 .. q : ItemAt((i - 1) * cells)' = ItemAt((i - 1) * cells)
    BY <1>1, <1>2, <2>3, ItemKeeps
  <2> DEFINE last == ItemAt(q * cells)'
  <2>6. last \in AllItems
    <3>1. q * cells \in Nat /\ q * cells + cells = currentIndex'
      BY <1>2, <1>3, <2>2
    <3>2. ASSUME NEW c \in 1 .. cells
          PROVE  Cell(q * cells + c - 1)' \in Values
      <4>1. PICK at \in Nat : at = q * cells + c - 1 /\ at < q * cells + cells
        <5>1. q * cells + c - 1 \in Nat /\ q * cells + c - 1 < q * cells + cells
          BY <1>3, <3>1
        <5> QED
          BY <5>1
      <4>2. at \in 0 .. currentIndex' - 1
        BY <1>2, <1>3, <3>1, <4>1
      <4>3. Cell(at)' \in Values
        BY <1>3, <4>2 DEF StreamInv, StoredValues
      <4>4. (q * cells + c - 1)' = at
        BY <1>3, <4>1
      <4> QED
        BY <4>3, <4>4
    <3>3. last \in ItemsOf(itemSize)
      BY <1>1, <1>3, <3>2 DEF ItemAt, ItemsOf, cells
    <3>4. itemSize \in ItemSizes
      BY <1>1 DEF Streaming, StreamInv, OwnTypes
    <3> QED
      BY <3>3, <3>4 DEF AllItems
  <2>7. StoredItems' = Append(StoredItems, last)
    <3>1. ((q + 1) - 1) * cells = q * cells /\ q + 1 \in 1 .. q + 1
      BY <2>2
    <3>2. StoredItems'[q + 1] = last
      BY <2>4, <3>1
    <3> HIDE DEF last
    <3>3. Append(StoredItems, last) = [i \in 1 .. q + 1 |-> IF i = q + 1 THEN last ELSE StoredItems[i]]
      BY <2>2, <2>3
    <3>4. ASSUME NEW i \in 1 .. q + 1
          PROVE  StoredItems'[i] = IF i = q + 1 THEN last ELSE StoredItems[i]
      <4>1. CASE i = q + 1
        BY <3>2, <4>1
      <4>2. CASE i # q + 1
        <5>1. i \in 1 .. q
          BY <2>2, <4>2
        <5> QED
          BY <2>3, <2>4, <2>5, <4>2, <5>1
      <4> QED
        BY <4>1, <4>2
    <3> QED
      BY <2>4, <3>3, <3>4
  <2>8. ShiftedOut' = ShiftedOut
    BY <1>1, <1>2, <1>3 DEF ShiftedOut
  <2>9. given' = <<>> /\ answer' = "success" /\ ~StoresNoMore /\ ~StoresNoMore'
    BY <1>1, <1>2, <1>3, <1>6 DEF StoresNoMore
  <2> HIDE DEF last
  <2>10. \E item \in AllItems : StoredItems' = Append(StoredItems, item)
    BY <2>6, <2>7
  <2> QED
    BY <2>8, <2>9, <2>10, Zenon DEF Queue!Next, Queue!ShiftIn, StoresNoMore
<1> QED
  BY <1>5, <1>6

\* A step of lshift: a cell stored, an array added, or memory refused.
LEMMA LshiftStepRefines ==
  ASSUME VectorAssumption, StreamAssumption, StreamInv, StreamInv', LshiftStep
  PROVE  [Queue!Next]_(Queue!queueVars)
<1>1. /\ Streaming /\ InsertStep /\ Inserting /\ pc = "insert" /\ VectorInv
      /\ UNCHANGED <<firstArrayInsert, reallocArrayInsert>>
      /\ UNCHANGED <<itemSize, current_size, dest_index, handles, given>>
      /\ Streaming' /\ cells' = cells /\ currentIndex \in Nat
  BY StreamNumbers
     DEF LshiftStep, InsertStep, Realloc, ReallocFails, TableFails, Store, StoreWild, Inserting,
         shape, StreamInv, Streaming, cells, CellsOf
<1>2. /\ rest' = IF status' = "success" /\ pc' # "wild" THEN rest ELSE <<>>
      /\ answer' = IF pc' = "idle" /\ rest' = <<>> THEN status' ELSE answer
  BY DEF LshiftStep
<1>3. given = <<>> /\ given' = <<>>
  <2>1. Pending # 0
    BY <1>1 DEF Pending, StreamInv, OwnTypes
  <2> QED
    BY <1>1, <2>1 DEF StreamInv, ItemInHand
<1>4. ASSUME UNCHANGED currentIndex, pc' # "wild", ~HasRoom,
             NEW array, bufferArray' = Append(bufferArray, array)
      PROVE  UNCHANGED <<StoredItems, ShiftedOut>>
  <2>1. Data' = Data
    BY <1>1, <1>4, MoreArraysSameData
  <2>2. \A i \in 1 .. currentIndex : Data'[i] = Data[i]
    BY <2>1
  <2>3. \A i \in 0 .. currentIndex - 1 : Cell(i)' = Cell(i)
    BY <1>1, <1>4, <2>2, DataKeepCells
  <2>4. StoredItems' = StoredItems
    BY <1>1, <1>4, <2>3, SameItems
  <2> QED
    BY <1>1, <1>4, <2>4 DEF ShiftedOut
<1>5. CASE Realloc
  <2>1. /\ ~HasRoom /\ UNCHANGED <<currentIndex, pc>> /\ status' = "success"
        /\ bufferArray' = Append(bufferArray, Cells(reallocArrayInsert))
    BY <1>5, Zenon DEF Realloc
  <2>2. Cells(reallocArrayInsert) # Null
    <3>1. Cells(reallocArrayInsert) \in Seq(Values \cup {Unwritten})
      BY <1>1 DEF Cells, VectorInv, VectorTypeOK
    <3> QED
      BY <3>1 DEF VectorAssumption
  <2>3. Broken' <=> Broken
    BY <1>1, <2>1, <2>2, MoreArraysSameData
  <2>4. UNCHANGED <<StoredItems, ShiftedOut>>
    BY <1>1, <1>4, <2>1
  <2>5. answer' = answer
    BY <1>1, <1>2, <2>1
  <2> QED
    BY <1>1, <2>3, <2>4, <2>5, Zenon DEF Queue!queueVars, StoresNoMore
<1>6. CASE ReallocFails
  <2>1. /\ ~HasRoom /\ UNCHANGED currentIndex /\ pc' = "idle" /\ status' = "memory"
        /\ bufferArray' = Append(bufferArray, Null) /\ Faults # {}
    BY <1>6 DEF ReallocFails, Return
  <2>2. Broken'
    BY <1>1, <2>1, MoreArraysSameData
  <2>3. UNCHANGED <<StoredItems, ShiftedOut>>
    BY <1>1, <1>4, <2>1
  <2>4. answer' = "memory"
    BY <1>2, <2>1
  <2> QED
    BY <1>1, <1>3, <2>1, <2>2, <2>3, <2>4, Zenon DEF Queue!Next, Queue!Fail, StoresNoMore
<1>7. ASSUME GoWild
      PROVE  Queue!Next
  <2>1. pc' = "wild" /\ Broken'
    BY <1>7 DEF GoWild, Broken
  <2>2. Faults # {}
    BY <2>1 DEF StreamInv, MissingByFault
  <2>3. StoredItems' = <<>> /\ ShiftedOut' = 0
    BY <2>1 DEF StoredItems, ShiftedOut
  <2>4. answer' = answer
    BY <1>2, <2>1
  <2> QED
    BY <1>1, <1>3, <2>1, <2>2, <2>3, <2>4, Zenon DEF Queue!Next, Queue!Lose, StoresNoMore
<1> QED
  BY <1>1, <1>5, <1>6, <1>7, StoreRefines DEF InsertStep, TableFails, StoreWild

\* What rstream gives is the item of its number.
LEMMA RstreamReads ==
  ASSUME VectorAssumption, StreamAssumption, StreamInv, NEW i \in Nat, Rstream(i * cells),
         UNCHANGED vars
  PROVE  /\ i + 1 \in 1 .. Len(StoredItems) /\ given' = << StoredItems[i + 1] >>
         /\ UNCHANGED StoredItems /\ answer' = "success" /\ (StoresNoMore' <=> StoresNoMore)
<1>1. /\ Streaming /\ pc = "idle" /\ i * cells + cells <= currentIndex
      /\ itemSize' = itemSize /\ given' = << ItemAt(i * cells) >> /\ answer' = "success"
      /\ UNCHANGED <<firstArrayInsert, reallocArrayInsert, bufferArray, currentIndex, pc>>
  BY DEF Rstream, Ready, Answer, vars, shape
<1>2. cells \in Nat \ {0} /\ currentIndex \in Nat /\ cells' = cells
  BY <1>1, StreamNumbers DEF StreamInv, cells, CellsOf
<1>3. /\ StoredItems = [j \in 1 .. Rgetsize |-> ItemAt((j - 1) * cells)]
      /\ Rgetsize = currentIndex \div cells /\ Rgetsize \in Nat /\ Len(StoredItems) = Rgetsize
  BY <1>1, ItemsByNumber
<1>4. i + 1 <= Rgetsize
  <2> DEFINE n == i * cells + cells
  <2>1. n = cells * (i + 1) + 0 /\ 0 \in 0 .. cells - 1 /\ i + 1 \in Nat
    BY <1>2
  <2>2. n \div cells = i + 1
    <3> HIDE DEF n
    <3> QED
      BY <1>2, <2>1, QuotientIs
  <2>3. n \in 0 .. currentIndex
    BY <1>1, <1>2
  <2> HIDE DEF n
  <2>4. \A c \in 0 .. currentIndex : c \div cells <= currentIndex \div cells
    BY ONLY <1>2, QuotientSteps, Zenon
  <2>5. n \div cells <= currentIndex \div cells
    BY ONLY <2>3, <2>4, Zenon
  <2> QED
    BY ONLY <1>3, <2>2, <2>5, Zenon
<1>5. i + 1 \in 1 .. Rgetsize /\ (i + 1) - 1 = i
  BY <1>3, <1>4
<1>6. given' = << StoredItems[i + 1] >>
  BY <1>1, <1>3, <1>5
<1>7. \A j \in 0 .. currentIndex - 1 : Cell(j)' = Cell(j)
  BY <1>1, SameCells
<1>8. StoredItems' = StoredItems
  <2>1. currentIndex' \div cells = currentIndex \div cells
    BY <1>1
  <2> QED
    BY <1>1, <1>7, <2>1, SameItems
<1>9. StoresNoMore' <=> StoresNoMore
  BY <1>1 DEF StoresNoMore, Broken, Streaming
<1> QED
  BY <1>1, <1>3, <1>5, <1>6, <1>8, <1>9

\* The calls that read, and those that have no memory for it.
LEMMA ReadsRefine ==
  ASSUME VectorAssumption, StreamAssumption, WholeIndices, StreamInv,
         \/ Rshift \/ \E i \in 0 .. Rgetsize - 1 : Rgetdata(i)
         \/ RshiftFails \/ RgetdataFails \/ \E h \in handles : Free(h)
  PROVE  [Queue!Next]_(Queue!queueVars)
<1>1. /\ Streaming /\ UNCHANGED vars /\ UNCHANGED itemSize /\ pc = "idle"
      /\ cells' = cells /\ cells \in Nat \ {0} /\ currentIndex \in Nat
  BY StreamNumbers DEF Rshift, Rgetdata, Rstream, RshiftFails, RgetdataFails, RstreamFails, Free,
         Ready, cells, CellsOf, StreamInv
<1>2. /\ dest_index \div cells \in Nat /\ dest_index = cells * (dest_index \div cells)
      /\ dest_index + cells <= currentIndex =>
              /\ (dest_index + cells) \div cells = (dest_index \div cells) + 1
  BY <1>1, TakenItems
<1>3. ShiftedOut = dest_index \div cells /\ ShiftedOut' = dest_index' \div cells
  BY <1>1 DEF ShiftedOut, vars, Streaming
<1>4. ASSUME Rshift
      PROVE  Queue!Next
  <2> DEFINE t == dest_index \div cells
  <2>1. /\ Rstream(dest_index) /\ dest_index' = dest_index + cells
        /\ dest_index + cells <= currentIndex
    BY <1>4 DEF Rshift, Rstream
  <2>2. dest_index = t * cells /\ t \in Nat /\ dest_index' \div cells = t + 1
    BY <1>1, <1>2, <2>1
  <2>3. Rstream(t * cells)
    BY ONLY <2>1, <2>2, Zenon
  <2>4. ShiftedOut = t /\ ShiftedOut' = t + 1
    BY <1>3, <2>2
  <2> HIDE DEF t
  <2>5. /\ t + 1 \in 1 .. Len(StoredItems) /\ given' = << StoredItems[t + 1] >>
        /\ UNCHANGED StoredItems /\ answer' = "success" /\ (StoresNoMore' <=> StoresNoMore)
    BY <1>1, <2>2, <2>3, RstreamReads
  <2>6. ShiftedOut < Len(StoredItems) /\ ShiftedOut' = ShiftedOut + 1
        /\ given' = << StoredItems[ShiftedOut'] >>
    BY <1>1, <2>2, <2>4, <2>5, ItemsByNumber
  <2> QED
    BY <2>5, <2>6, Zenon DEF Queue!Next, Queue!ShiftOut, StoresNoMore
<1>5. ASSUME NEW i \in 0 .. Rgetsize - 1, Rgetdata(i)
      PROVE  Queue!Next
  <2>1. i \in Nat
    BY <1>1, ItemsByNumber
  <2>2. Rstream(i * cells)
    <3>1. CASE IndexIsOfItem
      <4>1. cells = 1 /\ i * 1 = i
        BY <1>1, <2>1, <3>1 DEF WholeIndices, StreamInv, OwnTypes, Streaming, cells
      <4>2. Rstream(i)
        BY <1>5, <3>1 DEF Rgetdata
      <4> QED
        BY ONLY <4>1, <4>2, Zenon
    <3>2. CASE ~IndexIsOfItem
      BY <1>5, <3>2 DEF Rgetdata
    <3> QED
      BY <3>1, <3>2
  <2>3. /\ i + 1 \in 1 .. Len(StoredItems) /\ given' = << StoredItems[i + 1] >>
        /\ UNCHANGED StoredItems /\ answer' = "success" /\ (StoresNoMore' <=> StoresNoMore)
    BY <1>1, <2>1, <2>2, RstreamReads
  <2>4. ShiftedOut' = ShiftedOut
    BY <1>3, <1>5 DEF Rgetdata
  <2> QED
    BY <2>3, <2>4, Zenon DEF Queue!Next, Queue!Read, StoresNoMore
<1>6. ASSUME UNCHANGED dest_index
      PROVE  UNCHANGED <<StoredItems, ShiftedOut>> /\ (StoresNoMore' <=> StoresNoMore)
  <2>1. UNCHANGED <<firstArrayInsert, reallocArrayInsert, bufferArray, currentIndex, pc>>
    BY <1>1 DEF vars, shape
  <2>2. \A i \in 0 .. currentIndex - 1 : Cell(i)' = Cell(i)
    BY <2>1, SameCells
  <2>3. (Broken' <=> Broken) /\ currentIndex' \div cells = currentIndex \div cells
    BY <2>1 DEF Broken
  <2> QED
    BY <1>1, <1>6, <2>1, <2>2, <2>3, QueueStays
<1>7. ASSUME RshiftFails \/ RgetdataFails
      PROVE  Queue!Next
  <2>1. Faults # {} /\ given' = <<>> /\ answer' = "memory" /\ UNCHANGED dest_index
    BY <1>7 DEF RshiftFails, RgetdataFails, RstreamFails, Answer
  <2> QED
    BY <1>6, <2>1, Zenon DEF Queue!Next, Queue!Fail, StoresNoMore
<1>8. ASSUME NEW h \in handles, Free(h)
      PROVE  UNCHANGED Queue!queueVars
  <2>1. UNCHANGED <<dest_index, given, answer>>
    BY <1>8 DEF Free
  <2> QED
    BY <1>6, <2>1, Zenon DEF Queue!queueVars, StoresNoMore
<1> QED
  BY <1>4, <1>5, <1>7, <1>8

\* Every step of the stream is one of the queue, or none.
LEMMA StreamRefines ==
  ASSUME VectorAssumption, StreamAssumption, WholeIndices, StreamInv, StreamInv',
         [StreamNext]_streamVars
  PROVE  [Queue!Next]_(Queue!queueVars)
<1>1. ASSUME Streaming, UNCHANGED <<itemSize, dest_index, answer>>, NEW v, Insert(v), given' = <<>>
      PROVE  Queue!Begin
  <2>1. /\ UNCHANGED <<firstArrayInsert, reallocArrayInsert, bufferArray, currentIndex>>
        /\ pc = "idle" /\ pc' = "insert"
    BY <1>1 DEF Insert, shape
  <2>2. \A i \in 0 .. currentIndex - 1 : Cell(i)' = Cell(i)
    BY <2>1, SameCells
  <2>3. (Broken' <=> Broken) /\ currentIndex' \div cells = currentIndex \div cells
    BY <2>1 DEF Broken
  <2>4. UNCHANGED <<StoredItems, ShiftedOut>> /\ (StoresNoMore' <=> StoresNoMore)
    BY <1>1, <2>1, <2>2, <2>3, QueueStays
  <2> QED
    BY <1>1, <2>4, Zenon DEF Queue!Begin, StoresNoMore
<1>2. ASSUME NEW item \in ItemsOf(itemSize), Lshift(item)
      PROVE  Queue!Begin
  BY <1>1, <1>2 DEF Lshift, Ready
<1>3. ASSUME LshiftOn
      PROVE  Queue!Begin
  <2>1. Streaming /\ Insert(Head(rest)) /\ rest # <<>>
        /\ UNCHANGED <<itemSize, dest_index, given, answer>>
    BY <1>3 DEF LshiftOn
  <2>2. Pending # 0
    BY <2>1 DEF Pending, StreamInv, OwnTypes
  <2>3. given' = <<>>
    BY <2>1, <2>2 DEF StreamInv, ItemInHand
  <2> QED
    BY <1>1, <2>1, <2>3
<1>4. ASSUME StreamClose
      PROVE  Queue!Next
  <2>1. /\ itemSize' = 0 /\ dest_index' = 0 /\ pc' = "closed" /\ given' = <<>>
        /\ answer' = "success" /\ ~Streaming'
    BY <1>4 DEF StreamClose, Close, Answer, Streaming
  <2>2. StoredItems' = [i \in 1 .. 0 |-> ItemAt((i - 1) * cells)']
    BY <2>1 DEF StoredItems, Rgetsize
  <2>3. StoredItems' = <<>> /\ ShiftedOut' = 0 /\ ~StoresNoMore'
    BY <2>1, <2>2 DEF ShiftedOut, StoresNoMore
  <2> QED
    BY <2>1, <2>3, Zenon DEF Queue!Next, Queue!Lose, StoresNoMore
<1>5. ASSUME BareVector
      PROVE  UNCHANGED Queue!queueVars
  <2>1. /\ ~Streaming /\ ~Streaming' /\ UNCHANGED <<given, answer>>
    BY <1>5 DEF BareVector, own, Streaming
  <2>2. /\ StoredItems = IF pc = "wild" THEN <<>> ELSE [i \in 1 .. 0 |-> ItemAt((i - 1) * cells)]
        /\ StoredItems' = IF pc' = "wild" THEN <<>> ELSE [i \in 1 .. 0 |-> ItemAt((i - 1) * cells)']
    BY <2>1 DEF StoredItems, Rgetsize
  <2>3. StoredItems = <<>> /\ StoredItems' = <<>>
    BY <2>2
  <2> QED
    BY <2>1, <2>3, Zenon DEF Queue!queueVars, ShiftedOut, StoresNoMore
<1>6. UNCHANGED streamVars => UNCHANGED Queue!queueVars
  BY DEF streamVars, vars, shape, own, Queue!queueVars, StoredItems, ShiftedOut, StoresNoMore,
         Streaming, Broken, Rgetsize, ItemAt, cells, CellsOf, Cell, Getaddr
<1> QED
  BY <1>2, <1>3, <1>4, <1>5, <1>6, OpenRefines, LshiftStepRefines, ReadsRefine, Zenon
     DEF StreamNext, StreamCall, Queue!Next

\* fs_datastream.h, all of it, for all sizes and with memory failing: the stream is a queue
\* whose items come out whole and in order, as long as a number is passed for the index of
\* a cell only where an item is one cell.
THEOREM StreamImplementsQueue ==
  ASSUME VectorAssumption, StreamAssumption, WholeIndices
  PROVE  Spec => QueueSpec
<1>1. StreamInit => Queue!Init
  <2> SUFFICES ASSUME StreamInit
               PROVE  Queue!Init
    OBVIOUS
  <2>1. ~Streaming /\ given = <<>> /\ answer = "success"
    BY DEF StreamInit, Streaming
  <2>2. StoredItems = IF pc = "wild" THEN <<>> ELSE [i \in 1 .. 0 |-> ItemAt((i - 1) * cells)]
    BY <2>1 DEF StoredItems, Rgetsize
  <2>3. StoredItems = <<>>
    BY <2>2
  <2> QED
    BY <2>1, <2>3, Zenon DEF Queue!Init, ShiftedOut, StoresNoMore
<1>2. StreamInv /\ StreamInv' /\ [StreamNext]_streamVars => [Queue!Next]_(Queue!queueVars)
  BY VectorAssumption, StreamAssumption, WholeIndices, StreamRefines
<1>3. Spec => []StreamInv
  BY StreamInvariant
<1> QED
  BY <1>1, <1>2, <1>3, PTL DEF Spec, QueueSpec, Queue!Spec

\* fs_datastream.h:101-105: rgetdata gives the item of the number it is called with, where
\* an item is one cell, as the keys and the addresses of the tree are.
THEOREM NumberedItems ==
  ASSUME VectorAssumption, StreamAssumption, WholeIndices
  PROVE  Spec => ItemByNumber
<1>1. ASSUME StreamInv, NEW i \in 0 .. Rgetsize - 1, Rgetdata(i)
      PROVE  given' = << ItemAt(i * cells) >>
  <2>1. /\ Streaming /\ Rgetsize \in Nat
        /\ given' = << ItemAt(IF IndexIsOfItem THEN i ELSE i * cells) >>
    <3>1. Streaming /\ given' = << ItemAt(IF IndexIsOfItem THEN i ELSE i * cells) >>
      BY <1>1 DEF Rgetdata, Rstream, Ready, Answer
    <3>2. Rgetsize \in Nat
      BY <1>1, <3>1, TakenItems DEF Rgetsize
    <3> QED
      BY <3>1, <3>2
  <2>2. CASE IndexIsOfItem
    <3>1. cells = 1 /\ i * 1 = i
      BY <1>1, <2>1, <2>2 DEF WholeIndices, StreamInv, OwnTypes, Streaming, cells
    <3>2. i * cells = i
      BY <3>1
    <3> QED
      BY <2>1, <2>2, <3>2
  <2> QED
    BY <2>1, <2>2
<1>2. StreamInv => \A i \in 0 .. Rgetsize - 1 : Rgetdata(i) => given' = << ItemAt(i * cells) >>
  BY <1>1
<1>3. StreamInv /\ [StreamNext]_streamVars =>
        [\A i \in 0 .. Rgetsize - 1 : Rgetdata(i) => given' = << ItemAt(i * cells) >>]_streamVars
  BY <1>2
<1> QED
  BY <1>3, StreamInvariant, PTL DEF Spec, ItemByNumber
=============================================================================
