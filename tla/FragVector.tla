----------------------------- MODULE FragVector -----------------------------
(***************************************************************************)
(* fs_fragment_vector.h: a vector of cells of one size, in arrays that are *)
(* never moved: the first of one length, the later ones of another, and a  *)
(* table of pointers to them that grows by TableNum.  An insert that needs *)
(* room allocates one array after the other.  The cell of an index is a    *)
(* matter of a shift and a mask, for all lengths are powers of two.        *)
(***************************************************************************)
EXTENDS BitSearch, Sequences

CONSTANTS CellSize,   \* addSize: the size of a cell, a power of two
          TableNum,   \* P_TABLE_NUM
          Opens,      \* bound: arguments of open, records [first, realloc] of sizes
          MaxData,    \* bound: the data a client inserts
          Values,     \* bound: what it inserts
          Unwritten,  \* the content of a cell that was never written
          Null,       \* an array that could not be allocated
          Faults      \* {"malloc"} when memory may run out

\* A slip in lines 127-133: sizes are taken as they are.
RoundUpNot(size) == size

\* The next power of two, unless the highest bit is the only one.
RoundUp(size) ==
  LET msb == fs_getMsb32(size)
  IN  IF msb # fs_getLsb32(size) THEN 2^(msb + 1) ELSE 2^msb

\* The sizes that clients ask for have a power of two above them, and a size of
\* a cell at least is rounded up to whole cells.
ASSUME VectorAssumption ==
  /\ CellSize \in Nat \ {0} /\ TableNum \in Nat \ {0} /\ MaxData \in Nat
  /\ Opens \subseteq [first : Nat, realloc : Nat]
  /\ \A o \in Opens :
       /\ RoundUp(o.first) \in Nat /\ RoundUp(o.realloc) \in Nat
       /\ o.realloc >= CellSize =>
            RoundUp(o.realloc) >= CellSize /\ (RoundUp(o.realloc) % CellSize) = 0
  /\ Unwritten \notin Values /\ Null \notin Seq(Values \cup {Unwritten})
  /\ Faults \subseteq {"malloc"}

\* The largest index_t.  Sizes, and the powers of two above them, are within it.
IndexMax == 2^30 - 1 + 2^30
ASSUME WidthAssumption ==
  \A o \in Opens : \A size \in {o.first, o.realloc} :
    size \in 0 .. IndexMax /\ RoundUp(size) \in 0 .. IndexMax

VARIABLES firstArrayInsert,    \* the cells of the first array
          reallocArrayInsert,  \* the cells of each later one
          numOfBufferAry,      \* the length of the pointer table
          bufferArray,         \* the arrays in it, sequences of cells or Null
          maxArraySize,        \* the bytes of the arrays
          currentIndex,        \* the data in the vector
          status,
          pc,                  \* "closed", "idle", "insert" or "wild"
          datum,               \* what the insert in progress inserts
          reply                \* <<what the last getdata or pop gave>>, or <<>>

shape == <<firstArrayInsert, reallocArrayInsert>>
vars == <<shape, numOfBufferAry, bufferArray, maxArraySize, currentIndex, status, pc, datum, reply>>

VectorInit ==
  /\ firstArrayInsert = 0 /\ reallocArrayInsert = 1
  /\ numOfBufferAry = 0 /\ bufferArray = <<>> /\ maxArraySize = 0 /\ currentIndex = 0
  /\ status = "success" /\ pc = "closed" /\ datum = Unwritten /\ reply = <<>>

Cells(n) == [c \in 1 .. n |-> Unwritten]

\* fs_fragvector_open.  With no first size the first array is NULL, of no cells.
Open(o) ==
  /\ pc = "closed" /\ o.realloc >= CellSize
  /\ LET first == IF o.first = 0 THEN 0 ELSE RoundUp(o.first)
     IN  /\ firstArrayInsert' = first \div CellSize
         /\ reallocArrayInsert' = RoundUp(o.realloc) \div CellSize
         /\ bufferArray' = << Cells(first \div CellSize) >>
         /\ maxArraySize' = first
  /\ numOfBufferAry' = TableNum /\ currentIndex' = 0
  /\ status' = "success" /\ pc' = "idle"
  /\ UNCHANGED <<datum, reply>>

\* Slips in lines 173-181: the cells of the first array are left out of account,
\* or the place in a later array is lost.
GetaddrUnshifted(index) ==
  IF index < firstArrayInsert
  THEN [array |-> 1, cell |-> index + 1]
  ELSE [array |-> (index \div reallocArrayInsert) + 2, cell |-> (index % reallocArrayInsert) + 1]
GetaddrFirstCell(index) ==
  LET rest == index - firstArrayInsert
  IN  IF rest < 0
      THEN [array |-> 1, cell |-> index + 1]
      ELSE [array |-> (rest \div reallocArrayInsert) + 2, cell |-> 1]

\* The array and the cell in it of an index, counted from 1 as sequences are.
Getaddr(index) ==
  LET rest == index - firstArrayInsert
  IN  IF rest < 0
      THEN [array |-> 1, cell |-> index + 1]
      ELSE [array |-> (rest \div reallocArrayInsert) + 2, cell |-> (rest % reallocArrayInsert) + 1]

\* There is such a cell.
IsCell(addr) ==
  /\ addr.array \in DOMAIN bufferArray /\ bufferArray[addr.array] # Null
  /\ addr.cell \in DOMAIN bufferArray[addr.array]
Cell(index) == bufferArray[Getaddr(index).array][Getaddr(index).cell]

\* A slip in line 190: one cell too few is asked for.
HasRoomShort == maxArraySize >= currentIndex * CellSize
HasRoom == maxArraySize >= currentIndex * CellSize + CellSize

\* fs_fragvector_insert1, and insert2 with the client's copy, up to their loop.
Insert(v) ==
  /\ pc = "idle" /\ pc' = "insert" /\ datum' = v
  /\ UNCHANGED <<shape, numOfBufferAry, bufferArray, maxArraySize, currentIndex, status, reply>>

Inserting == pc = "insert" /\ UNCHANGED shape
Return(st) == pc' = "idle" /\ status' = st /\ datum' = Unwritten /\ reply' = <<>>

\* A slip in line 159: the table is taken to be full one array too late.
TableFullLate == numOfBufferAry < Len(bufferArray)
TableFull == numOfBufferAry < Len(bufferArray) + 1
Grown == IF TableFull THEN numOfBufferAry + TableNum ELSE numOfBufferAry

\* A slip in line 169: the array gets the size of the first.
ReallocFirst ==
  /\ Inserting /\ ~HasRoom
  /\ numOfBufferAry' = Grown
  /\ bufferArray' = Append(bufferArray, Cells(firstArrayInsert))
  /\ maxArraySize' = maxArraySize + reallocArrayInsert * CellSize
  /\ status' = "success"
  /\ UNCHANGED <<currentIndex, pc, datum, reply>>

\* fs_fragvector_realloc.
Realloc ==
  /\ Inserting /\ ~HasRoom
  /\ numOfBufferAry' = Grown
  /\ bufferArray' = Append(bufferArray, Cells(reallocArrayInsert))
  /\ maxArraySize' = maxArraySize + reallocArrayInsert * CellSize
  /\ status' = "success"
  /\ UNCHANGED <<currentIndex, pc, datum, reply>>

\* No memory for the array: it is counted all the same.
ReallocFails ==
  /\ Inserting /\ ~HasRoom /\ "malloc" \in Faults
  /\ numOfBufferAry' = Grown
  /\ bufferArray' = Append(bufferArray, Null)
  /\ maxArraySize' = maxArraySize + reallocArrayInsert * CellSize
  /\ Return("memory")
  /\ UNCHANGED currentIndex

GoWild ==
  /\ pc' = "wild" /\ datum' = Unwritten /\ reply' = <<>>
  /\ UNCHANGED <<numOfBufferAry, bufferArray, maxArraySize, currentIndex, status>>

\* No memory for the larger table, which is not looked at: a copy to NULL.
TableFails == Inserting /\ ~HasRoom /\ TableFull /\ "malloc" \in Faults /\ GoWild

Store ==
  /\ Inserting /\ HasRoom /\ IsCell(Getaddr(currentIndex))
  /\ LET a == Getaddr(currentIndex)
     IN  bufferArray' = [bufferArray EXCEPT ![a.array] = [@ EXCEPT ![a.cell] = datum]]
  /\ currentIndex' = currentIndex + 1
  /\ Return("success")
  /\ UNCHANGED <<numOfBufferAry, maxArraySize>>

\* The address is in no array.
StoreWild == Inserting /\ HasRoom /\ ~IsCell(Getaddr(currentIndex)) /\ GoWild

InsertStep == Realloc \/ ReallocFails \/ TableFails \/ Store \/ StoreWild

\* fs_fragvector_getdata, of an index that was inserted.
Getdata(index) ==
  /\ pc = "idle" /\ index < currentIndex
  /\ reply' = << Cell(index) >>
  /\ UNCHANGED <<shape, numOfBufferAry, bufferArray, maxArraySize, currentIndex, status, pc, datum>>

\* fs_fragvector_pop: that there is something to pop is up to the client.
Pop ==
  /\ pc = "idle" /\ currentIndex > 0
  /\ currentIndex' = currentIndex - 1
  /\ reply' = << Cell(currentIndex') >>
  /\ UNCHANGED <<shape, numOfBufferAry, bufferArray, maxArraySize, status, pc, datum>>

\* fs_fragvector_clear: the arrays stay.
Clear ==
  /\ pc = "idle"
  /\ currentIndex' = 0 /\ status' = "success" /\ reply' = <<>>
  /\ UNCHANGED <<shape, numOfBufferAry, bufferArray, maxArraySize, pc, datum>>

\* fs_fragvector_close; from "wild" the process has died.
Close ==
  /\ pc \in {"idle", "wild"} /\ pc' = "closed"
  /\ firstArrayInsert' = 0 /\ reallocArrayInsert' = 1
  /\ numOfBufferAry' = 0 /\ bufferArray' = <<>> /\ maxArraySize' = 0 /\ currentIndex' = 0
  /\ status' = "success" /\ reply' = <<>> /\ UNCHANGED datum

VectorCall ==
  \/ \E o \in Opens : Open(o)
  \/ \E v \in Values : currentIndex < MaxData /\ Insert(v)
  \/ \E index \in 0 .. MaxData : Getdata(index)
  \/ Pop \/ Clear \/ Close

VectorNext == VectorCall \/ InsertStep
VectorSpec == VectorInit /\ [][VectorNext]_vars
-----------------------------------------------------------------------------
Length(a) == IF a = 1 THEN firstArrayInsert ELSE reallocArrayInsert
VectorTypeOK ==
  /\ firstArrayInsert \in Nat /\ reallocArrayInsert \in Nat \ {0}
  /\ numOfBufferAry \in Nat /\ bufferArray \in Seq({Null} \cup Seq(Values \cup {Unwritten}))
  /\ \A a \in DOMAIN bufferArray : bufferArray[a] # Null => Len(bufferArray[a]) = Length(a)
  /\ maxArraySize \in Nat /\ currentIndex \in 0 .. MaxData
  /\ status \in {"success", "memory"}
  /\ pc \in {"closed", "idle", "insert", "wild"}
  /\ datum \in Values \cup {Unwritten} /\ (pc = "insert" <=> datum \in Values)

\* getaddr shifts by the highest bit of the length of the later arrays and masks
\* with what is below it, and Getaddr divides by the length: the two agree, for the
\* length is that power of two whatever sizes a client asks for (lines 127-148, 179-180).
ShiftIsLength ==
  pc # "closed" => reallocArrayInsert = 2^fs_getMsb32(reallocArrayInsert)

\* The pointer table has a place for every array there is (lines 158-170).
TableHoldsArrays == Len(bufferArray) <= numOfBufferAry

\* The addresses of all the cells that there is said to be room for are in the
\* arrays, and those of the data in arrays that exist (lines 172-183, 189-194).
AddressesInArrays ==
  \A index \in 0 .. (maxArraySize \div CellSize) - 1 :
    LET a == Getaddr(index)
    IN  /\ a.array \in DOMAIN bufferArray
        /\ bufferArray[a.array] # Null => a.cell \in DOMAIN bufferArray[a.array]
        /\ index < currentIndex => bufferArray[a.array] # Null

\* An address outside the arrays is used only after an array or the table could
\* not be allocated: otherwise an insert finds its cell (lines 158-170, 189-192).
WildOnlyWithoutMemory ==
  pc = "wild" => \/ \E a \in DOMAIN bufferArray : bufferArray[a] = Null
                 \/ TableFull /\ ~HasRoom

\* The data of the vector, and whether memory that it counts on is missing.
Data == IF pc = "wild" THEN <<>> ELSE [i \in 1 .. currentIndex |-> Cell(i - 1)]
Broken == pc = "wild" \/ \E a \in DOMAIN bufferArray : bufferArray[a] = Null

\* The vector keeps what was inserted, in order and each in its own cell, whatever
\* arrays the insertions have added, also after an insertion has failed.
Stack == INSTANCE DataStack WITH
  contents <- Data, failed <- Broken, MemoryMayFail <- (Faults # {})
StackSpec == Stack!Spec
=============================================================================
