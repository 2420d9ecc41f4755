----------------------------- MODULE DataStream ------------------------------
(***************************************************************************)
(* fs_datastream.h: items of one size, cell by cell in a fragment vector   *)
(* of one cell per array.  An item of one cell is given out as a pointer   *)
(* into the vector, a larger one as a copy.  The actions of the stream are *)
(* those of FragVector with what the stream itself keeps.                  *)
(***************************************************************************)
EXTENDS FragVector

CONSTANTS ItemSizes,     \* bound: the sizes of items
          MaxCells,      \* bound: the cells of a stream
          MaxCount,      \* bound: current_size
          IndexIsOfItem  \* a client passes the number of an item to rgetdata

CellOpens == [first |-> 0, realloc |-> CellSize]
ASSUME StreamAssumption ==
  /\ CellOpens \in Opens
  /\ ItemSizes \subseteq Nat \ {0} /\ MaxCells \in 0 .. MaxData /\ MaxCount \in Nat
  /\ IndexIsOfItem \in BOOLEAN

VARIABLES itemSize,      \* the size of the items of the stream, 0 when there is none
          current_size,  \* the bytes that the stream says it holds
          dest_index,    \* the cell that rshift reads next
          rest,          \* the cells of an item that lshift has still to store
          handles,       \* the pointers given out: records of an address and an item
          given,         \* <<the item that the last call gave>>, or <<>>
          answer         \* the status of the stream

own == <<itemSize, current_size, dest_index, rest, handles, given, answer>>
streamVars == <<vars, own>>

StreamInit ==
  /\ VectorInit
  /\ itemSize = 0 /\ current_size = 0 /\ dest_index = 0 /\ rest = <<>>
  /\ handles = {} /\ given = <<>> /\ answer = "success"

CellsOf(size) == (size \div CellSize) + (IF (size % CellSize) = 0 THEN 0 ELSE 1)
cells == CellsOf(itemSize)
ItemsOf(size) == [1 .. CellsOf(size) -> Values]

Streaming == itemSize > 0
Ready == Streaming /\ pc = "idle" /\ rest = <<>>
Answer(st, gives) == answer' = st /\ given' = gives

\* A slip in line 53: the place to read from is what the memory held.
StreamOpenUnset(size) ==
  /\ ~Streaming /\ Open(CellOpens) /\ itemSize' = size /\ dest_index' \in 0 .. 1
  /\ Answer("success", <<>>) /\ UNCHANGED <<current_size, rest, handles>>

\* fs_datastream_open, for a client that stacks items of this size.
StreamOpen(size) ==
  /\ ~Streaming /\ Open(CellOpens) /\ itemSize' = size
  /\ Answer("success", <<>>) /\ UNCHANGED <<current_size, dest_index, rest, handles>>

\* fs_datastream_lshift, up to its first insert.
Lshift(item) ==
  /\ Ready /\ Insert(Head(item)) /\ rest' = Tail(item)
  /\ current_size' = current_size + itemSize
  /\ given' = <<>> /\ UNCHANGED <<itemSize, dest_index, handles, answer>>

\* The next turn of its loop.
LshiftOn ==
  /\ Streaming /\ rest # <<>> /\ Insert(Head(rest)) /\ rest' = Tail(rest)
  /\ UNCHANGED <<itemSize, current_size, dest_index, handles, given, answer>>

\* A step of the insert; when it fails the part stored stays in the vector.
LshiftStep ==
  /\ Streaming /\ InsertStep
  /\ rest' = IF status' = "success" /\ pc' # "wild" THEN rest ELSE <<>>
  /\ answer' = IF pc' = "idle" /\ rest' = <<>> THEN status' ELSE answer
  /\ UNCHANGED <<itemSize, current_size, dest_index, handles, given>>

\* What is in the cells of an item from one cell on.
ItemAt(index) == [c \in 1 .. cells |-> Cell(index + c - 1)]
IsPointer == itemSize <= CellSize

\* fs_datastream_rstream, for cells that are in the stream: a pointer to the cell,
\* or a copy, whose bytes are subtracted when none are left of them.
Rstream(index) ==
  /\ Ready /\ index + cells <= currentIndex
  /\ Answer("success", << ItemAt(index) >>)
  /\ handles' = IF IsPointer
                THEN handles \cup {[at |-> Getaddr(index), item |-> ItemAt(index)]}
                ELSE handles
  /\ UNCHANGED <<itemSize, rest>>
Subtracted == IF IsPointer THEN itemSize ELSE 0

\* A vector that is used again when all has been shifted out, as a queue might do.
RshiftRewind ==
  /\ Rstream(dest_index) /\ current_size' = current_size - Subtracted
  /\ IF dest_index + cells = currentIndex
     THEN currentIndex' = 0 /\ dest_index' = 0
     ELSE dest_index' = dest_index + cells /\ UNCHANGED currentIndex
  /\ UNCHANGED <<shape, numOfBufferAry, bufferArray, maxArraySize, status, pc, datum, reply>>

\* fs_datastream_rshift.
Rshift ==
  /\ Rstream(dest_index) /\ dest_index' = dest_index + cells
  /\ current_size' = current_size - Subtracted /\ UNCHANGED vars

\* A slip in line 103: the size is not added beforehand.
RgetdataAsShift(i) ==
  /\ Rstream(IF IndexIsOfItem THEN i ELSE i * cells)
  /\ current_size' = current_size - Subtracted
  /\ UNCHANGED <<vars, dest_index>>

\* fs_datastream_rgetdata for the item of a number: its index is that of a cell.
Rgetdata(i) ==
  /\ Rstream(IF IndexIsOfItem THEN i ELSE i * cells)
  /\ current_size + itemSize <= MaxCount
  /\ current_size' = current_size + itemSize - Subtracted
  /\ UNCHANGED <<vars, dest_index>>

\* No memory for the handle or for the copy; rgetdata has added the size by then.
RstreamFails ==
  /\ Ready /\ "malloc" \in Faults /\ Answer("memory", <<>>)
  /\ UNCHANGED <<vars, itemSize, dest_index, rest, handles>>
RshiftFails ==
  dest_index + cells <= currentIndex /\ RstreamFails /\ UNCHANGED current_size
RgetdataFails ==
  /\ cells <= currentIndex /\ RstreamFails
  /\ current_size + itemSize <= MaxCount /\ current_size' = current_size + itemSize

\* fs_datastream_free of a pointer: nothing but the client's promise not to use it.
Free(h) ==
  /\ Ready /\ handles' = handles \ {h}
  /\ UNCHANGED <<vars, itemSize, current_size, dest_index, rest, given, answer>>

\* fs_datastream_close, with the pointers into the vector.
StreamClose ==
  /\ Streaming /\ Close /\ itemSize' = 0 /\ current_size' = 0 /\ dest_index' = 0
  /\ rest' = <<>> /\ handles' = {} /\ Answer("success", <<>>)

\* A slip in line 107: whole cells are rounded up too.
RgetsizeMore == IF Streaming THEN currentIndex \div ((itemSize \div CellSize) + 1) ELSE 0

\* fs_datastream_rgetsize: the number of items.
Rgetsize == IF Streaming THEN currentIndex \div cells ELSE 0

StreamCall ==
  \/ \E size \in ItemSizes : StreamOpen(size)
  \/ \E item \in ItemsOf(itemSize) :
       /\ currentIndex + cells <= MaxCells /\ current_size + itemSize <= MaxCount
       /\ Lshift(item)
  \/ Rshift
  \/ \E i \in 0 .. Rgetsize - 1 : Rgetdata(i)
  \/ RshiftFails \/ RgetdataFails \/ StreamClose
  \/ \E h \in handles : Free(h)

BareVector == ~Streaming /\ VectorNext /\ UNCHANGED own

StreamNext == StreamCall \/ LshiftOn \/ LshiftStep \/ BareVector
Spec == StreamInit /\ [][StreamNext]_streamVars
-----------------------------------------------------------------------------
\* The stream and the cells that lshift has still to store fit together.
StreamTypeOK ==
  /\ itemSize \in ItemSizes \cup {0} /\ current_size \in 0 .. MaxCount
  /\ rest \in Seq(Values) /\ (Streaming => Len(rest) < cells)
  /\ dest_index \in 0 .. currentIndex
  /\ \A h \in handles : Streaming /\ h.item \in ItemsOf(itemSize)
  /\ answer \in {"success", "memory"}

\* What a pointer of rstream points to stays the item it was given for until the
\* client frees it or closes the stream: later insertions, also those that grow the
\* table or fail, neither move nor overwrite it (lines 77-78; fs_fragment_vector.h:158-170).
HandlesKeepData ==
  \A h \in handles : bufferArray[h.at.array][h.at.cell] = h.item[1]

\* current_size is never less than the bytes still to be shifted out, whatever was
\* read by index in between and whatever failed; it may be more (lines 58, 79, 92, 103).
CountCoversRest ==
  pc # "wild" /\ Streaming =>
    current_size >= itemSize * (Rgetsize - (dest_index \div cells))

\* rgetdata gives the item of the number that it is called with (lines 101-105).
ItemByNumber ==
  [][\A i \in 0 .. Rgetsize - 1 : Rgetdata(i) => given' = << ItemAt(i * cells) >>]_streamVars

\* The whole items of the stream, how many have been shifted out, and whether one more
\* can still be stored.
AllItems == UNION {ItemsOf(size) : size \in ItemSizes}
StoredItems == IF pc = "wild" THEN <<>> ELSE [i \in 1 .. Rgetsize |-> ItemAt((i - 1) * cells)]
ShiftedOut == IF pc = "wild" \/ ~Streaming THEN 0 ELSE dest_index \div cells
StoresNoMore == Streaming /\ Broken

\* The stream keeps its items in order and whole and gives each as it came, also after
\* a call without memory, though it stores them cell by cell and reads them the same way;
\* and once it could not store one, it stores no other.
Queue == INSTANCE ItemQueue WITH
  Items <- AllItems, MemoryMayFail <- (Faults # {}),
  items <- StoredItems, taken <- ShiftedOut, broken <- StoresNoMore
QueueSpec == Queue!Spec
=============================================================================
