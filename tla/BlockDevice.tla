----------------------------- MODULE BlockDevice ----------------------------
(***************************************************************************)
(* What the disk layer promises: "these behave like LBA on disk"           *)
(* (fs_disk.h:16).  Two arrays of sectors, zero until written, without     *)
(* files, handles and buffers.  A write may take effect bit by bit, and a  *)
(* crash may undo, sector by sector, the latest write in each chunk.       *)
(***************************************************************************)
EXTENDS Integers, Sequences

CONSTANTS Kinds,         \* the index sectors and the meta sectors
          LastPosition,  \* positions are 0 .. LastPosition
          Data,          \* what a sector may hold
          ChunkSectors   \* how many sectors are settled together

VARIABLES sectors,  \* sectors[k][p]: what a read of the sector gives
          stable,   \* what it may fall back to in a crash
          size,     \* size[k]: the sectors that have been provided so far
          busy,     \* the write in progress, [kind, first, data], or Idle
          asked,    \* what is asked for in this step, [op, kind, first, num, data]
          success,  \* the last call that returned has reported success
          reply     \* the sectors the last call has read, <<>> if none

dvars == <<sectors, stable, size, busy, asked, success, reply>>

Positions == 0 .. LastPosition
Idle == [kind |-> "index", first |-> 0, data |-> <<>>]
RangeOf(w) == w.first .. w.first + Len(w.data) - 1
NoRequest == [op |-> "none", kind |-> "index", first |-> 0, num |-> 0, data |-> <<>>]
InRange(k, p) == k = busy.kind /\ p \in RangeOf(busy)
Chunk(p) == p \div ChunkSectors

\* Sectors reach the files in any order and at any time.
Settling(k, p) == stable'[k][p] \in {stable[k][p], sectors[k][p], sectors'[k][p]}
SizeGrows == \A k \in Kinds : size'[k] >= size[k]

Init ==
  /\ sectors = [k \in Kinds |-> [p \in Positions |-> 0]] /\ stable = sectors
  /\ size = [k \in Kinds |-> 0] /\ busy = Idle /\ asked = NoRequest
  /\ success = TRUE /\ reply = <<>>

\* A call that writes nothing: opening, closing, a read, the start of a write.
Quiet ==
  /\ UNCHANGED sectors /\ SizeGrows
  /\ \A k \in Kinds, p \in Positions : Settling(k, p)

\* Opening and closing, which may provide sectors.
Prepare ==
  /\ asked' = NoRequest /\ busy = Idle /\ UNCHANGED busy /\ reply' \in {reply, <<>>} /\ Quiet

\* The write that begins is the one that was asked for.
StartWrite ==
  /\ asked'.op = "write" /\ busy = Idle /\ reply' = <<>> /\ UNCHANGED success
  /\ busy' = [kind |-> asked'.kind, first |-> asked'.first, data |-> asked'.data]
  /\ Quiet

\* A read that reports success gives what the sectors asked for hold, all of
\* them, or nothing when there is not even the first.
Read ==
  /\ asked'.op = "read" /\ busy = Idle /\ UNCHANGED busy /\ Quiet
  /\ \/ /\ success'
        /\ reply' = [s \in 1 .. asked'.num |-> sectors[asked'.kind][asked'.first + s - 1]]
     \/ success' /\ asked'.first >= size[asked'.kind] /\ reply' = <<>>
     \/ ~success' /\ reply' = <<>>

\* A step of a write: sectors of its range, and no others, get the new data; it
\* settles what was written before in the chunks it touches; it reports success
\* only when the whole range has been written and is within the size.
WriteStep ==
  /\ busy # Idle /\ busy' \in {busy, Idle} /\ SizeGrows /\ asked' = NoRequest /\ UNCHANGED reply
  /\ \A k \in Kinds, p \in Positions :
       /\ Settling(k, p)
       /\ sectors'[k][p] # sectors[k][p] =>
            InRange(k, p) /\ sectors'[k][p] = busy.data[p - busy.first + 1]
       /\ stable'[k][p] # sectors'[k][p] =>
            \/ InRange(k, p)
            \/ \A q \in Positions : Chunk(q) = Chunk(p) => sectors'[k][q] = sectors[k][q]
  /\ busy' = Idle /\ success' =>
       \A p \in RangeOf(busy) :
         p < size'[busy.kind] /\ sectors'[busy.kind][p] = busy.data[p - busy.first + 1]

\* A call that fails may leave part of its range written, and may have lost
\* what was not settled.
Fail ==
  /\ ~success' /\ busy' = Idle
  /\ \A k \in Kinds, p \in Positions :
       /\ \/ sectors'[k][p] \in {sectors[k][p], stable[k][p]}
          \/ InRange(k, p) /\ sectors'[k][p] = busy.data[p - busy.first + 1]
       /\ Settling(k, p)
  /\ SizeGrows
  /\ reply' = <<>> \/ (asked' = NoRequest /\ UNCHANGED reply)

Crash ==
  /\ asked' = NoRequest /\ reply' = <<>> /\ busy' = Idle
  /\ \A k \in Kinds, p \in Positions : sectors'[k][p] \in {sectors[k][p], stable[k][p]}
  /\ stable' = sectors' /\ SizeGrows

Next == Prepare \/ StartWrite \/ Read \/ WriteStep \/ Fail \/ Crash
Spec == Init /\ [][Next]_dvars
=============================================================================
