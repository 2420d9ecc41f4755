------------------------------ MODULE FSBitmap ------------------------------
(***************************************************************************)
(* fs_bitmap.h: the used-sector bitmap in the meta files (fsimeta%04d.dat) *)
(* and the calls that keep it.  A call that does I/O in two places (write  *)
(* the sectors, then their bits) or that loops (the search for free        *)
(* sectors) is split at those places; the process may die between the      *)
(* steps.  The disk below is its contract as FSDisk has it: a read that    *)
(* starts past the last file succeeds and leaves the buffer as it was, a   *)
(* read that runs over the end fails, a write first counts and then creates*)
(* the files it needs, one by one, a file that is counted and not there is *)
(* used unseen, and the last write to a file stays in its stdio buffer     *)
(* until the next seek.                                                    *)
(***************************************************************************)
EXTENDS BitmapMask

CONSTANTS ChunkSectors,  \* SECTORS_PER_CHUNK: the sectors of one file
          MaxMetaFiles,  \* bound: the meta files the volume may grow to
          Garbage(_),    \* bound: what an unwritten buffer over a window may hold
          Ranges,        \* bound: the ranges callers pass, records [begin, num]
          Searches,      \* bound: the searches callers make, records [num, offset]
          Faults         \* what may fail: "malloc" of a buffer or an array, "grow"
                         \* (creating a meta file), "meta" I/O, "index" I/O

ASSUME BitmapAssumption ==
  /\ ChunkSectors \in Nat \ {0} /\ MaxMetaFiles \in Nat \ {0}
  /\ Ranges \subseteq [begin : Nat, num : Nat \ {0}]
  /\ Searches \subseteq [num : Nat \ {0}, offset : Nat]
  /\ Faults \subseteq {"malloc", "grow", "meta", "index"}

VARIABLES fmeta_num,  \* io.fmeta_num: the meta files that are counted
          files,      \* how many of them exist, the first ones
          absent,     \* the sectors whose bits are past the end of their file, for
                      \* a creation that stopped half way has left it short
          marks,      \* the sectors whose bits are set, as the process reads them
          stored,     \* the same in the files: behind marks by the stdio buffers
          indexRw,    \* the FSFILE status of the index file with the number of
                      \* the meta file in use is FS_FILE_ERROR_DRIVE_RW_FAILURE
          status,     \* FSBITMAP.status
          pc,         \* where the call in progress is
          req,        \* its arguments
          ite,        \* the search position of getmask_freesector
          begin,      \* *begin, the out-parameter of getmask_freesector
          used        \* *used, the out-parameter of the queries

metafiles == <<fmeta_num, files, absent>>
vars == <<metafiles, marks, stored, indexRw, status, pc, req, ite, begin, used>>

Statuses == {"success", "memory", "drive_rw", "out_of_range"}
RegionBits == ChunkSectors * SectorBits

\* The sectors whose bits are in a meta file that is counted, the first of
\* those whose file is not there, and those whose bits can be read.
Capacity == fmeta_num * RegionBits
FirstMissing == files * RegionBits
Readable == Range0(0, FirstMissing) \ absent

\* A slip in line 57: 0 < begin.
ReservedButZero == Range0(1, SectorBits - 1)
Reserved == Range0(0, SectorBits)

FileOf(sector) == sector \div RegionBits

\* A slip: the transfers go on without a seek, and the buffers are kept.
FlushedNever(sectors) == stored

\* Every seek on a file first writes out its stdio buffer.
Flushed(sectors) ==
  LET sought == {FileOf(s) : s \in sectors}
  IN  {s \in marks : FileOf(s) \in sought} \cup {s \in stored : FileOf(s) \notin sought}

\* A read of the bit of a sector fails, or uses a file that is not there.
ReadFails(s) == s \in absent \/ (s < FirstMissing /\ "meta" \in Faults)
ReadIsWild(s) == FirstMissing <= s /\ s < Capacity

NoCall == [op |-> "none", begin |-> 0, num |-> 1]

\* The call returns, and its locals are gone.
Return(st) == pc' = "idle" /\ status' = st /\ req' = NoCall /\ ite' = 0

\* A NULL or an unwritten FSFILE is used: the program is beyond its source.
GoWild == pc' = "wild" /\ req' = NoCall /\ ite' = 0 /\ UNCHANGED status
-----------------------------------------------------------------------------
BitmapInit ==
  /\ fmeta_num = 1 /\ files = 1 /\ absent = {} /\ marks = {} /\ stored = {} /\ indexRw = FALSE
  /\ status = "success" /\ pc = "idle" /\ ite = 0 /\ begin = 0 /\ used = FALSE
  /\ req = NoCall

\* fs_diskwith_bitmap_write up to the return of fs_disk_write.
DiskwithBitmapWrite(b, n) ==
  /\ pc = "idle"
  /\ \/ /\ pc' = "mask" /\ indexRw' \in {indexRw, FALSE}
        /\ req' = [op |-> "set", begin |-> b, num |-> n]
        /\ UNCHANGED <<status, ite>>
     \/ /\ "index" \in Faults
        /\ Return("drive_rw") /\ indexRw' \in {indexRw, TRUE}
  /\ UNCHANGED <<metafiles, marks, stored, begin, used>>

\* fs_diskwith_bitmap_erase: no I/O before the bits.
DiskwithBitmapErase(b, n) ==
  /\ pc = "idle" /\ pc' = "mask"
  /\ req' = [op |-> "clear", begin |-> b, num |-> n]
  /\ UNCHANGED <<metafiles, marks, stored, indexRw, status, ite, begin, used>>

Masking == pc = "mask" /\ UNCHANGED <<indexRw, begin, used>>
MaskWindow == Window(req.begin, req.num)
Masked(bits) == IF req.op = "set" THEN bits \cup MaskedSectors(req.begin, req.num)
                                  ELSE bits \ MaskedSectors(req.begin, req.num)

\* fs_diskwith_bitmap_func, line 57: a range that begins in the reserved
\* sectors writes no bit, and the call succeeds.
MaskReserved ==
  /\ Masking /\ req.begin \in Reserved
  /\ Return("success")
  /\ UNCHANGED <<metafiles, marks, stored>>

MaskNoMemory ==
  /\ Masking /\ req.begin \notin Reserved /\ "malloc" \in Faults
  /\ Return("memory")
  /\ UNCHANGED <<metafiles, marks, stored>>

\* The read of the buffer fails: in a file, for I/O failed there or it is too
\* short, or behind the last one.  The files it sought in are flushed.
MaskReadError ==
  \/ \E t \in MaskWindow : LET before == {s \in MaskWindow : s < t}
                           IN  /\ before \subseteq Readable /\ ReadFails(t)
                               /\ stored' \in {Flushed(before), Flushed(before \cup {t})}
  \/ /\ {s \in MaskWindow : s < Capacity} \subseteq Readable
     /\ ~(MaskWindow \subseteq Range0(0, Capacity)) /\ stored' = Flushed(MaskWindow)

\* A slip in line 63: the failure is not reported.
MaskReadIgnored ==
  /\ Masking /\ req.begin \notin Reserved /\ req.begin < Capacity
  /\ MaskReadError /\ Return("success")
  /\ UNCHANGED <<metafiles, marks>>

MaskReadFails ==
  /\ Masking /\ req.begin \notin Reserved /\ req.begin < Capacity
  /\ MaskReadError /\ Return("drive_rw")
  /\ UNCHANGED <<metafiles, marks>>

\* It comes to a file that was counted and not created.
MaskReadWild ==
  /\ Masking /\ req.begin \notin Reserved
  /\ \E t \in MaskWindow : LET before == {s \in MaskWindow : s < t}
                           IN  before \subseteq Readable /\ ReadIsWild(t) /\ stored' = Flushed(before)
  /\ GoWild /\ UNCHANGED <<metafiles, marks>>

\* Read, mask, write back.
MaskUpdate ==
  /\ Masking /\ req.begin \notin Reserved
  /\ MaskWindow \subseteq Readable
  /\ marks' = Masked(marks)
  /\ Return("success")
  /\ stored' = Flushed(MaskWindow)
  /\ UNCHANGED metafiles

\* The write back fails after the bytes below cut.
MaskWriteFails ==
  /\ Masking /\ req.begin \notin Reserved
  /\ MaskWindow \subseteq Readable
  /\ "meta" \in Faults
  /\ \E cut \in MaskWindow :
       /\ (cut % ByteBits) = 0
       /\ marks' = {s \in Masked(marks) : s < cut} \cup {s \in marks : s >= cut}
  /\ Return("drive_rw")
  /\ stored' = Flushed(MaskWindow)
  /\ UNCHANGED metafiles

\* A slip in it: the last meta sector is not counted.
FilesNeededShort(b, n) == (MetaSector(b) + RwSectors(n) - 1) \div ChunkSectors

\* reqfile: the meta files there must be for the buffer to be written.
FilesNeeded(b, n) == (MetaSector(b) + RwSectors(n) - 1) \div ChunkSectors + 1

\* The range begins past the last meta file: the read transfers nothing, so the
\* buffer holds what malloc returned, and the write adds the files it needs.
\* Growing behind files that are missing is beyond the bound.
Growing == Masking /\ req.begin >= Capacity
Needed == FilesNeeded(req.begin, req.num)
WithinBound == Needed <= MaxMetaFiles /\ files = fmeta_num

\* The bits of meta file i past its first c sectors.
Rest(i, c) == i * RegionBits + c * SectorBits .. (i + 1) * RegionBits - 1

MaskGrow ==
  /\ Growing /\ WithinBound
  /\ fmeta_num' = Needed /\ files' = Needed
  /\ \E garbage \in Garbage(MaskWindow) : marks' = marks \cup Masked(garbage \cap MaskWindow)
  /\ Return("success")
  /\ UNCHANGED <<absent, stored>>

\* No memory for the larger array of files, before anything else was done; past
\* the bound it is taken to fail so.
MaskGrowFails ==
  /\ Growing /\ ("malloc" \in Faults \/ ~WithinBound)
  /\ Return("drive_rw")
  /\ UNCHANGED <<metafiles, marks, stored>>

\* The creation of a file fails, when all are counted: it is not there (no FSFILE
\* or no FILE), or it is and has got only some of its zeros.
MaskGrowPartly ==
  /\ Growing /\ WithinBound /\ "grow" \in Faults
  /\ fmeta_num' = Needed
  /\ \E i \in files .. Needed - 1 :
       \/ files' = i /\ UNCHANGED absent
       \/ files' = i + 1 /\ \E c \in 0 .. ChunkSectors : absent' = absent \cup Rest(i, c)
  /\ Return("drive_rw")
  /\ UNCHANGED <<marks, stored>>

\* All files are created, and the write of the buffer fails after the bytes below cut.
MaskGrowWriteFails ==
  /\ Growing /\ WithinBound /\ "meta" \in Faults
  /\ fmeta_num' = Needed /\ files' = Needed
  /\ \E garbage \in Garbage(MaskWindow), cut \in MaskWindow :
       /\ (cut % ByteBits) = 0
       /\ marks' = marks \cup {s \in Masked(garbage \cap MaskWindow) : s < cut}
  /\ Return("drive_rw")
  /\ UNCHANGED <<absent, stored>>

MaskStep == \/ MaskReserved \/ MaskNoMemory \/ MaskReadFails \/ MaskReadWild
            \/ MaskUpdate \/ MaskWriteFails
            \/ MaskGrow \/ MaskGrowFails \/ MaskGrowPartly \/ MaskGrowWriteFails
-----------------------------------------------------------------------------
\* fs_bitmap_getmask_freesector up to its loop.
GetmaskFreesector(n, offset) ==
  /\ pc = "idle" /\ pc' = "search"
  /\ req' = [op |-> "find", begin |-> offset, num |-> n]
  /\ begin' = SectorBits
  /\ ite' = IF offset < SectorBits THEN SectorBits ELSE offset
  /\ UNCHANGED <<metafiles, marks, stored, indexRw, status, used>>

Searching == pc = "search" /\ UNCHANGED <<metafiles, marks, indexRw, used>>

\* A slip in line 108: only the first sector is looked at.
CandidateFirst == Range0(ite, 1)
Candidate == Range0(ite, req.num)

\* A query reads the bits one after the other while they are as bit says, here up
\* to t.  A sector past the last meta file is used or not as the uninitialised
\* buffer of getmask has it.
GetsTo(sectors, bit, t) ==
  /\ t \in sectors
  /\ \A s \in sectors : s < t => s >= Capacity \/ (s \in Readable /\ (s \in marks <=> bit))

\* It is answered at t, or not before the end; or the read of t fails.
AnsweredAt(sectors, bit, t) ==
  /\ GetsTo(sectors, bit, t)
  /\ t >= Capacity \/ (t \in Readable /\ (t \in marks <=> ~bit))
  /\ stored' = Flushed({s \in sectors : s <= t})
Unanswered(sectors, bit) ==
  /\ \A s \in sectors : s >= Capacity \/ (s \in Readable /\ (s \in marks <=> bit))
  /\ stored' = Flushed(sectors)
FailsAt(sectors, bit, t) ==
  /\ GetsTo(sectors, bit, t) /\ ReadFails(t)
  /\ stored' \in {Flushed({s \in sectors : s < t}), Flushed({s \in sectors : s <= t})}
WildAt(sectors, bit, t) ==
  /\ GetsTo(sectors, bit, t) /\ ReadIsWild(t)
  /\ stored' = Flushed({s \in sectors : s < t})

\* A slip in line 127: ite moves on twice.
NextPositionTwice ==
  IF ite <= MaxMetaFiles * RegionBits THEN ite + 2 * req.num ELSE ite - req.num

\* Positions past every file are alike, so the search is followed only so far:
\* from there it steps back and forth instead.
NextPosition ==
  IF ite <= MaxMetaFiles * RegionBits + req.begin + req.num
  THEN ite + req.num ELSE ite - req.num

\* The candidate has a used sector.
SearchAdvance ==
  /\ Searching /\ \E t \in Candidate : AnsweredAt(Candidate, FALSE, t)
  /\ ite' = NextPosition
  /\ UNCHANGED <<status, pc, req, begin>>

SearchFound ==
  /\ Searching /\ Unanswered(Candidate, FALSE)
  /\ begin' = ite
  /\ Return("success")

\* A meta file fails.  fs_disk takes the status from the index file of the same
\* number: unless that file failed last too, the failure passes for memory.
SearchReadFails ==
  /\ Searching /\ \E t \in Candidate : FailsAt(Candidate, FALSE, t)
  /\ IF indexRw THEN pc' = "fallback" /\ ite' = ite + req.num /\ UNCHANGED <<status, req>>
                ELSE Return("memory")
  /\ UNCHANGED begin

SearchWild ==
  /\ Searching /\ \E t \in Candidate : WildAt(Candidate, FALSE, t)
  /\ GoWild /\ UNCHANGED begin

\* Lines 136-141: one empty sector is written at the next candidate, which is
\* returned without a look at its bits.
SearchFallback ==
  /\ pc = "fallback"
  /\ \/ begin' = ite /\ Return("success") /\ indexRw' \in {indexRw, FALSE}
     \/ "index" \in Faults /\ Return("drive_rw") /\ UNCHANGED <<begin, indexRw>>
  /\ UNCHANGED <<metafiles, marks, stored, used>>

SearchStep == \/ SearchAdvance \/ SearchFound \/ SearchReadFails \/ SearchWild
              \/ SearchFallback
-----------------------------------------------------------------------------
\* The loop of the two queries below.
Getmask(sectors, bit) ==
  \/ /\ status' = "success" /\ UNCHANGED <<pc, req, ite>>
     /\ \/ used' = ~bit /\ \E t \in sectors : AnsweredAt(sectors, bit, t)
        \/ used' = bit /\ Unanswered(sectors, bit)
  \/ /\ status' = "drive_rw" /\ UNCHANGED <<pc, req, ite>>
     /\ \E t \in sectors : /\ FailsAt(sectors, bit, t)
                           /\ used' = IF \E s \in sectors : s < t THEN bit ELSE used
  \/ /\ GoWild /\ UNCHANGED used
     /\ \E t \in sectors : WildAt(sectors, bit, t)

OutOfRange == used' = TRUE /\ status' = "out_of_range" /\ UNCHANGED <<stored, pc, req, ite>>

\* fs_bitmap_getmask_someusedrange and, with n = 1, fs_bitmap_getmask.
GetmaskSomeused(b, n) ==
  /\ pc = "idle" /\ UNCHANGED <<metafiles, marks, indexRw, begin>>
  /\ IF b \in Reserved THEN OutOfRange ELSE Getmask(Range0(b, n), FALSE)

\* fs_bitmap_getmask_allusedrange.
GetmaskAllused(b, n) ==
  /\ pc = "idle" /\ UNCHANGED <<metafiles, marks, indexRw, begin>>
  /\ IF b \in Reserved THEN OutOfRange ELSE Getmask(Range0(b, n), TRUE)

\* fs_diskwith_bitmap_read: no bit is looked at, sectors without one are read too.
DiskwithBitmapRead ==
  /\ pc = "idle" /\ UNCHANGED <<metafiles, marks, stored, pc, req, ite, begin, used>>
  /\ \/ status' = "success" /\ indexRw' \in {indexRw, FALSE}
     \/ "index" \in Faults /\ status' = "drive_rw" /\ indexRw' \in {indexRw, TRUE}
-----------------------------------------------------------------------------
\* fs_disk_close and fs_bitmap_close, then both opened again: the files that are
\* there are counted.  One slot without a FILE can be closed.
CloseAndOpen ==
  /\ pc = "idle" /\ fmeta_num <= files + 1
  /\ fmeta_num' = files /\ stored' = marks
  /\ status' = "success" /\ indexRw' = FALSE
  /\ UNCHANGED <<files, absent, marks, pc, req, ite, begin, used>>

\* A slot without an FSFILE, or one never written, is closed.
CloseWild ==
  /\ pc = "idle" /\ files < fmeta_num /\ GoWild
  /\ UNCHANGED <<metafiles, marks, stored, indexRw, begin, used>>

\* The process dies in or between calls and starts again: of each file's stdio
\* buffer only the bytes before some point have reached the file, and of the files
\* that a growth was creating the last may be short.
Crash ==
  /\ \E cut \in [0 .. files - 1 -> 0 .. ChunkSectors * SectorBytes] :
       LET kept(s) == (s % RegionBits) < cut[FileOf(s)] * ByteBits
       IN  marks' = {s \in marks : kept(s)} \cup {s \in stored : ~kept(s)}
  /\ stored' = marks'
  /\ \/ UNCHANGED <<files, absent>>
     \/ /\ pc = "mask" /\ req.begin >= Capacity /\ WithinBound
        /\ files' \in files + 1 .. Needed
        /\ \E c \in 0 .. ChunkSectors : absent' = absent \cup Rest(files' - 1, c)
  /\ fmeta_num' = files'
  /\ Return("success") /\ indexRw' = FALSE /\ begin' = 0 /\ used' = FALSE

BitmapStep == MaskStep \/ SearchStep
\* What a caller that uses the bitmap directly may call.
BitmapCall ==
  \/ \E r \in Ranges : \/ DiskwithBitmapWrite(r.begin, r.num)
                       \/ DiskwithBitmapErase(r.begin, r.num)
                       \/ GetmaskSomeused(r.begin, r.num)
                       \/ GetmaskAllused(r.begin, r.num)
  \/ \E q \in Searches : GetmaskFreesector(q.num, q.offset)
  \/ DiskwithBitmapRead
  \/ CloseAndOpen \/ CloseWild

BitmapNext == BitmapCall \/ BitmapStep \/ Crash
BitmapSpec == BitmapInit /\ [][BitmapNext]_vars

\* A call, once made, runs: the program is one thread and waits for nothing.
BitmapFairSpec == BitmapSpec /\ WF_vars(BitmapStep)
-----------------------------------------------------------------------------
TypeOK ==
  /\ fmeta_num \in 1 .. MaxMetaFiles /\ files \in 1 .. fmeta_num
  /\ absent \in SUBSET Range0(0, FirstMissing)
  /\ marks \in SUBSET Readable /\ stored \in SUBSET Readable
  /\ indexRw \in BOOLEAN /\ used \in BOOLEAN
  /\ status \in Statuses
  /\ pc \in {"idle", "mask", "search", "fallback", "wild"}
  /\ req \in [op : {"none", "set", "clear", "find"}, begin : Nat, num : Nat \ {0}]
  /\ pc = "mask" => req.op \in {"set", "clear"}
  /\ ite \in Nat /\ begin \in Nat

\* The reserved sectors 0 .. SectorBits - 1 have no bit: no call writes one, for
\* meta sector 0 cannot be addressed (fs_bitmap.h:27, 57).
ReservedHasNoBits == marks \cap Reserved = {}

\* The promise of fs_bitmap.h as SectorMap states it: an update that reports success
\* has changed exactly the sectors that were asked for, one that fails no others, also
\* when it fails half way through the creation of meta files, and a crash can undo
\* only the latest in each meta file.
Map == INSTANCE SectorMap WITH
         used <- marks,
         size <- FirstMissing,
         unsettled <- (marks \ stored) \cup (stored \ marks),
         update <- IF pc = "mask" THEN req ELSE NoCall,
         ok <- status = "success" /\ pc # "wild",
         RegionSize <- RegionBits,
         First <- SectorBits,
         Updates <- {[op |-> op, begin |-> r.begin, num |-> r.num] :
                        op \in {"set", "clear"}, r \in Ranges}
MapSpec == Map!Spec

\* A write that reports success has recorded every sector it wrote outside the
\* reserved area, whatever path it took (fs_bitmap.h:88-91).
WriteRecorded ==
  [][ pc = "mask" /\ req.op = "set" /\ pc' = "idle" /\ status' = "success" /\ ~Crash
      => Range0(req.begin, req.num) \ Reserved \subseteq marks' ]_vars

\* The candidates of a search begin at the offset, in steps of num; one is free when
\* all of it has room in the files and no mark.
SearchStart == IF req.begin < SectorBits THEN SectorBits ELSE req.begin
FreeBefore(limit) ==
  {p \in SearchStart .. limit - 1 :
     /\ ((p - SearchStart) % req.num) = 0
     /\ Range0(p, req.num) \subseteq Range0(0, Capacity) \ marks}

\* The search is first fit: when it succeeds, no candidate before the one it returns
\* was free, and no sector of that one is used (lines 126-135).  The one exception
\* is the fallback of lines 136-141, which needs a failure of the index file and then
\* one of a meta file: it has skipped a candidate that it could not read, and has not
\* looked at the one it returns.
Found == pc \in {"search", "fallback"} /\ pc' = "idle" /\ status' = "success" /\ ~Crash
NoneSkipped ==
  /\ \A p \in FreeBefore(begin') : indexRw /\ p >= begin' - req.num
  /\ indexRw \/ Range0(begin', req.num) \cap marks = {}
FoundIsFirst == [][Found => NoneSkipped]_vars

\* The search ends when some candidate from here on is free and in the files,
\* however many used ones come first: it does not go round or past it.  (It may end
\* before, in a failure or at a file that was counted and not created.)
FreeCandidateAhead ==
  \E k \in 0 .. Capacity :
    Range0(ite + k * req.num, req.num) \subseteq Range0(0, Capacity) \ marks
SearchEnds == (pc = "search" /\ FreeCandidateAhead) ~> (pc \in {"idle", "wild"})
-----------------------------------------------------------------------------
\* What a test of the repository says, and the code does not do.

\* main.c:194-196: after the first half of a used range is erased, the second
\* half is all used.
EraseKeepsRest ==
  [][ pc = "mask" /\ req.op = "clear" /\ ~Crash
      => marks \ Range0(req.begin, req.num) \subseteq marks' ]_vars
=============================================================================
