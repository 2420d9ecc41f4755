------------------------------- MODULE FSDisk -------------------------------
(***************************************************************************)
(* fs_disk.h over fs_file.h: the volume as an array of sectors addressed by*)
(* LBA, cut into chunk files, the index files for LBA >= 0 and the meta    *)
(* files for LBA < 0.  Opening the volume and a write that grows it create *)
(* files one after the other, and a write goes file by file: the process   *)
(* may die between any two of these steps.  A file is the sequence of its  *)
(* sectors; a sector is a value.                                           *)
(***************************************************************************)
EXTENDS Integers, Sequences, FiniteSets

CONSTANTS ChunkSectors,  \* SECTORS_PER_CHUNK
          MaxFiles,      \* bound: the files of each kind
          Requests,      \* bound: what callers ask for, records [begin, num]
          Values,        \* bound: what callers write into a sector, besides Zero
          NoFile,        \* the content of a file that does not exist
          Faults         \* what may fail: "malloc", "open" (a file there is),
                         \* "grow" (creating one), "io" (seek, read and write)

ASSUME DiskAssumption ==
  /\ ChunkSectors \in Nat \ {0} /\ MaxFiles \in Nat \ {0}
  /\ Requests \subseteq [begin : Int, num : Nat \ {0}]
  /\ 0 \notin Values
  /\ Faults \subseteq {"malloc", "open", "grow", "io"}

Zero == 0
Data == Values \cup {Zero}
Kinds == {"index", "meta"}
Numbers == 1 .. MaxFiles
NoWrite == [at |-> 0, data |-> <<>>]
NoWrites == [k \in Kinds |-> [i \in Numbers |-> NoWrite]]
NoCall == [kind |-> "index", first |-> 0, data |-> <<>>, done |-> 0]
NoRequest == [op |-> "none", kind |-> "index", first |-> 0, num |-> 0, data |-> <<>>]

VARIABLES file,     \* file[k][i]: the sectors of file i in the directory, or NoFile
          pending,  \* pending[k][i]: the write in the stdio buffer of its FILE
          slot,     \* io.fp[i-1] and io.fmeta[i-1]: "open", "nofile" (an FSFILE
                    \* without a FILE), "null", or "garbage": never written
          fst,      \* FSFILE.status
          num,      \* io.fp_num, io.fmeta_num
          open,     \* fs_disk_open has returned a usable FSDISK
          status,   \* FSDISK.status
          pc,       \* where the call in progress is
          call,     \* a write in progress: [kind, first, data, done]
          todo,     \* the files it has yet to open: a sequence of <<kind, i>>
          reply,    \* what a read has just left in the caller's buffer
          asked     \* what the caller has just asked for: [op, kind, first, num, data]

vars == <<file, pending, slot, fst, num, open, status, pc, call, todo, reply, asked>>
disk == <<file, pending>>
handle == <<slot, fst, num>>

Zeros(n) == [s \in 1 .. n |-> Zero]

\* Sector s of a file with a write over it; what neither of them has reads as zero.
SectorAfter(f, w, s) ==
  IF s \in w.at + 1 .. w.at + Len(w.data) THEN w.data[s - w.at]
  ELSE IF s <= Len(f) THEN f[s] ELSE Zero

\* A file after a write at a sector offset.
Written(f, w) ==
  LET end == w.at + Len(w.data)
  IN  [s \in 1 .. (IF Len(f) > end THEN Len(f) ELSE end) |-> SectorAfter(f, w, s)]

Prefixes(w) == {[w EXCEPT !.data = SubSeq(w.data, 1, n)] : n \in 0 .. Len(w.data)}

\* What the process reads from a file: its stdio buffer counts.
Visible(k, i) == IF file[k][i] = NoFile THEN <<>> ELSE Written(file[k][i], pending[k][i])

\* How many files there are before the first gap (fs_disk_open, lines 106-123).
Counted(k) == Cardinality({i \in Numbers : \A j \in 1 .. i : file[k][j] # NoFile})

KindOf(lba) == IF lba >= 0 THEN "index" ELSE "meta"
Position(lba) == IF lba >= 0 THEN lba ELSE -lba
FileAt(position) == position \div ChunkSectors + 1

\* What a file may hold; there is a number for every file that is asked for.
Contents == UNION {[1 .. n -> Data] : n \in 0 .. ChunkSectors}
ASSUME FileAssumption ==
  /\ NoFile \notin Contents
  /\ \A r \in Requests : FileAt(Position(r.begin) + r.num - 1) <= MaxFiles

\* The request of a call; a step that begins no call has none.
Asks(op, lba, n, data) ==
  asked' = [op |-> op, kind |-> KindOf(lba), first |-> Position(lba), num |-> n, data |-> data]

Return(st) == pc' = "idle" /\ status' = st /\ todo' = <<>> /\ call' = NoCall

\* A NULL or an uninitialised FSFILE is used: the program is beyond its source.
GoWild == pc' = "wild" /\ todo' = <<>> /\ call' = NoCall /\ UNCHANGED status

\* A slip in it: a file that did not fail last gives a success.
ReturnStatusOf(i) ==
  IF i <= num'["index"] /\ slot'["index"][i] \in {"open", "nofile"}
  THEN Return(IF fst'["index"][i] = "drive_rw" THEN "drive_rw" ELSE "success")
  ELSE GoWild

\* DISK_SET_ERROR_BY_FILE: the status comes from index file i, also when it is
\* meta file i that failed.  Read after the assignments to slot, fst and num.
ReturnError(i) ==
  IF i <= num'["index"] /\ slot'["index"][i] \in {"open", "nofile"}
  THEN Return(IF fst'["index"][i] = "drive_rw" THEN "drive_rw" ELSE "memory")
  ELSE GoWild

SetSlot(k, i, sl, st) ==
  /\ slot' = [slot EXCEPT ![k][i] = sl]
  /\ fst' = [fst EXCEPT ![k][i] = st]
SetFile(k, i, f, w) ==
  /\ file' = [file EXCEPT ![k][i] = f]
  /\ pending' = [pending EXCEPT ![k][i] = w]
-----------------------------------------------------------------------------
DiskInit ==
  /\ file = [k \in Kinds |-> [i \in Numbers |-> NoFile]]
  /\ pending = NoWrites
  /\ slot = [k \in Kinds |-> [i \in Numbers |-> "garbage"]]
  /\ fst = [k \in Kinds |-> [i \in Numbers |-> "success"]]
  /\ num = [k \in Kinds |-> 0] /\ open = FALSE
  /\ status = "success" /\ pc = "idle" /\ call = NoCall /\ todo = <<>> /\ reply = <<>>
  /\ asked = NoRequest

AllFiles(k, n) == [i \in 1 .. n |-> <<k, i>>]

\* fs_disk_open: count the files and open them one after the other, the index
\* files first; file 1 of each kind is created where it is missing.
DiskOpen ==
  /\ pc = "idle" /\ ~open
  /\ \/ /\ num' = [k \in Kinds |-> IF Counted(k) = 0 THEN 1 ELSE Counted(k)]
        /\ slot' = [k \in Kinds |-> [i \in Numbers |-> "garbage"]]
        /\ fst' = [k \in Kinds |-> [i \in Numbers |-> "success"]]
        /\ todo' = AllFiles("index", num'["index"]) \o AllFiles("meta", num'["meta"])
        /\ pc' = "create" /\ UNCHANGED <<status, call>>
     \/ "malloc" \in Faults /\ Return("memory") /\ UNCHANGED handle
  /\ reply' = <<>> /\ UNCHANGED <<disk, open>>

\* All files are open: fs_disk_open returns, or the write goes on.
Opened ==
  /\ pc = "create" /\ todo = <<>>
  /\ IF call = NoCall THEN open' = TRUE /\ Return("success")
     ELSE pc' = "transfer" /\ UNCHANGED <<open, status, call, todo>>
  /\ UNCHANGED <<disk, handle, reply>>

\* fs_file_open of the next file, up to the seek in fs_file_update: a file that
\* exists is opened, another is created and a chunk of zeros is written to it.
OpenFile ==
  /\ pc = "create" /\ todo # <<>>
  /\ LET k == todo[1][1]
         i == todo[1][2]
     IN  /\ SetSlot(k, i, "open", "success")
         /\ IF file[k][i] = NoFile
            THEN SetFile(k, i, <<>>, [at |-> 0, data |-> Zeros(ChunkSectors)]) /\ pc' = "rewind" /\ UNCHANGED todo
            ELSE UNCHANGED <<file, pending, pc>> /\ todo' = Tail(todo)
  /\ UNCHANGED <<num, open, status, call, reply>>

\* fs_file_seek_top: the zeros reach the file.
Rewind ==
  /\ pc = "rewind"
  /\ SetFile(todo[1][1], todo[1][2], Visible(todo[1][1], todo[1][2]), NoWrite)
  /\ pc' = "create" /\ todo' = Tail(todo)
  /\ UNCHANGED <<handle, open, status, call, reply>>

\* No FSFILE, no FILE, no memory for the zeros of a new file, or none for the
\* array of the meta files.  An opening that fails leaves what it has opened.
OpenFileFails ==
  /\ pc = "create" /\ todo # <<>> /\ UNCHANGED <<num, open, reply>>
  /\ LET k == todo[1][1]
         i == todo[1][2]
     IN  \/ /\ "malloc" \in Faults
            /\ SetSlot(k, i, "null", "success") /\ ReturnError(i)
            /\ UNCHANGED <<file, pending>>
         \/ /\ (IF file[k][i] = NoFile THEN "grow" ELSE "open") \in Faults
            /\ SetSlot(k, i, "nofile", "drive_rw") /\ ReturnError(i)
            /\ UNCHANGED <<file, pending>>
         \/ /\ "malloc" \in Faults /\ file[k][i] = NoFile
            /\ SetSlot(k, i, "open", "memory") /\ ReturnError(i)
            /\ SetFile(k, i, <<>>, NoWrite)
         \/ /\ "malloc" \in Faults /\ ~open /\ todo[1] = <<"meta", 1>>
            /\ Return("memory") /\ UNCHANGED <<disk, slot, fst>>

\* The write of the zeros or the seek after it fails.
FillFails ==
  /\ pc = "rewind" /\ "grow" \in Faults /\ UNCHANGED <<num, open, reply>>
  /\ LET k == todo[1][1]
         i == todo[1][2]
     IN  /\ \E w \in Prefixes(pending[k][i]) : SetFile(k, i, Written(<<>>, w), NoWrite)
         /\ SetSlot(k, i, "open", "drive_rw") /\ ReturnError(i)
-----------------------------------------------------------------------------
\* Slips in the first loop: it begins with the second of the new files, or goes
\* down from the last.
NewFilesLate(k, n) == [f \in 1 .. (n - num[k] - 1) |-> <<k, num[k] + f + 1>>]
NewFilesDown(k, n) == [f \in 1 .. (n - num[k]) |-> <<k, n + 1 - f>>]

\* The files that a write opens when it needs n of them, in the order it does.
NewFiles(k, n) == [f \in 1 .. (n - num[k]) |-> <<k, num[k] + f>>]

\* fs_disk_write up to its second loop.  The array of files gets its new length
\* before the new files are opened.
DiskWrite(lba, data) ==
  /\ pc = "idle" /\ open
  /\ LET k == KindOf(lba)
         reqfile == FileAt(Position(lba) + Len(data) - 1)
     IN  \/ /\ num' = [num EXCEPT ![k] = IF reqfile > @ THEN reqfile ELSE @]
            /\ slot' = [slot EXCEPT ![k] = [i \in Numbers |-> IF i > num[k] THEN "garbage" ELSE @[i]]]
            /\ todo' = NewFiles(k, num'[k])
            /\ call' = [kind |-> k, first |-> Position(lba), data |-> data, done |-> 0]
            /\ pc' = "create" /\ UNCHANGED status
         \/ /\ "malloc" \in Faults /\ reqfile > num[k]
            /\ Return("memory") /\ UNCHANGED <<num, slot>>
  /\ reply' = <<>> /\ UNCHANGED <<disk, fst, open>>

\* The file the write is at, and its share of the data.
Place == call.first + call.done
Current == FileAt(Place)

\* A slip in line 252: the write is not cut at the end of the file.
ShareUncut ==
  [at |-> (Place % ChunkSectors), data |-> SubSeq(call.data, call.done + 1, Len(call.data))]
Share ==
  LET room == ChunkSectors - (Place % ChunkSectors)
      rest == Len(call.data) - call.done
  IN  [at |-> (Place % ChunkSectors),
       data |-> SubSeq(call.data, call.done + 1, call.done + (IF rest < room THEN rest ELSE room))]

Transferring == pc = "transfer" /\ UNCHANGED <<num, open, reply>>
UsableFile == slot[call.kind][Current] = "open"

\* A slip in line 259: the loop never takes the next file.
TransferSame ==
  /\ Transferring /\ UsableFile
  /\ SetFile(call.kind, Current, Visible(call.kind, Current), Share)
  /\ SetSlot(call.kind, Current, "open", "success")
  /\ IF call.done + Len(Share.data) = Len(call.data) THEN Return("success")
     ELSE UNCHANGED <<call, pc, status, todo>>

\* Seek, which writes out the file's buffer, and fwrite, which fills it again.
Transfer ==
  /\ Transferring /\ UsableFile
  /\ SetFile(call.kind, Current, Visible(call.kind, Current), Share)
  /\ SetSlot(call.kind, Current, "open", "success")
  /\ IF call.done + Len(Share.data) = Len(call.data) THEN Return("success")
     ELSE /\ call' = [call EXCEPT !.done = @ + Len(Share.data)]
          /\ UNCHANGED <<pc, status, todo>>

\* The seek fails, or the write after a part of its data.
TransferFails ==
  /\ Transferring /\ UsableFile /\ "io" \in Faults
  /\ \/ \E w \in Prefixes(pending[call.kind][Current]) :
            SetFile(call.kind, Current, Written(file[call.kind][Current], w), NoWrite)
        /\ UNCHANGED <<slot, fst>>
     \/ /\ \E w \in Prefixes(Share) :
              SetFile(call.kind, Current, Written(Visible(call.kind, Current), w), NoWrite)
        /\ SetSlot(call.kind, Current, "open", "drive_rw")
  /\ ReturnError(Current)

TransferWild ==
  /\ Transferring /\ ~UsableFile
  /\ GoWild /\ UNCHANGED <<disk, slot, fst>>

WriteStep ==
  /\ asked' = NoRequest
  /\ \/ Opened \/ OpenFile \/ Rewind \/ OpenFileFails \/ FillFails
     \/ Transfer \/ TransferFails \/ TransferWild
-----------------------------------------------------------------------------
\* File i has every sector that a read of n sectors from first wants of it.
Long(k, i, first, n) ==
  \A p \in first .. first + n - 1 : FileAt(p) = i => (p % ChunkSectors) < Len(Visible(k, i))

\* A read that gets to file i has sought in the files from its first on: their
\* buffers are written out, that of file i to give f.
SeekTo(k, from, i, f) ==
  /\ file' = [file EXCEPT ![k] = [j \in Numbers |->
               IF j = i THEN f ELSE IF j \in from .. i THEN Visible(k, j) ELSE @[j]]]
  /\ pending' = [pending EXCEPT ![k] = [j \in Numbers |-> IF j \in from .. i THEN NoWrite ELSE @[j]]]

\* A slip in line 186: the files that are read are the index files.
SectorReadIndex(k, p) ==
  LET f == Visible("index", FileAt(p))
      at == (p % ChunkSectors) + 1
  IN  IF at <= Len(f) THEN f[at] ELSE Zero
SectorRead(k, p) == Visible(k, FileAt(p))[(p % ChunkSectors) + 1]

Reading == pc = "idle" /\ open /\ UNCHANGED <<num, open>>

\* The loop goes over the files there are: when the first is past the last, it
\* does not run, and the read succeeds with the buffer as it was.
ReadPastEnd(lba, n) ==
  /\ Reading /\ FileAt(Position(lba)) > num[KindOf(lba)]
  /\ Return("success") /\ reply' = <<>>
  /\ UNCHANGED <<disk, slot, fst>>

\* All files read, or all there are, with more to read.
DiskRead(lba, n) ==
  LET k == KindOf(lba)
      first == Position(lba)
      from == FileAt(first)
      last == FileAt(first + n - 1)
      end == IF last <= num[k] THEN last ELSE num[k]
  IN  /\ Reading /\ from <= num[k]
      /\ \A i \in from .. end : slot[k][i] = "open" /\ Long(k, i, first, n)
      /\ SeekTo(k, from, end, Visible(k, end))
      /\ fst' = [fst EXCEPT ![k] = [i \in Numbers |-> IF i \in from .. end THEN "success" ELSE @[i]]]
      /\ IF last <= num[k]
         THEN /\ reply' = [s \in 1 .. n |-> SectorRead(k, first + s - 1)]
              /\ Return("success")
         ELSE reply' = <<>> /\ Return("param")
      /\ UNCHANGED slot

\* The seek in file i fails, after a part of its buffer, or the read does, also
\* because the file is shorter than a chunk.
DiskReadFails(lba, n) ==
  LET k == KindOf(lba)
      first == Position(lba)
      from == FileAt(first)
  IN  /\ Reading
      /\ \E i \in from .. FileAt(first + n - 1) :
           /\ i <= num[k]
           /\ \A j \in from .. i : slot[k][j] = "open"
           /\ \A j \in from .. i - 1 : Long(k, j, first, n)
           /\ \E failed \in {"seek", "read"} :
                /\ \/ /\ failed = "seek" /\ "io" \in Faults
                      /\ \E w \in Prefixes(pending[k][i]) : SeekTo(k, from, i, Written(file[k][i], w))
                   \/ /\ failed = "read" /\ ("io" \in Faults \/ ~Long(k, i, first, n))
                      /\ SeekTo(k, from, i, Visible(k, i))
                /\ fst' = [fst EXCEPT ![k] = [j \in Numbers |->
                             IF j \in from .. i - 1 THEN "success"
                             ELSE IF j = i /\ failed = "read" THEN "drive_rw" ELSE @[j]]]
           /\ UNCHANGED slot
           /\ ReturnError(i)
      /\ reply' = <<>>

\* A file of the range has no FSFILE or no FILE.
DiskReadWild(lba, n) ==
  LET k == KindOf(lba)
      first == Position(lba)
  IN  /\ Reading
      /\ \E i \in FileAt(first) .. FileAt(first + n - 1) :
           /\ i <= num[k] /\ slot[k][i] # "open"
           /\ \A j \in FileAt(first) .. i - 1 : slot[k][j] = "open" /\ Long(k, j, first, n)
      /\ GoWild /\ reply' = <<>> /\ UNCHANGED <<disk, slot, fst>>
-----------------------------------------------------------------------------
\* The files without their stdio buffers, of each of which cut sectors have
\* reached the file.
WriteOut(cut) ==
  /\ file' = [k \in Kinds |-> [i \in Numbers |->
                IF file[k][i] = NoFile THEN NoFile
                ELSE Written(file[k][i], [pending[k][i] EXCEPT !.data = SubSeq(@, 1, cut[k][i])])]]
  /\ pending' = NoWrites
Buffered == [k \in Kinds |-> [i \in Numbers |-> Len(pending[k][i].data)]]
Cuts == {cut \in [Kinds -> [Numbers -> 0 .. ChunkSectors]] :
           \A k \in Kinds, i \in Numbers : cut[k][i] <= Buffered[k][i]}

\* fs_disk_close: fclose writes the buffers out, and nobody looks at its result.
DiskClose ==
  /\ pc = "idle" /\ open /\ reply' = <<>> /\ UNCHANGED handle
  /\ IF \E k \in Kinds : \E i \in 1 .. num[k] : slot[k][i] \in {"null", "garbage"}
     THEN GoWild /\ UNCHANGED <<disk, open>>
     ELSE /\ open' = FALSE /\ UNCHANGED <<status, pc, call, todo>>
          /\ \E cut \in IF "io" \in Faults THEN Cuts ELSE {Buffered} : WriteOut(cut)

\* The process dies, of an undefined access or from outside.
DiskCrash ==
  /\ \E cut \in Cuts : WriteOut(cut)
  /\ open' = FALSE /\ reply' = <<>> /\ Return("success")
  /\ UNCHANGED handle

DiskCall ==
  \/ (DiskOpen \/ DiskClose) /\ asked' = NoRequest
  \/ \E r \in Requests :
       \/ \E v \in Data : LET data == [s \in 1 .. r.num |-> v]
                         IN  DiskWrite(r.begin, data) /\ Asks("write", r.begin, r.num, data)
       \/ /\ \/ ReadPastEnd(r.begin, r.num) \/ DiskRead(r.begin, r.num)
             \/ DiskReadFails(r.begin, r.num) \/ DiskReadWild(r.begin, r.num)
          /\ Asks("read", r.begin, r.num, <<>>)

DiskNext == DiskCall \/ WriteStep \/ (DiskCrash /\ asked' = NoRequest)
DiskSpec == DiskInit /\ [][DiskNext]_vars
DiskFairSpec == DiskSpec /\ WF_vars(WriteStep)
-----------------------------------------------------------------------------
DiskTypeOK ==
  /\ file \in [Kinds -> [Numbers -> Contents \cup {NoFile}]]
  /\ \A k \in Kinds, i \in Numbers :
       pending[k][i].data \in Contents /\ pending[k][i].at + Len(pending[k][i].data) <= ChunkSectors
  /\ slot \in [Kinds -> [Numbers -> {"open", "nofile", "null", "garbage"}]]
  /\ fst \in [Kinds -> [Numbers -> {"success", "memory", "drive_rw"}]]
  /\ num \in [Kinds -> 0 .. MaxFiles] /\ open \in BOOLEAN
  /\ status \in {"success", "param", "memory", "drive_rw"}
  /\ pc \in {"idle", "create", "rewind", "transfer", "wild"}
  /\ asked.op \in {"none", "read", "write"}
LastPosition == MaxFiles * ChunkSectors - 1

\* The sector at a position of a kind, where a write may lie over the files.
SectorAt(k, p, over) ==
  LET f == file[k][FileAt(p)]
  IN  IF f = NoFile THEN Zero ELSE SectorAfter(f, over[k][FileAt(p)], (p % ChunkSectors) + 1)

\* fs_disk.h:16, "these behave like LBA on disk", as BlockDevice states it: a read
\* that succeeds gives what was written to the sectors that were asked for (nothing
\* when they begin past the last file), only the range of a write changes, new files
\* read as zero, a call that fails reports it, and a crash undoes at most the latest
\* write to each file.
Device == INSTANCE BlockDevice WITH
  sectors <- [k \in Kinds |-> [p \in 0 .. LastPosition |-> SectorAt(k, p, pending)]],
  stable <- [k \in Kinds |-> [p \in 0 .. LastPosition |-> SectorAt(k, p, NoWrites)]],
  size <- [k \in Kinds |-> ChunkSectors * Counted(k)],
  busy <- [kind |-> call.kind, first |-> call.first, data |-> call.data],
  success <- status = "success" /\ pc # "wild"
DeviceSpec == Device!Spec

\* Without a failure no call uses a slot of the file arrays that holds no file, also not
\* after a crash in the middle of creating files (lines 176-182, 195-199), but for one
\* case: a meta file that the crash cut short cannot be read, and the status of that
\* comes from an index file that there need not be (line 26).
NeverWild ==
  pc = "wild" =>
    \E i \in num["index"] + 1 .. num["meta"] :
      file["meta"][i] # NoFile /\ Len(Visible("meta", i)) < ChunkSectors

\* The files of a kind are numbered without gaps, so that fs_disk_open counts
\* them all, also after a crash in the middle of a growth (lines 106-123).
NoGaps == \A k \in Kinds, i \in Numbers : file[k][i] # NoFile => i <= Counted(k)

\* A call that was made comes to an end, whatever number of files it needs.
CallsEnd == (pc \in {"create", "rewind", "transfer"}) ~> (pc = "idle")
=============================================================================
