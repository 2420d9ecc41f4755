# Verification of the blockchain mini filesystem

TLA+ models of the storage layers of SORA blockchain-mini-filesystem (`src/*.h`, all code is in
headers; `src/main.c` is the test program), the TLC runs that check them on small instances, and
TLAPS proofs of the properties that matter most, for all values of the constants.

`PROJECT.json` lists the components, runs, mutants, hazards, theorems, and which source lines each
definition translates.

## 1. The system

The program is one thread. Everything below is called synchronously; what makes it hard is not
concurrency but *partial effects*: a call writes in several places, each of which may fail, stdio
keeps writes back until a later seek, and the process may die in between.

| Component | State | Operations | Uses |
|---|---|---|---|
| File `fs_file.h` | an `FSFILE`: a stdio `FILE*` with its buffer, the last status | open (creates a chunk full of zeros), read, write, seek, close | stdio |
| Disk `fs_disk.h` | the arrays `fp` (index files, LBA >= 0) and `fmeta` (meta files, LBA < 0), their lengths, the last status | open, close, read, write (which adds the files it needs) | file |
| Sector bitmap `fs_bitmap.h` | one bit per sector, in the meta files; the last status | write and erase (mark and clear a range, with or without data), read, search for free sectors, queries | disk |
| Cluster layer `fs_cluster.h` | none of its own (an offset in the BPB) | the bitmap's operations in units of 8 sectors from `bpb_offset` on | bitmap |
| Fragment vector `fs_fragment_vector.h` | a pointer table, a first array and later arrays of cells, the number of data | open, insert1, insert2, getdata, pop, clear, close | malloc |
| Data stream `fs_datastream.h` | a fragment vector, a size, a read position | lshift (append), rshift, rgetdata, rgetsize, free, close | vector |
| B-tree `fs_btree.h` | nodes, whose leaves hold places in two data streams, keys and data; the last status | open, insert, getdata, remove, clear, close | stream |
| SHA-256 `fs_sha256.h` | a block buffer, the chaining value, the length, the hash and its string | open, init, update, final, gethashstr, close | byte order of `fs_endian.h` |
| Boot record `fs_bcr.h`, parameter block `fs_bpb.h` | layouts on disk | open, close | bitmap |
| Memory guard `fs_memory.h` | guard bytes round each allocation | malloc, free | - |

How they meet: the cluster layer calls the bitmap; the bitmap writes data through the disk to the
index files and its own bits to the meta files (bit `s` of the bitmap is at meta sector
`-(s / bits per sector)`, so meta sector 0 and the sectors 0-4095 it would keep are never used); the disk splits
each transfer over chunk files and opens or creates files when a transfer runs past them. Errors go up
as a boolean and a status; the status of a failing file is looked up in the *index* file of the same
number, also when a meta file failed (`fs_disk.h:26`).

Hard behaviours, and what must hold of each component:

* **Masks of a range** (`fs_bitmap.h:72-86, 144-157`): the front byte, the inner bytes and the back byte are
  treated apart. *Exactly the bits of the range change.*
* **Two writes per call** (`:88-91`): data, then bits. *A success means both, a failure harms no other sector.*
* **Buffered writes** (`fs_file.h`): a crash may undo the latest write of each file, and only it. *Bits that
  were settled stay; sectors settled on the device stay.*
* **The search** (`:124-142`): no bound of its own, and what it finds is not reserved. *First fit; no extent is
  given out twice; it ends while a free candidate is ahead.*
* **Opening and growth** (`fs_disk.h:96-174, 207-262`): file by file, with the count raised first, and any of them may fail. *No slot without a file is used;
  the files have no gaps, also after a crash; the volume is one array of sectors; a failure on either kind of file is reported.*
* **The vector** (`fs_fragment_vector.h`): addresses by shift and mask, growth by arrays. *A datum stays in a
  cell of its own, whatever is added.*
* **The stream** (`fs_datastream.h`): items are stored and read cell by cell, with the count raised first; one-cell items are given
  out as pointers into a vector that goes on growing. *Items stay whole and in order, and the pointers good.*
* **The hash** (`fs_sha256.h:181-221`): pieces that end anywhere, a buffer that is never cleared. *What is compressed is the padded
  message, however it was cut.*
* **The tree** (`fs_btree.h`): a removed key's datum stays in the streams and its place in the nodes above, the
  begin of a node's first entry goes stale, and insert and remove descend by these begins alone, while a search
  looks at all leaves of its last node. Every read of a stream allocates, so nearly every line may fail, and a
  failed insert takes nothing back. *A key is found, refused and removed exactly when it is there, with its own datum; nodes
  stay within their arrays and half full.*

Sections 2 to 6 are about what is modelled now, section 7 about the rest.

## 2. Modules

```
BitmapMask                masks of a range, as sets of bit positions        (pure)
   └─ FSBitmap            the bitmap's calls, split at their I/O   ── implements ─▶ SectorMap
         └─ FSCluster     the cluster layer and its client
FSDisk                    disk and files, file by file             ── implements ─▶ BlockDevice
BitSearch                 highest and lowest bit of a word         (pure)
   └─ FragVector          the vector, allocation by allocation     ── implements ─▶ DataStack
         └─ DataStream    the stream over it, cell by cell         ── implements ─▶ ItemQueue
BTreeNode                 locate, split, merge in one node         (pure)
   └─ BTree               the tree over two streams, call by call  ── implements ─▶ Dictionary
                                                                   ── uses two ───▶ ItemQueue
Sha256                    the hash, call by call                   ── implements ─▶ Hasher
MC*                       values of the constants for TLC
*_proofs                  theorems
NatFacts                  division and least elements, for the proofs
```

An abstract specification (right-hand column) says what a component promises, without buffers, bytes, files or
arrays; the component's module instantiates it with a refinement mapping, and the run checks it as a property
(`MapSpec`, `DeviceSpec`, `StackSpec`, `QueueSpec`, `DictionarySpec`, `HasherSpec`). `StreamsSpec` closes the
gap between the tree and the stream: what the tree's two streams do is what ItemQueue, which the stream implements, allows.

**BitmapMask** has the arithmetic of `fs_diskwith_bitmap_func` and its two masks with C's truncating division:
`FrontByte`, `FrontBits`, `InnerBytes`, `BackByte`, `BackBits` are the locals `r z b q a` of the code, `Mask` the bits they select, `Window`
the sectors whose bits are in the buffer.

**FSBitmap**. `marks` are the bits as the process reads them, `stored` those in the files; they differ by what is in
stdio buffers. `fmeta_num` meta files are counted and the first `files` of them exist; a creation that stopped half way leaves the last one short, without the bits of `absent`. Calls start in `DiskwithBitmapWrite`, `DiskwithBitmapErase` and `GetmaskFreesector`, and go on
in `Mask*` (the read-modify-write, one action per way it can end) and `Search*` (one per turn of the loop). A write past the last meta file raises the count, then creates the files one by one and then writes: `MaskGrow` when all goes well, `MaskGrowFails` without
memory for the array, `MaskGrowPartly` when a file cannot be created or filled and `MaskGrowWriteFails` when the transfer stops on its way. A file that is counted and was never opened is used
unseen, which leads to `pc = "wild"`. `Crash` may come anywhere, in a growth too: of each meta file's buffer only a prefix has been written. The disk below is its contract as
FSDisk models it: a read that begins past the last file succeeds and leaves the buffer as it was, a read that runs over the end
fails, a write past the end adds files. Memory that was never written may hold anything `Garbage` allows. **SectorMap** is a set of sectors and the update in progress: one that succeeds has changed
exactly its range, one that fails only sectors of it, and a crash undoes only what was not settled.

**FSCluster** adds the client that the two layers are made for (`main.c` tests 3, 4 and 7): it finds clusters, writes them,
rewrites, gives back the first `k` clusters of an extent, reads, closes and crashes. `live` are the extents it was told it has, `fresh` those of them that a crash may still take,
`doubtful` those on which a call failed. A seek on a meta file writes out what was buffered for it, so a call that succeeds settles the extents whose bits are in the meta files it has worked on (`Settled`); closing settles
all. After a crash the client goes on with `live \ fresh`: that their bits have survived is for `LiveMarked` to say and not put into the model.

**FSDisk** has every file as a sequence of sectors with its pending write (`pending`), the slots of the file arrays with what is
really in them (`"garbage"` when they were never written), and each opening and each transfer as one action per file, with its failures: no FSFILE, no FILE, no memory, a part of the zeros or of the data. An access through a slot without an
`FSFILE` leads to `pc = "wild"`, from which only `DiskCrash` leads on. `asked` is the request that a step begins with; **BlockDevice** sees it, so that a read that succeeds must give the very sectors that were asked for, all
of them, or nothing when they begin past the last file (`:195`, where the code reports success too), and a write that begins is the one asked for.

**FragVector** has the arrays as sequences of cells, `Null` for one that could not be allocated. An insertion is
one action per array it adds (`Realloc`, `ReallocFails`, `TableFails`) and `Store`. `StoreWild` is a store to an address that is in no array.
Shifts and masks are written as division and remainder, which they are because open rounds the
lengths to powers of two: `ShiftIsLength` checks it, with the bit searches of **BitSearch** as `fs_endian.h` computes them (spread the bits to one side, add the fields in pairs).

**DataStream** extends FragVector: each action of the stream is an action of the vector, or none, together with what the stream keeps, so that an
`lshift` of two cells is interrupted by every allocation of either. `rest` are the cells still to be stored, `handles` the pointers given out, each with the item it was given for. A vector that
is not a stream's runs through the same actions as before (`BareVector`). The client stacks items of one size and reads only what is there. `IndexIsOfItem` says what index it
passes to `rgetdata`: that of a cell, or, as the tree does, the number of the item. **ItemQueue** is a queue that can also be read anywhere; after a failure to store an item it stores no other,
which is what keeps the tree's two streams in step.

**Sha256** has a byte as a pair of its message and its position, so a byte of an earlier message, of the padding and of unwritten memory are all different; the compression function is not
interpreted: the chaining value is the sequence of the blocks that went into it. `Updated` is `fs_sha256_update` as a function, which `Final` uses twice. `Open` leaves all but the hash as the memory had it, with
the state of the object closed before as the instance. The bytes of a hash are any of `Digests`. **Hasher** is the padding of FIPS 180-4, written with no reference to buffers.

**BTreeNode** has a node's `node_ptr` and `begin_ptr` as one sequence of entries `[ptr, begin]`, since the code always moves
them together. `Locate` is the bisection of `fs_btree_getlocate`, given the comparisons of the begins with the key; `Split` and `Merge` are the loops of
`fs_btree_insert1` and `fs_btree_merge`.

**BTree** has the tree as a value: a leaf with its `vch_index`, or a node with its entries. Each call is one step, as nothing else runs in between, and each way it
can run out of memory is another: `InsertNoLeaf` (also with the datum stored and the key not: `streamBroken` is set then, and FragVector shows that
the next insert into that stream goes wild), `InsertNoHandle`, `InsertNoNode` (0 to 2 nodes can be allocated, so entries get lost on the way up), `GetdataNoHandle`, `RemoveNoHandle`, and
`FollowNone` for the places where the code uses an index or pointer that says there is none. The streams are sequences of items, as ItemQueue has them, for items of one cluster; `StreamsSpec` checks that the tree uses them so. The
descent (`LocatedLeaf`) and the search (`Search`) are apart, as in the code. The recursion of `fs_btree_insert1` and `fs_btree_remove1` is a function over `Tree`, the trees of a bounded height: what a node makes of what
comes back from below is `Rise` in an insert and `Sink` in a remove. A node has two entries or more, so no tree is higher than it has leaves, and `MaxItems` bounds the leaves a client allocates. Keys are numbers in the order of `strcmp`. The default `fkeylt` is true when `a >= b`, although the comment at
`fs_btree.h:82` says `a<=b`: the tree is in descending order, which no property minds. `asked` has the operation, the key and whether memory failed in the call. **Dictionary** is a map that sees it: with memory, an insert is refused, a get answered and a key removed exactly as the
map has the key that was named. Without, an insert may lose keys, its own or others, but none
ever gets another's datum or comes back, and a get or remove may fail.

## 3. Runs

Each run has a cfg of its own name. All finish within four minutes with two workers.

| Run | Question | Bounds | States |
|---|---|---|---|
| MCBitmap | is the bitmap the map of sectors it promises to be, is success recorded, is the search first fit, does it end | bytes of 2 bits, sectors of 2 bytes, files of 3 sectors, 2 meta files; memory, creation and both kinds of I/O fail | 422,884 |
| MCCluster | can a cluster be given out twice or lose its bits, with crashes | one meta file, clusters of 2 sectors, 2 extents of 1 or 2 clusters | 1,070,227 |
| MCClusterSteady | without crashes, while the bitmap grows into a second file and memory fails: the same, and does any bit leak | files of 4 sectors, 2 meta files, 2 extents of 1 or 3 clusters | 604,105 |
| MCDisk | are files one array of sectors, are there no gaps and no wild accesses, does every call end | files of 2 sectors, 3 of each kind, requests over a file's end with a growth by two, and to a second meta file | 158,329 |
| MCDiskFaults | the same promise with memory, opening, creation and I/O failing, both kinds of sectors | files of 1 sector, 2 of each kind | 104,586 |
| MCStream | is the vector a stack, is the stream a queue of whole items, do its pointers stay good, with memory failing | cells of 4 bytes, a table of 2 growing by 2, up to 7 data; items of one and of two cells, up to 4 cells of them | 165,585 |
| MCSha256 | is what is compressed the padded message, and is the buffer never overrun | blocks of 64 bytes, pieces of 0, 8, 55, 64 and 128 bytes up to 128, two messages, closes and opens | 14,252 |
| MCBTree | is the tree a map, are its nodes balanced and in order, does the descent find every key, does it ask of its streams only what they promise | 9 keys, dimensions 3, 4 and 5, 8 keys loaded up, down or in between and one more insert with any removes; memory fails behind loads of at most 5 | 61,445 |

Why the bounds are enough for what the runs ask:

* *Bitmap.* Two bits a byte and two bytes a sector already have every case of the masks: a range inside one byte,
  ending at its end, over two, with inner bytes, and at the first or last byte of a buffer. Ranges are
  chosen in the reserved area, with the buffer in the first file and over its end, and, off byte boundaries, past that file, so that growth with each of its failures, success and both
  failures of the read occur. Two meta files have one to be created and to fail; growth behind files that are missing is past the bound (`WithinBound`). The search goes over sector and file ends; past all files every position is alike, so `NextPosition` only steps back and
  forth there. Short ranges are in MCEraseHalf.
* *Cluster.* Two extents are what it takes for one to harm another; sizes 1 and 2 give partial erases, holes that are too small, and reuse. In MCClusterSteady the sizes
  are 1 and 3, because with 1 and 2 the bitmap never grows: the search goes on finding the last meta sector of the first file, which cannot be recorded (see below). The first
  cluster begins inside a byte of the bitmap's sector grid, as the offsets of the tests do.
* *Disk.* Two sectors a file have a first, an inner edge and a last; three files have a growth by two, so a crash between two creations; one sector a file keeps
  the faulty run small while it still crosses files.
* *Vector.* First arrays of no cells (as the data stream asks), of more cells and of fewer than later ones with sizes that are rounded, and of less than one cell;
  seven data need three to eight
  arrays and the table begins with two places, so it grows in each case.
* *Stream.* Two items of two cells are what it takes to tear one, to misread one and to keep one behind another; four items of one cell outlive two growths of the table while pointers to the first are held.
  Items of 3 bytes leave a cell partly used, items of 8 fill two. `MaxCount` only ends the drift of `current_size`.
* *Hash.* The pieces add up to 55 and 56 bytes in a block, the two sides of the boundary for the padding, to 63, to whole blocks through the buffer and past it, and to none. A second message finds the buffer of the first, in every state
  it can be left in, also after a hash that went on behind its padding.
* *Tree.* Eight leaves of dimension 3 or 4 are three levels, so splits, merges and shares happen above nodes of leaves too, and the root grows and shrinks twice; dimensions 3, 4 and 5
  have both halves, odd and even. From the loads every set of keys can be removed in every order, and one key inserted at any moment of it; failures make shapes that no success does
  and are left to the smaller loads. `VIEW` takes states for one that differ only in the status, the reply and `overlap_index`, which no step reads; the
  refinement is checked on every step all the same.

Deadlock is checked in all passing runs.

Four more runs show disagreements between code and what the repository says of it; each checks one property, and TLC finds it violated:

| Run | Property | What happens |
|---|---|---|
| MCEraseHalf | `EraseKeepsRest` | an erase of a range that ends inside its first byte clears the rest of that byte too (`fs_bitmap.h:153`) |
| MCDiskGap | `DeviceSpec` | after a file could not be created, those created behind it are lost at the next open; a write there reports success for sectors the disk does not count (`fs_disk.h:228`) |
| MCStreamIndex | `ItemByNumber` | the index of `rgetdata` is one of a cell: asked for item number 1, it gives half of item 0 and half of item 1 when items have two cells (`fs_datastream.h:102`) |
| MCHashString | `HashstrIsHex` | a byte below 16 is written as one digit and a NUL, so the string of the hash ends there (`fs_sha256.h:35`) |

The passing runs stay clear of these: of the first by ranges that reach the end of their first byte; of the second because with creation failing a growth adds the last file only, so that none can come
behind a gap; of the third because `MCStream` passes the index of a cell and the tree's items have one cell; of the fourth because Hasher does not speak of the string.

Three more disagreements were met in the bitmap and have no run of their own:

* A write that begins in the reserved sectors and ends past them succeeds and records nothing (`fs_bitmap.h:57` tests the first sector only). Callers of the passing runs do not
  write across that border; `SuccessIsRecorded` assumes it (`CarefulCallers`).
* A range whose bits are in the last meta sector of the last file cannot be recorded before another file is there: two sectors are always read, and the second is not (`:59`). In the passing runs
  this is one of the ways a call fails.
* When the index files fail and then a meta file does, the search takes its failure for the end of the bitmap and returns sectors it has not looked at (`:136`, through `fs_disk.h:26`). In the passing runs
  and theorems FoundIsFirst excepts this by name (`indexRw`: without the exception TLC finds it); the cluster runs and theorems have index files that do not fail (`IndexHolds`).

One more was met in the disk: a meta file that a crash cut short cannot be read, and when there are fewer index files than meta files, the status of that failure is read from a slot of the index
array that was never allocated (`fs_disk.h:26`). `NeverWild` excepts exactly this case, and names it.

## 4. Fairness

`BitmapFairSpec` and `DiskFairSpec` assume weak fairness of the *steps of a call in progress* and of nothing else. The program is one thread that
waits for nobody: a call that has been made runs until it returns, or the process dies. No fairness is assumed of callers, of crashes or of the absence of failures. `CallsEnd`
says that calls of the disk come to an end, or the process does; `SearchEnds` that a search ends while some candidate from its position on is free and within the files.
Without such a candidate no end can be promised: past the last meta file the answer to each query is whatever an unwritten
stack buffer holds.

## 5. Proofs

All theorems are about the specifications the runs check, for every value of the constants that meets their named assumptions.
In each module one inductive invariant carries the theorems; TLC checked it on the runs' instances before it was proved.

* **FSBitmap_proofs**.
  `MaskExact`: the bits that are masked are those of the range, if the range reaches the end of its front byte (`ReachesByteEnd`);
  `WholeBytesReachByteEnd`: ranges of whole bytes do, wherever they begin; `BackByteInBuffer`: no byte outside the buffer is touched. By Euclidean division, byte by byte.
  `BitmapTypeOK` is inductive as it stands, with what `Masked`, `Flushed` and each way of growing do as lemmas. `NoReservedBitIsSet`, and
  `SuccessIsRecorded`, which assumes `CarefulCallers`: every range reaches the end of its front byte, and lies in the reserved sectors or past them but not across their end; without
  the second of these the conclusion is false (section 3).
  `SearchIsFirstFit` (`FoundIsFirst`): with the invariant that the search has moved by whole steps and has left no free candidate behind, but for the one it could not read when it goes to its fallback, and with the fact that nothing
  else changes bits meanwhile. It needs no assumption on what fails: the fallback is part of what is proved, as the exception that the property names.
  `BitmapImplementsMap`: the bitmap implements SectorMap, if every range a caller passes reaches the end of its front byte (`ExactCallers`; MCEraseHalf shows why). One lemma
  for the mask steps, the rest settle bits or leave them.
* **FSCluster_proofs** - `ClusterTypes`, `ExtentsNeverOverlap`, `LiveStayMarked`. The inductive invariant `ClusterInv` ties the job of
  the client to the call of the bitmap in progress: whatever range is being marked or searched is on a cluster boundary
  and is that of the job; when a search has succeeded, what it found is free *and stays free until it is marked*; nothing else runs in between; what is
  written for the first time or given back shares no sector with a live extent. Disjointness alone is not inductive: it needs that live extents are marked (or the search
  could find them), and that in turn needs the alignment, which makes every mask exact. `NothingLeaks` (`Accounted`) is about `SteadySpec`, without crashes: a crash loses the client's knowledge of what it held, and
  that is a leak. Its invariant `AccountInv` adds what an erase has done to the bits and that a rewrite is of a live extent. `IndexHolds` (the index files do not fail) is assumed of all: otherwise the search can
  return sectors it has not looked at, and that are not on a cluster boundary either (section 3). Crashes are met by three parts of the invariant: the bits of an extent that is not fresh are in the files, also of the
  extent in work once its call has succeeded (`SettledStored`, `DoneSettled`), and what an update in progress has done is exactly its range (`UpdateDone`); so what a crash leaves of the buffers cannot take them.
* **FSDisk_proofs** - four theorems in three layers.
  `DiskInv` (with every failure): the types, that an open slot has its file, and that the call in progress fits the arrays; it gives `DiskTypesHold`.
  `GrowInv` adds that the files of a kind are created in turn, each slot up to the count being open when its file is used. From it `FilesHaveNoGaps`, by least counterexample: a first missing file would have one before it, and
  the invariant says that of two neighbours the second is never there alone. And `NothingGoesWild`.
  `DeviceInv` adds that the sectors a write has got to so far show its data and that the reply and the request fit; `FilesAreADevice` is the refinement: a read gives, sector by sector, what the device has where it was asked for; a file that is created or filled with zeros changes no sector the device has, a transfer
  changes only the file it is at and only within the range of its call, a crash undoes only what is pending.
  What is assumed is where the code fails otherwise: no failing opening, creation or memory (`Faults \subseteq {"io"}`) for the gaps and the device (MCDiskGap has the counterexample for creation), no failure at all for `NeverWild` (a failing
  transfer may ask for the status of a file that is not there, `fs_disk.h:26`). `FileAssumption` says that the bound on files covers the requests.
* **FragVector_proofs** - `AddressesDiffer`: two indices never share a cell, whatever the lengths of the arrays. `VectorInvariant`
  proves the inductive invariant `VectorInv`: the bytes the vector counts are the cells of its arrays plus less than one cell, and every datum is
  in an array that exists. From it `VectorTypes`, `TableIsLargeEnough`, `AddressesStayInArrays`, `InsertionsStayInArrays`, and `VectorImplementsStack`, the refinement of DataStack,
  all without any assumption on memory. `ShiftsAreLengths` (`ShiftIsLength`): a word spread down is all the bits up to its highest (`SpreadDown`), field by field they are counted (`SharesPaired`), so
  the highest bit is found (`HighestBit`); a size is thus rounded to a power of two, and as many cells as fill a power of two are a power of two as well. It assumes that sizes and what they are rounded up to are within an `index_t`
  (`WidthAssumption`), without which the code's own shifts overflow.
* **DataStream_proofs** - `StreamIsVectorClient`: the stream's specification implies the vector's, since each of its steps is a step of the vector or none; all the theorems above are thereby true of the vector under a stream
  (`StreamAddressesInArrays`, `StreamShiftsAreLengths`). Its own invariant `StreamInv` says where the cells of the item in hand are (in the vector, in the insertion, in `rest`), that as long as no array is missing they
  make whole items, and that an array that is missing is the one to be written next. From it `StreamTypes`, `PointersStayGood`, `CountStaysCovering` and `StreamImplementsQueue`, the refinement of ItemQueue; this and `NumberedItems` assume
  `WholeIndices`: a client that passes the number of an item for the index of a cell has items of one cell only. MCStreamIndex shows what happens otherwise; the tree meets the condition.
* **Sha256_proofs** - `HashTypes` and `HashIsOfPaddedMessage`, the refinement of Hasher, for blocks and pieces of any size. The invariant is that the blocks are whole and as many as the counter says (`WellFormed`); the compressed
  blocks followed by the filled part of the buffer (`Content`) are what Hasher has absorbed. An update appends its piece to the content, in each of its three ways through the buffer; a final appends the padding, which ends
  a block, so that the content is exactly the compressed blocks. The argument goes byte by byte, with the quotient and remainder of each position.
* **BTree_proofs**, first of one node: `SplitKeepsEntries` and `MergeKeepsEntries`: for every dimension, wherever the new entry goes, what the loops over the arrays leave in the two nodes
  is all the entries in order, each node at least half full and none over full. The argument goes entry by entry: each half is a window of the whole sequence (`Between`, `CutLeft`, `CutRight`), and two
  windows that meet make the whole (`PartsMeet`). `LocateFindsLast`: the bisection of a node of any size ends (`Turns`) and finds the last entry whose begin is not behind the key, whatever the first begin says.
  Its loop invariant is that this entry is from `left` to `right`; it is lost only when `center` is 0 and the first begin is behind the key, and then the test
  behind the loop gives the right answer.

  Then of the tree, for every dimension from 3 on, every set of keys, all loads and any number of items, with memory failing at any call: `BTreeTypesHold`, `TreeStaysBalanced`, `LeavesInOrder`, `DescentsAreExact`, `BisectionsAreExact`,
  and two refinements, `TreeUsesQueues` (of ItemQueue, once for each stream) and `TreeIsADictionary` (of Dictionary). None of the properties is inductive: the leaves are in order, but an insert goes by the begins,
  which name keys that may have been removed, and the first begin of a node may name one that the node could not hold. The inductive invariant `TreeInv` therefore speaks of the keys that a tree *may* hold. A node is
  `Sound` for a set of keys when its begins but the first descend and each child fits its `Share` of the set: the keys up to its own begin (the first child has no such bound) and behind the next one's. `Fits` has,
  height by height, the trees with nodes half full to full that are sound for a set; `RootAt` lets the root have two entries; `StreamsFit` keeps the streams in step. The steps:
  - in one node, entries may be exchanged for others between the same bounds (`SoundExchange`, `Swap`) and a sound node may be cut or joined (`SoundPart`, `SoundJoin`, `SoundHalves`). So `RiseKeeps` and
    `SinkKeeps`: whatever comes back from below, the node is sound for the same keys, or two sound nodes are that share them; a node short of an entry says so;
  - at any height, `InsertKeeps`, `RemoveKeeps`, `LocateKeeps` (the descent) and `LooksKeeps` (the search), each by a least height at which it fails: a child is one lower;
  - at the root, `ReturnsGrow` and `SunkShrinks`. An insert splits at most one node a level, and a root is less high than there are keys in the stream, so `Enough` nodes always are: that the successful insert loses nothing is proved and not assumed;
  - the map: what an insert or remove makes of the places of the leaves (`MapGrows`, `MapShrinks`), which with the order of the leaves is what Dictionary asks of the key that the call names; a search that looks for a key finds its leaf or there is none. Without memory for a node the places that go are any, but what stays has its own datum.
* **NatFacts** - the lemmas on quotients that the others need (`UniqueDivision`, `NatDivision`, `QuotientOrder`) and powers of two within a word (`PowersMultiply`, `DivisorOfPower`), and `LeastOf`: a nonempty set of naturals has a least element. It stands in for induction where a proof needs it.

Assumptions on constants (`MaskAssumption` and the like) are stated with the modules that declare the constants, and TLC evaluates them in every run.

Only model-checked: liveness (`SearchEnds`, `CallsEnd`), which is outside the prover's reach. Every safety property of a passing run is stated by a theorem, some of them under the assumptions named above. Of the device with failing memory MCDiskFaults says what can be said.

## 6. What the models leave out

* The contents of sectors in FSBitmap and of clusters in FSCluster (FSDisk has them), the byte layout of structures, alignment.
* Of the tree: `fs_btree_setfunc` (the default order is modelled), items of more than one cluster (DataStream has them, and MCStreamIndex shows that the tree would misread them), `allocnode_count`, and
  the heap - what is leaked (handles, the leaf of a failed insert, a root that is a leaf at close) or freed twice. `fs_btree_clear` as a call of its own is left out: it frees the nodes and leaves `root`
  pointing at them, so no call may follow, not even close, which clears again.
* Of the hash: the compression function. It is a fixed computation without state of its own, which the test vectors of `fs_sha256.h:225-259` settle; no property here depends on what it computes.
* Endian conversions no modelled call needs (the reads, the little-endian writes, hosts in big endian); most have no caller.
* The guard bytes of `fs_memory.h`: they only make assertions about what callers wrote, whose bounds the callers' models state themselves. That `fs_malloc` fails is modelled everywhere.
* The fill value and the wording of error messages; the logging.
* `fs_fragvector_open` and `fs_datastream_open` without memory: there is no object then. (`fs_disk_open` without memory is modelled, as a failure that opens nothing.)
* A file that `fs_file_isfile` cannot open though it is there: it is taken to tell the truth.
* In FSBitmap, what FSDisk has in detail: that the opening or closing of the files fails; a growth that begins when an earlier one has left files missing; and of the index file whose status stands for that of a meta file
  (`fs_disk.h:26`) only whether it says `drive_rw`, so it is taken to exist. It does when sectors with bits in that meta file were written, for their data are in index files of at least that number; an erase of sectors that far out that never were
  written could make a meta file without it. FSCluster does not follow a client into closing a bitmap that has lost a file.
* `fs_fragvector_iterator` ignores its argument and returns the cell *behind* the last (`fs_fragment_vector.h:200-202`); nothing calls it. Pops of an empty vector and reads of an empty stream, which have no check
  of their own (`fs_fragment_vector.h:212`), are not made by the clients.
* The width of integers: sector numbers are signed 64-bit and no instance comes near the limit; the sizes of a vector are 32-bit and overflow at 524,288 cells of a cluster (`fs_fragment_vector.h:190`), beyond which nothing here says anything.
* `fs_bcr.h` is included by no program and does not compile against `fs_bitmap.h`: line 105 passes three of four arguments. Its test of the signature (lines 127-131) is the wrong way round as well.
* `fs_bpb.h`: a layout, and an open and a close that only allocate and free and that nothing calls (line 85 would pass the address of the caller's pointer). Its one field with a use, `bpb_offset`, is a constant of FSCluster.

## 7. Plan

1. FSBitmap over FSDisk itself, in place of its contract, as far as TLC reaches.
