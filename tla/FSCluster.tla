----------------------------- MODULE FSCluster ------------------------------
(***************************************************************************)
(* fs_cluster.h over fs_bitmap.h, and the client the two are made for: it  *)
(* asks for free clusters, writes them, writes them again and gives them   *)
(* back, whole or in part (main.c:353-381).  Finding clusters and marking  *)
(* them are two calls: nothing reserves what the first one returns.        *)
(***************************************************************************)
EXTENDS FSBitmap, FiniteSets

CONSTANTS SectorsPerCluster,  \* SECTORS_PER_CLUSTER
          bpb_offset,         \* BPB.bpb_offset: the first sector of cluster 0
          Sizes,              \* bound: the numbers of clusters a client asks for
          MaxExtents          \* bound: the extents the client holds or may hold at once

\* A cluster is a whole number of bytes of the bitmap (fs_const.h: 8 sectors, 8
\* bits), and clusters begin past the reserved sectors (main.c:361-362).
ASSUME ClusterAssumption ==
  /\ \E bytes \in 1 .. SectorsPerCluster : SectorsPerCluster = bytes * ByteBits
  /\ SectorsPerCluster \in Nat \ {0} /\ bpb_offset \in Nat /\ bpb_offset >= SectorBits
  /\ Sizes \subseteq Nat \ {0} /\ MaxExtents \in Nat

VARIABLES live,      \* the extents the client holds: it was told they are written
          fresh,     \* those of them whose bits a crash may still lose: no later call
                     \* that succeeded has worked on the same meta files
          doubtful,  \* those a call failed on: their bits may be set or not
          job        \* what the client is doing, and on which extent

held == <<live, fresh, doubtful>>
cvars == <<held, job>>
allvars == <<vars, cvars>>

Extent(first, num) == [first |-> first, num |-> num]
Getsector(clus) == bpb_offset + clus * SectorsPerCluster

\* A slip: the offset and the sector swapped.
GetclusterSwapped(sector) == CDiv(bpb_offset - sector, SectorsPerCluster)
Getcluster(sector) == CDiv(sector - bpb_offset, SectorsPerCluster)
Sectors(e) == Range0(Getsector(e.first), e.num * SectorsPerCluster)

NoJob == [op |-> "none", extent |-> Extent(0, 1)]
Job(op, e) == [op |-> op, extent |-> e]

FilesOf(sectors) == {FileOf(s) : s \in sectors}

\* What a call on an extent settles when it succeeds: it has sought in the meta files
\* of its buffer, and so written out what was buffered for them.
Settled(e) ==
  {f \in fresh :
     FilesOf(Sectors(f)) \subseteq FilesOf(Window(Getsector(e.first), e.num * SectorsPerCluster))}

ClusterInit == BitmapInit /\ live = {} /\ fresh = {} /\ doubtful = {} /\ job = NoJob
-----------------------------------------------------------------------------
Start(op, e) == job = NoJob /\ job' = Job(op, e)
Finish(op) == job.op = op /\ pc = "idle" /\ job' = NoJob /\ UNCHANGED vars

\* A slip in line 53: num sectors are looked for, not num clusters.
GetFreeSectors(n) ==
  /\ Start("find", Extent(0, n))
  /\ GetmaskFreesector(n, bpb_offset)
  /\ UNCHANGED held

\* fs_cluster_getfreecluster, up to the search of the bitmap.
GetFreeCluster(n) ==
  /\ Start("find", Extent(0, n))
  /\ GetmaskFreesector(n * SectorsPerCluster, bpb_offset)
  /\ UNCHANGED held

\* It returned a cluster: fs_cluster_diskwrite there.
WriteFound ==
  /\ job.op = "find" /\ pc = "idle" /\ status = "success"
  /\ LET e == Extent(Getcluster(begin), job.extent.num)
     IN  /\ job' = Job("write", e)
         /\ DiskwithBitmapWrite(Getsector(e.first), e.num * SectorsPerCluster)
  /\ UNCHANGED held

NothingFound ==
  /\ Finish("find") /\ status # "success"
  /\ UNCHANGED held

\* A slip: the result of the write is not looked at.
WrittenUnchecked ==
  /\ Finish("write")
  /\ live' = live \cup {job.extent} /\ UNCHANGED doubtful
  /\ fresh' = (fresh \ Settled(job.extent)) \cup {job.extent}

Written ==
  /\ Finish("write")
  /\ IF status = "success"
     THEN /\ live' = live \cup {job.extent} /\ UNCHANGED doubtful
          /\ fresh' = (fresh \ Settled(job.extent)) \cup {job.extent}
     ELSE doubtful' = doubtful \cup {job.extent} /\ UNCHANGED <<live, fresh>>

\* fs_cluster_diskwrite on clusters the client already has.
Rewrite(e) ==
  /\ Start("rewrite", e)
  /\ DiskwithBitmapWrite(Getsector(e.first), e.num * SectorsPerCluster)
  /\ UNCHANGED held

Rewritten ==
  /\ Finish("rewrite")
  /\ fresh' = IF status = "success" THEN fresh \ Settled(job.extent) ELSE fresh
  /\ UNCHANGED <<live, doubtful>>

\* The sectors of an erase in line 44, and a slip in them: sectors for clusters.
ErasedSectorsUnscaled(k) == k
ErasedSectors(k) == k * SectorsPerCluster

\* fs_cluster_erasebitmap of the first k clusters of an extent; the client has
\* given them up once it makes the call.
EraseBitmap(e, k) ==
  /\ Start("erase", Extent(e.first, k))
  /\ DiskwithBitmapErase(Getsector(e.first), ErasedSectors(k))
  /\ LET rest == IF k < e.num THEN {Extent(e.first + k, e.num - k)} ELSE {}
     IN  /\ live' = (live \ {e}) \cup rest
         /\ fresh' = (fresh \ {e}) \cup IF e \in fresh THEN rest ELSE {}
  /\ UNCHANGED doubtful

Erased ==
  /\ Finish("erase")
  /\ IF status = "success"
     THEN fresh' = fresh \ Settled(job.extent) /\ UNCHANGED doubtful
     ELSE doubtful' = doubtful \cup {job.extent} /\ UNCHANGED fresh
  /\ UNCHANGED live

\* fs_cluster_someusedrange and fs_cluster_diskread.
Someusedrange(e) ==
  /\ job = NoJob /\ UNCHANGED cvars
  /\ GetmaskSomeused(Getsector(e.first), e.num * SectorsPerCluster)
Diskread == job = NoJob /\ UNCHANGED cvars /\ DiskwithBitmapRead

ClusterCall ==
  \/ \E n \in Sizes : Cardinality(live \cup doubtful) < MaxExtents /\ GetFreeCluster(n)
  \/ \E e \in live : \/ Rewrite(e) \/ Someusedrange(e)
                     \/ \E k \in 1 .. e.num : EraseBitmap(e, k)
  \/ WriteFound \/ Diskread
ClusterReturn == NothingFound \/ Written \/ Rewritten \/ Erased
\* Closing writes every buffer out.  (A client whose bitmap has lost a file is not
\* followed into closing it: that is the end of the program.)
ClusterReopen ==
  /\ job = NoJob /\ CloseAndOpen
  /\ fresh' = {} /\ UNCHANGED <<live, doubtful, job>>

\* After a crash the client goes on with all it held but the fresh extents; of them
\* it can say nothing.
ClusterCrash ==
  /\ Crash
  /\ live' = live \ fresh /\ fresh' = {}
  /\ job' = NoJob /\ UNCHANGED doubtful

Steady == \/ ClusterCall \/ ClusterReturn \/ ClusterReopen
          \/ BitmapStep /\ UNCHANGED cvars

ClusterNext == Steady \/ ClusterCrash
ClusterSpec == ClusterInit /\ [][ClusterNext]_allvars

\* The same without crashes.
SteadySpec == ClusterInit /\ [][Steady]_allvars
-----------------------------------------------------------------------------
Extents == [first : Nat, num : Nat \ {0}]
ClusterTypeOK ==
  /\ TypeOK
  /\ live \subseteq Extents /\ fresh \subseteq live /\ doubtful \subseteq Extents
  /\ job \in [op : {"none", "find", "write", "rewrite", "erase"}, extent : Extents]

\* No two extents the client holds share a sector: what getfreecluster returns
\* was free, and is still free when it is written (fs_cluster.h:39-57).
ExtentsDisjoint ==
  \A e, f \in live : e # f => Sectors(e) \cap Sectors(f) = {}

\* The bits of what the client holds are set, whatever happened to its other calls: no
\* erase and no failed update clears a bit of another extent, and a crash loses only
\* extents whose bits no later call has made the stdio buffers give up (fs_file.h's
\* fseek before each transfer): the rest of what the client held is marked after it.
LiveMarked == \A e \in live : Sectors(e) \subseteq marks

\* Without a crash every set bit of the first file belongs to an extent that the
\* client knows of, or is just writing or erasing: nothing leaks.
InWork == IF job.op \in {"write", "rewrite", "erase"} THEN {job.extent} ELSE {}
Accounted ==
  \A s \in marks : s < RegionBits =>
    \E e \in live \cup doubtful \cup InWork : s \in Sectors(e)
=============================================================================
