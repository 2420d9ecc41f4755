-------------------------- MODULE FSCluster_proofs --------------------------
(***************************************************************************)
(* The extents of a client of fs_cluster.h never overlap and their bits    *)
(* stay set, for every size of byte, sector, file and cluster, for any     *)
(* number of extents and through any number of crashes.                    *)
(***************************************************************************)
EXTENDS FSCluster, FSBitmap_proofs

\* Where an extent lies: past the reserved sectors.
LEMMA ExtentSectors ==
  ASSUME NEW e \in Extents
  PROVE  /\ Getsector(e.first) \in Nat /\ Getsector(e.first) >= SectorBits
         /\ e.num * SectorsPerCluster \in Nat \ {0}
         /\ Getsector(e.first) >= bpb_offset
<1>1. SectorsPerCluster \in Nat \ {0} /\ bpb_offset \in Nat /\ bpb_offset >= SectorBits
  BY ClusterAssumption
<1>2. e.first \in Nat /\ e.num \in Nat \ {0}
  BY DEF Extents
<1>3. e.first * SectorsPerCluster \in Nat /\ e.num * SectorsPerCluster \in Nat \ {0}
  BY <1>1, <1>2
<1> DEFINE t == e.first * SectorsPerCluster
<1> HIDE DEF t
<1>4. Getsector(e.first) = bpb_offset + t
  BY DEF Getsector, t
<1> QED
  BY <1>1, <1>3, <1>4, SectorBitsType DEF t

\* Clusters being whole bytes of the bitmap, the masks of an extent are its
\* sectors, though the extent may begin inside a byte.
LEMMA ExtentMasked ==
  ASSUME NEW e \in Extents
  PROVE  MaskedSectors(Getsector(e.first), e.num * SectorsPerCluster) = Sectors(e)
<1>1. PICK bytes \in 1 .. SectorsPerCluster : SectorsPerCluster = bytes * ByteBits
  BY ClusterAssumption
<1>2. e.num \in Nat \ {0} /\ bytes \in Nat \ {0} /\ ByteBits \in Nat \ {0}
  BY <1>1, MaskAssumption, ClusterAssumption DEF Extents
<1>3. e.num * bytes \in Nat \ {0}
  BY <1>2
<1>4. e.num * SectorsPerCluster = (e.num * bytes) * ByteBits
  BY <1>1, <1>2
<1>5. ReachesByteEnd(Getsector(e.first), e.num * SectorsPerCluster)
  BY <1>3, <1>4, ExtentSectors, WholeBytesReachByteEnd
<1> QED
  BY <1>5, ExtentSectors, MaskExact DEF Sectors

\* fs_cluster_getcluster undoes fs_cluster_getsector on a sector where a cluster
\* begins.
LEMMA ClusterOfSector ==
  ASSUME NEW k \in Nat
  PROVE  Getcluster(bpb_offset + k * SectorsPerCluster) = k
<1> DEFINE P == SectorsPerCluster
           n == k * P
<1>1. P \in Nat \ {0} /\ bpb_offset \in Nat /\ n \in Nat /\ n = P * k
  BY ClusterAssumption
<1>2. n \div P = k
  <2>1. n \div P \in Nat /\ (n % P) \in 0 .. P - 1 /\ n = P * (n \div P) + (n % P)
    BY <1>1, NatDivision
  <2> DEFINE q == n \div P
             r == (n % P)
  <2>2. q \in Int /\ r \in 0 .. P - 1 /\ P * q + r = P * k + 0 /\ 0 \in 0 .. P - 1
    BY <2>1, <1>1
  <2> HIDE DEF q, r, n, P
  <2> QED
    BY <2>2, <1>1, UniqueDivision DEF q
<1>3. bpb_offset + n - bpb_offset = n
  BY <1>1
<1> HIDE DEF n
<1>4. Getcluster(bpb_offset + n) = n \div P
  BY <1>1, <1>3 DEF Getcluster, CDiv
<1> QED
  BY <1>2, <1>4 DEF n

\* The parts of an extent of which the first clusters are given back.
LEMMA Split ==
  ASSUME NEW e \in Extents, NEW k \in 1 .. e.num
  PROVE  /\ Extent(e.first, k) \in Extents
         /\ Sectors(Extent(e.first, k)) \subseteq Sectors(e)
         /\ k < e.num =>
              /\ Extent(e.first + k, e.num - k) \in Extents
              /\ Sectors(Extent(e.first + k, e.num - k)) \subseteq Sectors(e)
              /\ Sectors(Extent(e.first + k, e.num - k)) \cap Sectors(Extent(e.first, k)) = {}
<1> DEFINE P == SectorsPerCluster
           f == e.first
           n == e.num
<1>1. P \in Nat \ {0} /\ bpb_offset \in Nat /\ f \in Nat /\ n \in Nat \ {0}
        /\ k \in Nat \ {0} /\ k <= n
  BY ClusterAssumption DEF Extents
<1>2. Extent(f, k) \in Extents /\ (k < n => Extent(f + k, n - k) \in Extents)
  BY <1>1 DEF Extents, Extent
<1> DEFINE a == bpb_offset + f * P
           kp == k * P
           np == n * P
<1>3. a \in Nat /\ kp \in Nat /\ np \in Nat
  <2>1. f * P \in Nat /\ k * P \in Nat /\ n * P \in Nat
    BY <1>1
  <2> QED
    BY <2>1, <1>1
<1>4. kp <= np
  BY <1>1
<1>5. bpb_offset + (f + k) * P = a + kp /\ (n - k) * P = np - kp
  <2>1. (f + k) * P = f * P + k * P /\ (n - k) * P = n * P - k * P /\ f * P \in Nat /\ k * P \in Nat
    BY <1>1
  <2> QED
    BY <2>1, <1>1
<1>6. Sectors(e) = a .. a + np - 1 /\ Sectors(Extent(f, k)) = a .. a + kp - 1
  BY DEF Sectors, Extent, Getsector, Range0
<1>7. Sectors(Extent(f + k, n - k)) = a + kp .. a + kp + (np - kp) - 1
  BY <1>5 DEF Sectors, Extent, Getsector, Range0
<1> HIDE DEF a, kp, np
<1> QED
  BY <1>2, <1>3, <1>4, <1>6, <1>7
-----------------------------------------------------------------------------
\* The failure that makes the search fall back on a sector it has not looked at
\* (fs_bitmap.h:136-141) needs the index files to fail.
IndexHolds == "index" \notin Faults

\* The positions where a cluster begins.
Aligned(sector) == \E k \in Nat : sector = bpb_offset + k * SectorsPerCluster

NoFallback == pc # "fallback" /\ (IndexHolds => ~indexRw)

\* An update in progress is that of the job's extent.
UpdateOfJob ==
  pc = "mask" =>
    /\ job.op \in {"write", "rewrite", "erase"}
    /\ req.op = IF job.op = "erase" THEN "clear" ELSE "set"
    /\ req.begin = Getsector(job.extent.first)
    /\ req.num = job.extent.num * SectorsPerCluster

\* A search stays on the boundaries of clusters, and what it has found is free.
SearchOfJob ==
  pc = "search" =>
    /\ job.op = "find" /\ req.begin = bpb_offset
    /\ req.num = job.extent.num * SectorsPerCluster
    /\ Aligned(ite)
FoundOfJob ==
  job.op = "find" /\ pc = "idle" /\ status = "success" =>
    /\ Aligned(begin)
    /\ Range0(begin, job.extent.num * SectorsPerCluster) \cap marks = {}

\* What is being written for the first time or given back is no live extent's.
JobApart ==
  job.op \in {"write", "erase"} =>
    \A e \in live : Sectors(e) \cap Sectors(job.extent) = {}
WriteDone ==
  job.op = "write" /\ pc = "idle" /\ status = "success" => Sectors(job.extent) \subseteq marks

\* The bits of all but the fresh extents have reached the files; and those of the
\* fresh ones that an update has settled, when it has succeeded.
SettledStored == \A e \in live \ fresh : Sectors(e) \subseteq stored
UpdateDone == job.op \in {"write", "rewrite", "erase"} /\ pc = "idle" /\ status = "success"
DoneSettled == UpdateDone => \A e \in Settled(job.extent) : Sectors(e) \subseteq stored

ClusterInv ==
  /\ ClusterTypeOK /\ ExtentsDisjoint /\ LiveMarked /\ NoFallback
  /\ UpdateOfJob /\ SearchOfJob /\ FoundOfJob /\ JobApart /\ WriteDone
  /\ SettledStored /\ DoneSettled

\* A cluster boundary is the first sector of the cluster that getcluster gives.
LEMMA AlignedCluster ==
  ASSUME NEW sector, Aligned(sector)
  PROVE  Getcluster(sector) \in Nat /\ Getsector(Getcluster(sector)) = sector
BY ClusterOfSector DEF Aligned, Getsector

\* The search moves from one cluster boundary to another.
LEMMA SearchPosition ==
  ASSUME TypeOK, job.extent \in Extents, UpdateOfJob, SearchOfJob, pc = "search"
  PROVE  Aligned(NextPosition)
<1> DEFINE P == SectorsPerCluster
           n == job.extent.num
           t == MaxMetaFiles * RegionBits
<1>1. P \in Nat \ {0} /\ n \in Nat \ {0} /\ t \in Nat /\ bpb_offset \in Nat
  BY ClusterAssumption, BitmapAssumption, RegionBitsType DEF Extents
<1>2. PICK k \in Nat : ite = bpb_offset + k * P
  BY DEF SearchOfJob, Aligned
<1>3. req.num = n * P /\ req.begin = bpb_offset
  BY DEF SearchOfJob
<1>4. k * P \in Nat /\ n * P \in Nat
  BY <1>1
<1>5. CASE ite <= t + req.begin + req.num
  <2>1. NextPosition = ite + req.num
    BY <1>5 DEF NextPosition
  <2>2. (k + n) * P = k * P + n * P /\ k + n \in Nat
    BY <1>1
  <2> HIDE DEF P, n, t
  <2>3. NextPosition = bpb_offset + (k + n) * P
    BY <1>1, <1>2, <1>3, <1>4, <2>1, <2>2
  <2> QED
    BY <2>2, <2>3 DEF Aligned, P
<1>6. CASE ~(ite <= t + req.begin + req.num)
  <2>1. NextPosition = ite - req.num
    BY <1>6 DEF NextPosition
  <2> HIDE DEF P, n, t
  <2>2. k * P > n * P
    BY <1>1, <1>2, <1>3, <1>4, <1>6
  <2>3. k > n
    BY <2>2, <1>1
  <2>4. (k - n) * P = k * P - n * P /\ k - n \in Nat
    BY <2>3, <1>1
  <2>5. NextPosition = bpb_offset + (k - n) * P
    BY <1>1, <1>2, <1>3, <1>4, <2>1, <2>4
  <2> QED
    BY <2>4, <2>5 DEF Aligned, P
<1> QED
  BY <1>5, <1>6

\* What an update past the reserved sectors does to the bits, by its masks M: a set
\* clears none, a clear only those in M, one that succeeds has done all of M, and no
\* bit of the first file is set but those in M.  What has reached the files stays
\* there, and one that succeeds has written out the files of its buffer.
LEMMA MaskChanges ==
  ASSUME FilesOK, CallOK, MaskStep, req.begin \notin Reserved
  PROVE  LET M == MaskedSectors(req.begin, req.num)
         IN  /\ req.op = "set" => marks \subseteq marks'
             /\ marks \ M \subseteq marks'
             /\ \A s \in marks' : s < RegionBits => s \in marks \cup M
             /\ marks \cap stored \subseteq stored'
             /\ pc' = "idle" /\ status' = "success" =>
                  /\ req.op = "set" => M \subseteq marks'
                  /\ req.op = "clear" => M \cap marks' = {}
                  /\ \A s \in marks : FileOf(s) \in FilesOf(MaskWindow) => s \in stored'
<1> DEFINE M == MaskedSectors(req.begin, req.num)
<1>1. pc = "mask" /\ req.op \in {"set", "clear"}
  BY MaskEnds DEF CallOK
<1>2. M \subseteq MaskWindow /\ \A bits : Masked(bits) \subseteq bits \cup MaskWindow
  BY MaskedWithin
<1>3. \A bits : /\ Masked(bits) \subseteq bits \cup M
                /\ bits \ M \subseteq Masked(bits)
                /\ req.op = "set" => Masked(bits) = bits \cup M
                /\ req.op = "clear" => Masked(bits) = bits \ M
  BY <1>1 DEF Masked
<1> HIDE DEF M
<1>4. CASE Untouched
  <2>1. marks \cap stored \subseteq stored'
    BY <1>4, FlushWrites DEF Untouched
  <2>2. marks' = marks /\ ~(pc' = "idle" /\ status' = "success")
    BY <1>4 DEF Untouched
  <2> QED
    BY <2>1, <2>2 DEF M
<1>5. CASE Updated
  <2>1. stored' = Flushed(MaskWindow)
    BY <1>5 DEF Updated
  <2>2. /\ marks \cap stored \subseteq stored'
        /\ \A s \in marks : FileOf(s) \in FilesOf(MaskWindow) => s \in stored'
    BY <2>1 DEF Flushed, FilesOf
  <2>3. CASE status' = "success" /\ marks' = Masked(marks)
    BY <1>1, <1>3, <2>2, <2>3 DEF M
  <2>4. CASE /\ status' = "drive_rw"
             /\ \E cut \in MaskWindow :
                  marks' = {s \in Masked(marks) : s < cut} \cup {s \in marks : s >= cut}
    <3>1. PICK cut \in MaskWindow :
            marks' = {s \in Masked(marks) : s < cut} \cup {s \in marks : s >= cut}
      BY <2>4
    <3>2. cut \in Nat /\ marks \subseteq Nat
      <4>1. marks \subseteq Nat /\ MaskWindow \subseteq Readable /\ Readable \subseteq Nat
        BY <1>5, SizesType DEF Updated, FilesOK, Range0
      <4> QED
        BY <4>1
    <3>3. \A s \in marks : s < cut \/ s >= cut
      BY <3>2
    <3> QED
      BY <1>1, <1>3, <2>2, <2>4, <3>1, <3>3 DEF M
  <2> QED
    BY <1>5, <2>3, <2>4 DEF Updated
<1>6. CASE Grown
  <2>1. /\ MaskWindow \cap Range0(0, FirstMissing) = {}
        /\ marks \subseteq marks' /\ marks' \subseteq marks \cup MaskWindow
    BY <1>6, GrowthFacts, GrownBits DEF Grown
  <2>2. /\ FirstMissing \in Nat /\ RegionBits <= FirstMissing /\ RegionBits \in Nat
        /\ marks \subseteq Range0(0, FirstMissing)
    BY SizesType, RegionBitsType DEF FilesOK
  <2>3. MaskWindow \subseteq Nat
    <3>1. Needed \in Nat /\ MaskWindow \subseteq Range0(0, Needed * RegionBits)
      BY <1>6, GrowthFacts DEF Grown
    <3>2. Needed * RegionBits \in Nat
      BY <2>2, <3>1
    <3>3. \A n \in Nat : Range0(0, n) \subseteq Nat
      BY DEF Range0
    <3> QED
      BY <3>1, <3>2, <3>3
  <2>4. \A s \in MaskWindow : s >= FirstMissing
    BY <2>1, <2>2, <2>3 DEF Range0
  <2>5. \A s \in marks' : s < RegionBits => s \in marks \cup M
    <3>1. \A s \in MaskWindow : ~(s < RegionBits)
      BY <2>2, <2>3, <2>4
    <3> QED
      BY <2>1, <3>1
  <2>6. \A s \in marks : FileOf(s) \notin FilesOf(MaskWindow)
    <3>1. ASSUME NEW s \in marks, NEW r \in MaskWindow
          PROVE  FileOf(s) # FileOf(r)
      <4>1. s \in Nat /\ s < FirstMissing /\ r \in Nat /\ r >= FirstMissing
        BY <2>2, <2>3, <2>4 DEF Range0
      <4> QED
        BY <4>1, RegionsApart
    <3> QED
      BY <3>1 DEF FilesOf
  <2>7. marks \cap M = {}
    BY <1>2, <2>1, <2>2
  <2>8. stored' = stored
    BY <1>6 DEF Grown
  <2>9. ASSUME status' = "success"
        PROVE  /\ req.op = "set" => M \subseteq marks'
               /\ req.op = "clear" => M \cap marks' = {}
    <3>1. PICK new : marks' = marks \cup Masked(new \cap MaskWindow)
      BY <1>6, <2>9 DEF Grown
    <3> QED
      BY <1>3, <2>7, <3>1
  <2> QED
    BY <2>1, <2>5, <2>6, <2>8, <2>9 DEF M
<1> QED
  BY <1>4, <1>5, <1>6, MaskEffect

\* An update that runs sets the bits of its extent, or clears bits that are no
\* live extent's.
LEMMA MaskStepInv ==
  ASSUME ClusterInv, MaskStep, UNCHANGED cvars
  PROVE  ClusterInv'
<1>1. FilesOK /\ CallOK /\ job.extent \in Extents
  BY TypeParts DEF ClusterInv, ClusterTypeOK
<1>2. /\ pc = "mask" /\ pc' \in {"idle", "wild"} /\ (indexRw' <=> indexRw)
      /\ UNCHANGED <<begin, used>> /\ CallOK'
  <2>1. (indexRw' <=> indexRw)
    <3>1. UNCHANGED <<indexRw, begin, used>>
      BY <1>1, MaskEnds
    <3> QED
      BY <3>1, Zenon
  <2> QED
    BY <1>1, <2>1, MaskEnds
<1>3. /\ job.op \in {"write", "rewrite", "erase"}
      /\ req.op = IF job.op = "erase" THEN "clear" ELSE "set"
      /\ MaskedSectors(req.begin, req.num) = Sectors(job.extent)
      /\ MaskWindow = Window(Getsector(job.extent.first), job.extent.num * SectorsPerCluster)
      /\ req.begin \notin Reserved
  <2>1. /\ job.op \in {"write", "rewrite", "erase"}
        /\ req.op = IF job.op = "erase" THEN "clear" ELSE "set"
        /\ req.begin = Getsector(job.extent.first)
        /\ req.num = job.extent.num * SectorsPerCluster
    BY <1>2 DEF ClusterInv, UpdateOfJob
  <2>2. req.begin >= SectorBits /\ req.begin \in Nat
    BY <1>1, <2>1, ExtentSectors
  <2> QED
    BY <1>1, <2>1, <2>2, ExtentMasked, SectorBitsType DEF Reserved, Range0, MaskWindow
<1> DEFINE M == Sectors(job.extent)
<1>4. /\ job.op # "erase" => marks \subseteq marks'
      /\ marks \ M \subseteq marks'
      /\ marks \cap stored \subseteq stored'
      /\ pc' = "idle" /\ status' = "success" =>
           /\ job.op # "erase" => M \subseteq marks'
           /\ \A s \in marks : FileOf(s) \in FilesOf(MaskWindow) => s \in stored'
  BY <1>1, <1>3, MaskChanges
<1>5. UNCHANGED <<live, fresh, doubtful, job>>
  BY DEF cvars, held
<1>6. ClusterTypeOK'
  <2>1. TypeOK'
    BY <1>1, <1>2, MaskEffect, MaskFiles, TypeParts
  <2> QED
    BY <2>1, <1>5 DEF ClusterTypeOK, ClusterInv
<1>7. ExtentsDisjoint' /\ JobApart'
  BY <1>5 DEF ClusterInv, ExtentsDisjoint, JobApart, Sectors
<1>8. LiveMarked'
  <2>1. ASSUME NEW e \in live
        PROVE  Sectors(e) \subseteq marks'
    <3>1. Sectors(e) \subseteq marks
      BY <2>1 DEF ClusterInv, LiveMarked
    <3>2. CASE job.op = "erase"
      <4>1. Sectors(e) \cap M = {}
        BY <3>2 DEF ClusterInv, JobApart
      <4> QED
        BY <3>1, <4>1, <1>4
    <3>3. CASE job.op # "erase"
      BY <3>1, <3>3, <1>4
    <3> QED
      BY <3>2, <3>3
  <2> QED
    BY <1>5, <2>1 DEF LiveMarked, Sectors
<1>9. NoFallback'
  BY <1>2 DEF ClusterInv, NoFallback
<1>10. UpdateOfJob' /\ SearchOfJob' /\ FoundOfJob'
  BY <1>2, <1>3, <1>5 DEF UpdateOfJob, SearchOfJob, FoundOfJob
<1>11. WriteDone'
  BY <1>3, <1>4, <1>5 DEF WriteDone, Sectors
<1>12. SettledStored'
  <2>1. \A e \in live \ fresh : Sectors(e) \subseteq marks \cap stored
    BY DEF ClusterInv, LiveMarked, SettledStored
  <2> QED
    BY <1>4, <1>5, <2>1 DEF SettledStored, Sectors
<1>13. DoneSettled'
  <2>1. ASSUME UpdateDone', NEW e \in Settled(job.extent)
        PROVE  Sectors(e) \subseteq stored'
    <3>1. pc' = "idle" /\ status' = "success"
      BY <2>1 DEF UpdateDone
    <3>2. FilesOf(Sectors(e)) \subseteq FilesOf(MaskWindow) /\ e \in fresh
      BY <1>3 DEF Settled
    <3>3. Sectors(e) \subseteq marks
      BY <3>2 DEF ClusterInv, ClusterTypeOK, LiveMarked
    <3>4. \A s \in Sectors(e) : FileOf(s) \in FilesOf(MaskWindow)
      BY <3>2 DEF FilesOf
    <3> QED
      BY <1>4, <3>1, <3>3, <3>4
  <2>2. Settled(job.extent)' = Settled(job.extent)
    BY <1>5 DEF Settled, Sectors, FilesOf, FileOf
  <2> QED
    BY <1>5, <2>1, <2>2 DEF DoneSettled, Sectors
<1> QED
  BY <1>6, <1>7, <1>8, <1>9, <1>10, <1>11, <1>12, <1>13 DEF ClusterInv

\* Where no bit is changed, what the client holds stays marked, and settled.
LEMMA QuietKeeps ==
  ASSUME ClusterInv, Quiet, CallOK'
  PROVE  /\ TypeOK'
         /\ UNCHANGED held => ExtentsDisjoint' /\ LiveMarked' /\ SettledStored'
         /\ \A e \in live \ fresh : Sectors(e) \subseteq stored'
<1>1. FilesOK /\ CallOK
  BY TypeParts DEF ClusterInv, ClusterTypeOK
<1>2. TypeOK'
  BY <1>1, QuietFiles, TypeParts
<1>3. marks' = marks /\ marks \cap stored \subseteq stored'
  BY FlushWrites DEF Quiet
<1>4. \A e \in live \ fresh : Sectors(e) \subseteq stored'
  BY <1>3 DEF ClusterInv, LiveMarked, SettledStored
<1> QED
  BY <1>2, <1>3, <1>4 DEF held, ClusterInv, ExtentsDisjoint, LiveMarked, SettledStored, Sectors

\* The search changes no bit and returns only sectors it has looked at.
LEMMA SearchStepInv ==
  ASSUME IndexHolds, ClusterInv, SearchStep, UNCHANGED cvars
  PROVE  ClusterInv'
<1>1. TypeOK /\ FilesOK /\ CallOK /\ job.extent \in Extents
  BY TypeParts DEF ClusterInv, ClusterTypeOK
<1>2. UNCHANGED <<live, fresh, doubtful, job>> /\ UNCHANGED held
  BY DEF cvars, held
<1>3. pc = "search" /\ Searching /\ ~indexRw
  BY DEF ClusterInv, NoFallback, SearchStep, SearchAdvance, SearchFound, SearchReadFails,
         SearchWild, SearchFallback, Searching
<1>4. SearchAdvance \/ SearchFound \/ SearchReadFails \/ SearchWild
  BY <1>3 DEF SearchStep, SearchFallback
<1>5. Quiet /\ CallOK' /\ marks' = marks /\ pc' # "mask"
  BY <1>1, SearchEffect DEF Quiet
<1>6. ~indexRw'
  BY <1>3, Zenon DEF Searching
<1>7. /\ job.op = "find" /\ req.begin = bpb_offset
      /\ req.num = job.extent.num * SectorsPerCluster /\ Aligned(ite)
  BY <1>3 DEF ClusterInv, SearchOfJob
<1>8. ClusterTypeOK' /\ ExtentsDisjoint' /\ LiveMarked' /\ SettledStored'
  BY <1>2, <1>5, QuietKeeps DEF ClusterInv, ClusterTypeOK
<1>9. JobApart' /\ WriteDone' /\ UpdateOfJob' /\ DoneSettled'
  BY <1>2, <1>5, <1>7 DEF JobApart, WriteDone, UpdateOfJob, DoneSettled, UpdateDone
<1>10. CASE SearchAdvance
  <2>1. pc' = "search" /\ req' = req /\ ite' = NextPosition
    BY <1>3, <1>10 DEF SearchAdvance
  <2>2. Aligned(NextPosition)
    BY <1>1, <1>3, SearchPosition DEF ClusterInv
  <2>3. NoFallback' /\ SearchOfJob' /\ FoundOfJob'
    BY <1>2, <1>6, <1>7, <2>1, <2>2 DEF NoFallback, SearchOfJob, FoundOfJob, Aligned
  <2> QED
    BY <1>8, <1>9, <2>3 DEF ClusterInv
<1>11. CASE SearchFound
  <2>1. pc' = "idle" /\ begin' = ite
    BY <1>11 DEF SearchFound, Return
  <2>2. Range0(ite, req.num) \cap marks = {}
    BY <1>1, <1>11, CandidateRead DEF SearchFound, Candidate
  <2>3. NoFallback' /\ SearchOfJob' /\ FoundOfJob'
    BY <1>2, <1>5, <1>6, <1>7, <2>1, <2>2 DEF NoFallback, SearchOfJob, FoundOfJob, Aligned
  <2> QED
    BY <1>8, <1>9, <2>3 DEF ClusterInv
<1>12. CASE SearchReadFails \/ SearchWild
  <2>1. pc' = "wild" \/ (pc' = "idle" /\ status' = "memory")
    BY <1>3, <1>12 DEF SearchReadFails, SearchWild, GoWild, Return
  <2>2. NoFallback' /\ SearchOfJob' /\ FoundOfJob'
    BY <1>6, <2>1 DEF NoFallback, SearchOfJob, FoundOfJob
  <2> QED
    BY <1>8, <1>9, <2>2 DEF ClusterInv
<1> QED
  BY <1>4, <1>10, <1>11, <1>12
-----------------------------------------------------------------------------
\* fs_diskwith_bitmap_write either goes on to the bits or has failed.
LEMMA WriteCall ==
  ASSUME ClusterInv, NEW b \in Nat, NEW n \in Nat \ {0}, DiskwithBitmapWrite(b, n)
  PROVE  /\ pc = "idle" /\ Quiet /\ CallOK' /\ marks' = marks
         /\ \/ pc' = "mask" /\ req' = [op |-> "set", begin |-> b, num |-> n]
            \/ pc' = "idle" /\ status' = "drive_rw"
         /\ NoFallback'
<1>1. CallOK
  BY TypeParts DEF ClusterInv, ClusterTypeOK
<1>2. pc = "idle" /\ Quiet /\ CallOK' /\ marks' = marks
  BY <1>1, CallEffect DEF Quiet
<1>3. \/ pc' = "mask" /\ req' = [op |-> "set", begin |-> b, num |-> n]
      \/ pc' = "idle" /\ status' = "drive_rw"
  BY Zenon DEF DiskwithBitmapWrite, Return
<1>4. IndexHolds => indexRw' = indexRw \/ indexRw' = FALSE
  BY Zenon DEF DiskwithBitmapWrite, IndexHolds
<1>5. IndexHolds => ~indexRw'
  BY <1>4, Zenon DEF ClusterInv, NoFallback
<1>6. pc' # "fallback"
  BY <1>3
<1> QED
  BY <1>2, <1>3, <1>5, <1>6 DEF NoFallback

\* The client starts to look for clusters.
LEMMA GetFreeClusterInv ==
  ASSUME ClusterInv, NEW n \in Sizes, GetFreeCluster(n)
  PROVE  ClusterInv'
<1>1. /\ n \in Nat \ {0} /\ bpb_offset \in Nat /\ bpb_offset >= SectorBits
      /\ SectorsPerCluster \in Nat \ {0} /\ SectorBits \in Nat
  BY ClusterAssumption, SectorBitsType
<1>2. n * SectorsPerCluster \in Nat \ {0}
  BY <1>1
<1>3. /\ job' = Job("find", Extent(0, n)) /\ UNCHANGED held
      /\ GetmaskFreesector(n * SectorsPerCluster, bpb_offset)
  BY DEF GetFreeCluster, Start
<1>4. CallOK
  BY TypeParts DEF ClusterInv, ClusterTypeOK
<1>5. Quiet /\ CallOK'
  BY <1>1, <1>2, <1>3, <1>4, CallEffect
<1>6. /\ pc' = "search" /\ ite' = bpb_offset
      /\ req' = [op |-> "find", begin |-> bpb_offset, num |-> n * SectorsPerCluster]
  BY <1>1, <1>3 DEF GetmaskFreesector
<1>7. (indexRw' <=> indexRw)
  BY <1>3, Zenon DEF GetmaskFreesector
<1>8. Extent(0, n) \in Extents
  BY <1>1 DEF Extent, Extents
<1>9. job'.op = "find" /\ job'.extent = Extent(0, n) /\ job'.extent.num = n
  BY <1>3 DEF Job, Extent
<1>10. ClusterTypeOK' /\ ExtentsDisjoint' /\ LiveMarked' /\ SettledStored'
  BY <1>3, <1>5, <1>8, QuietKeeps DEF ClusterInv, ClusterTypeOK, held, Job
<1>11. /\ UpdateOfJob' /\ FoundOfJob' /\ JobApart' /\ WriteDone' /\ DoneSettled'
       /\ NoFallback'
  BY <1>6, <1>7, <1>9 DEF UpdateOfJob, FoundOfJob, JobApart, WriteDone, DoneSettled, UpdateDone,
       ClusterInv, NoFallback
<1>12. SearchOfJob'
  <2>1. bpb_offset = bpb_offset + 0 * SectorsPerCluster
    BY <1>1
  <2> QED
    BY <2>1, <1>6, <1>9 DEF SearchOfJob, Aligned
<1> QED
  BY <1>10, <1>11, <1>12 DEF ClusterInv

\* The client writes what it was told is free: no live extent has a bit there.
LEMMA WriteFoundInv ==
  ASSUME ClusterInv, WriteFound
  PROVE  ClusterInv'
<1> DEFINE e == Extent(Getcluster(begin), job.extent.num)
           b == Getsector(e.first)
           n == e.num * SectorsPerCluster
<1>1. /\ job.op = "find" /\ pc = "idle" /\ status = "success"
      /\ job' = Job("write", e) /\ DiskwithBitmapWrite(b, n) /\ UNCHANGED held
  BY DEF WriteFound
<1>2. Aligned(begin) /\ Range0(begin, job.extent.num * SectorsPerCluster) \cap marks = {}
  BY <1>1 DEF ClusterInv, FoundOfJob
<1>3. Getcluster(begin) \in Nat /\ Getsector(Getcluster(begin)) = begin
  BY <1>2, AlignedCluster
<1>4. e \in Extents /\ e.first = Getcluster(begin) /\ e.num = job.extent.num
  BY <1>3 DEF ClusterInv, ClusterTypeOK, Extents, Extent
<1>5. Sectors(e) \cap marks = {}
  BY <1>2, <1>3, <1>4 DEF Sectors
<1>6. b \in Nat /\ n \in Nat \ {0}
  BY <1>4, ExtentSectors
<1>7. /\ Quiet /\ CallOK' /\ marks' = marks /\ NoFallback'
      /\ \/ pc' = "mask" /\ req' = [op |-> "set", begin |-> b, num |-> n]
         \/ pc' = "idle" /\ status' = "drive_rw"
  BY <1>1, <1>6, WriteCall
<1>8. job'.op = "write" /\ job'.extent = e
  BY <1>1 DEF Job
<1> HIDE DEF e, b, n
<1>9. ClusterTypeOK' /\ ExtentsDisjoint' /\ LiveMarked' /\ SettledStored'
  BY <1>1, <1>4, <1>7, QuietKeeps DEF ClusterInv, ClusterTypeOK, held, Job
<1>10. SearchOfJob' /\ FoundOfJob' /\ WriteDone' /\ DoneSettled'
  BY <1>7, <1>8 DEF SearchOfJob, FoundOfJob, WriteDone, DoneSettled, UpdateDone
<1>11. UpdateOfJob'
  BY <1>7, <1>8 DEF UpdateOfJob, b, n
<1>12. JobApart'
  BY <1>1, <1>5, <1>8 DEF ClusterInv, LiveMarked, JobApart, Sectors, held
<1> QED
  BY <1>7, <1>9, <1>10, <1>11, <1>12 DEF ClusterInv

\* The client writes clusters it has.
LEMMA RewriteInv ==
  ASSUME ClusterInv, NEW e \in live, Rewrite(e)
  PROVE  ClusterInv'
<1> DEFINE b == Getsector(e.first)
           n == e.num * SectorsPerCluster
<1>1. /\ job' = Job("rewrite", e) /\ DiskwithBitmapWrite(b, n) /\ UNCHANGED held
  BY DEF Rewrite, Start
<1>2. e \in Extents
  BY DEF ClusterInv, ClusterTypeOK
<1>3. /\ Quiet /\ CallOK' /\ marks' = marks /\ NoFallback'
      /\ \/ pc' = "mask" /\ req' = [op |-> "set", begin |-> b, num |-> n]
         \/ pc' = "idle" /\ status' = "drive_rw"
  BY <1>1, <1>2, ExtentSectors, WriteCall
<1>4. job'.op = "rewrite" /\ job'.extent = e
  BY <1>1 DEF Job
<1> HIDE DEF b, n
<1>5. ClusterTypeOK' /\ ExtentsDisjoint' /\ LiveMarked' /\ SettledStored'
  BY <1>1, <1>2, <1>3, QuietKeeps DEF ClusterInv, ClusterTypeOK, held, Job
<1>6. SearchOfJob' /\ FoundOfJob' /\ WriteDone' /\ JobApart' /\ DoneSettled'
  BY <1>3, <1>4 DEF SearchOfJob, FoundOfJob, WriteDone, JobApart, DoneSettled, UpdateDone
<1>7. UpdateOfJob'
  BY <1>3, <1>4 DEF UpdateOfJob, b, n
<1> QED
  BY <1>3, <1>5, <1>6, <1>7 DEF ClusterInv

\* The client gives clusters back: it keeps the rest of the extent, and nobody
\* else has a sector of the part that is erased.
LEMMA EraseBitmapInv ==
  ASSUME ClusterInv, NEW e \in live, NEW k \in 1 .. e.num, EraseBitmap(e, k)
  PROVE  ClusterInv'
<1> DEFINE head == Extent(e.first, k)
           rest == IF k < e.num THEN {Extent(e.first + k, e.num - k)} ELSE {}
           b == Getsector(e.first)
           n == k * SectorsPerCluster
<1>1. /\ job' = Job("erase", head) /\ DiskwithBitmapErase(b, n) /\ UNCHANGED doubtful
      /\ live' = (live \ {e}) \cup rest
      /\ fresh' = (fresh \ {e}) \cup IF e \in fresh THEN rest ELSE {}
  BY DEF EraseBitmap, Start, ErasedSectors
<1>2. e \in Extents /\ live \subseteq Extents /\ fresh \subseteq live /\ CallOK
  BY TypeParts DEF ClusterInv, ClusterTypeOK
<1>3. /\ head \in Extents /\ Sectors(head) \subseteq Sectors(e)
      /\ head.first = e.first /\ head.num = k
  BY <1>2, Split DEF Extent
<1>4. \A r \in rest : /\ r \in Extents /\ Sectors(r) \subseteq Sectors(e)
                      /\ Sectors(r) \cap Sectors(head) = {}
  BY <1>2, Split
<1>5. b \in Nat /\ n \in Nat \ {0}
  BY <1>3, ExtentSectors
<1>6. Quiet /\ CallOK'
  BY <1>1, <1>2, <1>5, CallEffect
<1>7. /\ UNCHANGED marks /\ pc' = "mask" /\ req' = [op |-> "clear", begin |-> b, num |-> n]
  BY <1>1 DEF DiskwithBitmapErase
<1>8. (indexRw' <=> indexRw)
  BY <1>1, Zenon DEF DiskwithBitmapErase
<1>9. job'.op = "erase" /\ job'.extent = head
  BY <1>1 DEF Job
<1>10. \A r, f \in rest : r = f
  OBVIOUS
<1> HIDE DEF head, rest, b, n
<1>11. \A f \in live \ {e} : Sectors(f) \cap Sectors(e) = {}
  BY DEF ClusterInv, ExtentsDisjoint
<1>12. ClusterTypeOK'
  <2>1. TypeOK'
    BY <1>6, QuietKeeps
  <2>2. job' \in [op : {"none", "find", "write", "rewrite", "erase"}, extent : Extents]
    BY <1>1, <1>3 DEF Job
  <2> QED
    BY <1>1, <1>2, <1>4, <2>1, <2>2 DEF ClusterInv, ClusterTypeOK
<1>13. ExtentsDisjoint'
  <2>1. \A f, g \in live' : f # g => Sectors(f) \cap Sectors(g) = {}
    BY <1>1, <1>4, <1>10, <1>11 DEF ClusterInv, ExtentsDisjoint
  <2> QED
    BY <2>1 DEF ExtentsDisjoint, Sectors
<1>14. LiveMarked'
  <2>1. \A f \in live' : Sectors(f) \subseteq marks
    BY <1>1, <1>4 DEF ClusterInv, LiveMarked
  <2> QED
    BY <2>1, <1>7 DEF LiveMarked, Sectors
<1>15. SettledStored'
  <2>1. \A f \in live \ fresh : Sectors(f) \subseteq stored'
    BY <1>6, QuietKeeps
  <2>2. \A f \in live' \ fresh' : Sectors(f) \subseteq stored'
    BY <1>1, <1>4, <2>1
  <2> QED
    BY <2>2 DEF SettledStored, Sectors
<1>16. JobApart'
  <2>1. \A f \in live' : Sectors(f) \cap Sectors(head) = {}
    BY <1>1, <1>3, <1>4, <1>11
  <2> QED
    BY <2>1, <1>9 DEF JobApart, Sectors
<1>17. UpdateOfJob'
  BY <1>3, <1>7, <1>9 DEF UpdateOfJob, b, n
<1>18. NoFallback' /\ SearchOfJob' /\ FoundOfJob' /\ WriteDone' /\ DoneSettled'
  BY <1>7, <1>8, <1>9 DEF ClusterInv, NoFallback, SearchOfJob, FoundOfJob, WriteDone, DoneSettled,
       UpdateDone
<1> QED
  BY <1>12, <1>13, <1>14, <1>15, <1>16, <1>17, <1>18 DEF ClusterInv

\* A call returns to the client; only a first write that succeeded adds an extent, and
\* only a call that succeeded settles any.
LEMMA ReturnInv ==
  ASSUME ClusterInv, ClusterReturn
  PROVE  ClusterInv'
<1>1. /\ pc = "idle" /\ UNCHANGED vars /\ job' = NoJob
      /\ \/ /\ job.op = "write" /\ status = "success" /\ live' = live \cup {job.extent}
            /\ fresh' = (fresh \ Settled(job.extent)) \cup {job.extent}
         \/ /\ live' = live
            /\ \/ fresh' = fresh
               \/ job.op \in {"rewrite", "erase"} /\ status = "success"
                  /\ fresh' = fresh \ Settled(job.extent)
      /\ \/ doubtful' = doubtful \cup {job.extent}
         \/ doubtful' = doubtful
  BY DEF ClusterReturn, NothingFound, Written, Rewritten, Erased, Finish, held
<1>2. UNCHANGED <<pc, marks, stored, indexRw>>
  BY <1>1, Zenon DEF vars
<1>3. NoJob.op = "none" /\ NoJob.extent \in Extents
  BY DEF NoJob, Extent, Extents
<1>4. job'.op = "none" /\ job' \in [op : {"none", "find", "write", "rewrite", "erase"}, extent : Extents]
  BY <1>1 DEF NoJob, Extent, Extents
<1>5. TypeOK'
  BY <1>1 DEF ClusterInv, ClusterTypeOK, TypeOK, vars, metafiles, FirstMissing, Readable
<1>6. job.extent \in Extents
  BY DEF ClusterInv, ClusterTypeOK
<1>7. ClusterTypeOK'
  BY <1>1, <1>4, <1>5, <1>6 DEF ClusterInv, ClusterTypeOK
<1>8. ExtentsDisjoint' /\ LiveMarked'
  <2>1. CASE live' = live
    BY <1>2, <2>1 DEF ClusterInv, ExtentsDisjoint, LiveMarked, Sectors
  <2>2. CASE job.op = "write" /\ status = "success" /\ live' = live \cup {job.extent}
    <3>1. Sectors(job.extent) \subseteq marks
            /\ \A e \in live : Sectors(e) \cap Sectors(job.extent) = {}
      BY <1>1, <2>2 DEF ClusterInv, WriteDone, JobApart
    <3> QED
      BY <1>2, <2>2, <3>1 DEF ClusterInv, ExtentsDisjoint, LiveMarked, Sectors
  <2> QED
    BY <1>1, <2>1, <2>2
<1>9. SettledStored'
  <2>1. \A e \in live \ fresh : Sectors(e) \subseteq stored
    BY DEF ClusterInv, SettledStored
  <2>2. UpdateDone => \A e \in Settled(job.extent) : Sectors(e) \subseteq stored
    BY DEF ClusterInv, DoneSettled
  <2>3. live' \ fresh' \subseteq (live \ fresh) \cup IF UpdateDone THEN Settled(job.extent) ELSE {}
    BY <1>1 DEF UpdateDone
  <2>4. \A e \in live' \ fresh' : Sectors(e) \subseteq stored
    BY <2>1, <2>2, <2>3
  <2> QED
    BY <1>2, <2>4 DEF SettledStored, Sectors
<1>10. /\ NoFallback' /\ UpdateOfJob' /\ SearchOfJob' /\ FoundOfJob' /\ JobApart' /\ WriteDone'
       /\ DoneSettled'
  BY <1>1, <1>2, <1>4 DEF ClusterInv, NoFallback, UpdateOfJob, SearchOfJob, FoundOfJob, JobApart,
       WriteDone, DoneSettled, UpdateDone
<1> QED
  BY <1>7, <1>8, <1>9, <1>10 DEF ClusterInv

\* Queries, reads and reopening change no bit and start no job; closing writes
\* everything out.
LEMMA QuietInv ==
  ASSUME ClusterInv,
         \/ \E e \in live : Someusedrange(e)
         \/ Diskread \/ ClusterReopen
  PROVE  ClusterInv'
<1>1. job = NoJob /\ UNCHANGED <<live, doubtful, job>> /\ fresh' \subseteq fresh
  BY DEF Someusedrange, Diskread, ClusterReopen, cvars, held
<1>2. CallOK
  BY TypeParts DEF ClusterInv, ClusterTypeOK
<1>3. /\ Quiet /\ CallOK' /\ pc' \in {"idle", "wild"}
      /\ (IndexHolds => ~indexRw') /\ (fresh' = fresh \/ stored' = marks)
  <2>1. CASE \E e \in live : Someusedrange(e)
    <3>1. PICK e \in live : Someusedrange(e)
      BY <2>1
    <3>2. Getsector(e.first) \in Nat /\ e.num * SectorsPerCluster \in Nat \ {0}
      BY ExtentSectors DEF ClusterInv, ClusterTypeOK
    <3>3. Quiet /\ CallOK' /\ pc' \in {"idle", "wild"} /\ fresh' = fresh
      BY <1>2, <3>1, <3>2, QueryEffect DEF Someusedrange, cvars, held
    <3>4. (indexRw' <=> indexRw)
      BY <3>1, Zenon DEF Someusedrange, GetmaskSomeused
    <3> QED
      BY <3>3, <3>4 DEF ClusterInv, NoFallback
  <2>2. CASE Diskread
    <3>1. 1 \in Nat \ {0} /\ 0 \in Nat
      OBVIOUS
    <3>2. Quiet /\ CallOK' /\ pc' = "idle" /\ fresh' = fresh
      BY <1>2, <2>2, <3>1, CallEffect DEF Diskread, DiskwithBitmapRead, cvars, held
    <3>3. IndexHolds => indexRw' = indexRw \/ indexRw' = FALSE
      BY <2>2, Zenon DEF Diskread, DiskwithBitmapRead, IndexHolds
    <3>4. IndexHolds => ~indexRw'
      BY <3>3, Zenon DEF ClusterInv, NoFallback
    <3> QED
      BY <3>2, <3>4
  <2>3. CASE ClusterReopen
    <3>1. 1 \in Nat \ {0} /\ 0 \in Nat
      OBVIOUS
    <3>2. Quiet /\ CallOK' /\ pc' = "idle" /\ stored' = marks
      BY <1>2, <2>3, <3>1, CallEffect DEF ClusterReopen, CloseAndOpen
    <3>3. ~indexRw'
      BY <2>3, Zenon DEF ClusterReopen, CloseAndOpen
    <3> QED
      BY <3>2, <3>3
  <2> QED
    BY <2>1, <2>2, <2>3
<1>4. job'.op = "none"
  BY <1>1 DEF NoJob
<1>5. marks' = marks /\ TypeOK' /\ \A e \in live \ fresh : Sectors(e) \subseteq stored'
  BY <1>3, QuietKeeps DEF Quiet
<1>6. SettledStored'
  <2>1. \A e \in live \ fresh' : Sectors(e) \subseteq stored'
    BY <1>3, <1>5 DEF ClusterInv, LiveMarked
  <2> QED
    BY <1>1, <2>1 DEF SettledStored, Sectors
<1>7. ClusterTypeOK'
  BY <1>1, <1>5 DEF ClusterInv, ClusterTypeOK
<1>8. ExtentsDisjoint' /\ LiveMarked'
  BY <1>1, <1>5 DEF ClusterInv, ExtentsDisjoint, LiveMarked, Sectors
<1>9. /\ NoFallback' /\ UpdateOfJob' /\ SearchOfJob' /\ FoundOfJob' /\ JobApart' /\ WriteDone'
      /\ DoneSettled'
  BY <1>3, <1>4 DEF NoFallback, UpdateOfJob, SearchOfJob, FoundOfJob, JobApart, WriteDone,
       DoneSettled, UpdateDone
<1> QED
  BY <1>6, <1>7, <1>8, <1>9 DEF ClusterInv

\* The bits of the extents that the client goes on with after a crash had reached
\* the files.
LEMMA ClusterCrashInv ==
  ASSUME ClusterInv, ClusterCrash
  PROVE  ClusterInv'
<1>1. /\ live' = live \ fresh /\ fresh' = {} /\ job' = NoJob /\ UNCHANGED doubtful /\ Crash
  BY DEF ClusterCrash
<1>2. FilesOK /\ CallOK
  BY TypeParts DEF ClusterInv, ClusterTypeOK
<1>3. /\ TypeOK' /\ pc' = "idle" /\ marks \cap stored \subseteq marks' /\ stored' = marks'
  BY <1>1, <1>2, CrashEffect, TypeParts
<1>4. ~indexRw'
  BY <1>1, Zenon DEF Crash
<1>5. job'.op = "none" /\ job' \in [op : {"none", "find", "write", "rewrite", "erase"}, extent : Extents]
  BY <1>1 DEF NoJob, Extent, Extents
<1>6. \A e \in live' : Sectors(e) \subseteq marks'
  BY <1>1, <1>3 DEF ClusterInv, LiveMarked, SettledStored
<1>7. LiveMarked' /\ SettledStored'
  BY <1>3, <1>6 DEF LiveMarked, SettledStored, Sectors
<1>8. ClusterTypeOK' /\ ExtentsDisjoint'
  BY <1>1, <1>3, <1>5 DEF ClusterInv, ClusterTypeOK, ExtentsDisjoint, Sectors
<1>9. /\ NoFallback' /\ UpdateOfJob' /\ SearchOfJob' /\ FoundOfJob' /\ JobApart' /\ WriteDone'
      /\ DoneSettled'
  BY <1>3, <1>4, <1>5 DEF NoFallback, UpdateOfJob, SearchOfJob, FoundOfJob, JobApart, WriteDone,
       DoneSettled, UpdateDone
<1> QED
  BY <1>7, <1>8, <1>9 DEF ClusterInv

\* When nothing happens, nothing changes.
LEMMA StutterInv ==
  ASSUME ClusterInv, UNCHANGED allvars
  PROVE  ClusterInv'
<1>1. FilesOK /\ CallOK
  BY TypeParts DEF ClusterInv, ClusterTypeOK
<1>2. UNCHANGED vars /\ UNCHANGED held /\ UNCHANGED <<live, fresh, doubtful, job>>
  BY DEF allvars, cvars, held
<1>3. /\ Quiet /\ marks' = marks /\ pc' = pc /\ req' = req /\ ite' = ite /\ begin' = begin
      /\ status' = status /\ (indexRw' <=> indexRw)
  BY <1>1, <1>2, StutterEffect DEF Quiet
<1>4. stored' = stored
  BY <1>2 DEF vars
<1>5. CallOK'
  <2>1. used' \in BOOLEAN /\ indexRw' \in BOOLEAN
    BY <1>1, <1>2, Zenon DEF vars, CallOK
  <2> QED
    BY <1>1, <1>3, <2>1 DEF CallOK
<1>6. ClusterTypeOK' /\ ExtentsDisjoint' /\ LiveMarked' /\ SettledStored'
  BY <1>2, <1>3, <1>5, QuietKeeps DEF ClusterInv, ClusterTypeOK
<1>7. NoFallback' /\ UpdateOfJob' /\ SearchOfJob' /\ FoundOfJob' /\ JobApart' /\ WriteDone'
  BY <1>2, <1>3 DEF ClusterInv, NoFallback, UpdateOfJob, SearchOfJob, FoundOfJob, JobApart,
       WriteDone, Sectors, Aligned
<1>8. DoneSettled'
  <2>1. Settled(job.extent)' = Settled(job.extent)
    BY <1>2 DEF Settled, Sectors, FilesOf, FileOf
  <2> QED
    BY <1>2, <1>3, <1>4, <2>1 DEF ClusterInv, DoneSettled, UpdateDone, Sectors
<1> QED
  BY <1>6, <1>7, <1>8 DEF ClusterInv

\* The invariant is inductive.
LEMMA ClusterInvariant ==
  ASSUME IndexHolds
  PROVE  ClusterSpec => []ClusterInv
<1>1. ClusterInit => ClusterInv
  <2> SUFFICES ASSUME ClusterInit
               PROVE  ClusterInv
    OBVIOUS
  <2>1. TypeOK
    BY BitmapTypeInit DEF ClusterInit
  <2>2. pc = "idle" /\ ~indexRw /\ live = {} /\ fresh = {} /\ doubtful = {} /\ job = NoJob
    BY Zenon DEF ClusterInit, BitmapInit
  <2>3. job.op = "none" /\ job \in [op : {"none", "find", "write", "rewrite", "erase"}, extent : Extents]
    BY <2>2 DEF NoJob, Extent, Extents
  <2> QED
    BY <2>1, <2>2, <2>3 DEF ClusterInv, ClusterTypeOK, ExtentsDisjoint, LiveMarked, NoFallback,
         UpdateOfJob, SearchOfJob, FoundOfJob, JobApart, WriteDone, SettledStored, DoneSettled,
         UpdateDone
<1>2. ClusterInv /\ [ClusterNext]_allvars => ClusterInv'
  <2> SUFFICES ASSUME ClusterInv, [ClusterNext]_allvars
               PROVE  ClusterInv'
    OBVIOUS
  <2>1. CASE ClusterCall
    <3>1. CASE \E n \in Sizes : GetFreeCluster(n)
      BY <3>1, GetFreeClusterInv
    <3>2. ASSUME NEW e \in live, Rewrite(e)
          PROVE  ClusterInv'
      BY <3>2, RewriteInv
    <3>3. ASSUME NEW e \in live, NEW k \in 1 .. e.num, EraseBitmap(e, k)
          PROVE  ClusterInv'
      BY <3>3, EraseBitmapInv
    <3>4. CASE WriteFound
      BY <3>4, WriteFoundInv
    <3>5. CASE Diskread \/ \E e \in live : Someusedrange(e)
      BY <3>5, QuietInv
    <3> QED
      BY <2>1, <3>1, <3>2, <3>3, <3>4, <3>5 DEF ClusterCall
  <2>2. CASE ClusterReturn
    BY <2>2, ReturnInv
  <2>3. CASE ClusterReopen
    BY <2>3, QuietInv
  <2>4. CASE BitmapStep /\ UNCHANGED cvars
    BY <2>4, MaskStepInv, SearchStepInv DEF BitmapStep
  <2>5. CASE ClusterCrash
    BY <2>5, ClusterCrashInv
  <2>6. CASE UNCHANGED allvars
    BY <2>6, StutterInv
  <2> QED
    BY <2>1, <2>2, <2>3, <2>4, <2>5, <2>6 DEF ClusterNext, Steady
<1> QED
  BY <1>1, <1>2, PTL DEF ClusterSpec

\* Type correctness of the client and the bitmap together.
THEOREM ClusterTypes ==
  ASSUME IndexHolds
  PROVE  ClusterSpec => []ClusterTypeOK
<1>1. ClusterInv => ClusterTypeOK
  BY DEF ClusterInv
<1> QED
  BY <1>1, ClusterInvariant, PTL

\* fs_cluster.h:39-57: two extents a client holds never share a sector, whatever
\* it does with the clusters it finds and whatever fails, as long as the index files do
\* not: then a search may return a cluster it has not looked at.
THEOREM ExtentsNeverOverlap ==
  ASSUME IndexHolds
  PROVE  ClusterSpec => []ExtentsDisjoint
<1>1. ClusterInv => ExtentsDisjoint
  BY DEF ClusterInv
<1> QED
  BY <1>1, ClusterInvariant, PTL

\* fs_cluster.h:39-45: no update, failed update or crash clears a bit of an extent that
\* a client goes on with: after a crash those are all but the ones whose meta files no
\* later call that succeeded has worked on.
THEOREM LiveStayMarked ==
  ASSUME IndexHolds
  PROVE  ClusterSpec => []LiveMarked
<1>1. ClusterInv => LiveMarked
  BY DEF ClusterInv
<1> QED
  BY <1>1, ClusterInvariant, PTL
-----------------------------------------------------------------------------
\* An erase that succeeded has left no bit of the extent it was told to clear,
\* and what is rewritten is the client's.
EraseDone ==
  job.op = "erase" /\ pc = "idle" /\ status = "success" => Sectors(job.extent) \cap marks = {}
RewriteLive == job.op = "rewrite" => job.extent \in live

AccountInv == Accounted /\ EraseDone /\ RewriteLive

\* The two parts of an extent make up the whole.
LEMMA SplitCovers ==
  ASSUME NEW e \in Extents, NEW k \in 1 .. e.num
  PROVE  /\ k < e.num => Sectors(e) \subseteq Sectors(Extent(e.first, k))
                           \cup Sectors(Extent(e.first + k, e.num - k))
         /\ k = e.num => Sectors(e) = Sectors(Extent(e.first, k))
<1> DEFINE P == SectorsPerCluster
           f == e.first
           n == e.num
<1>1. P \in Nat \ {0} /\ bpb_offset \in Nat /\ f \in Nat /\ n \in Nat \ {0}
        /\ k \in Nat \ {0} /\ k <= n
  BY ClusterAssumption DEF Extents
<1> DEFINE a == bpb_offset + f * P
           kp == k * P
           np == n * P
<1>2. a \in Nat /\ kp \in Nat /\ np \in Nat
  <2>1. f * P \in Nat /\ k * P \in Nat /\ n * P \in Nat
    BY <1>1
  <2> QED
    BY <2>1, <1>1
<1>3. bpb_offset + (f + k) * P = a + kp /\ (n - k) * P = np - kp
  <2>1. (f + k) * P = f * P + k * P /\ (n - k) * P = n * P - k * P /\ f * P \in Nat /\ k * P \in Nat
    BY <1>1
  <2> QED
    BY <2>1, <1>1
<1>4. Sectors(e) = a .. a + np - 1 /\ Sectors(Extent(f, k)) = a .. a + kp - 1
  BY DEF Sectors, Extent, Getsector, Range0
<1>5. Sectors(Extent(f + k, n - k)) = a + kp .. a + kp + (np - kp) - 1
  BY <1>3 DEF Sectors, Extent, Getsector, Range0
<1>6. k = n => kp = np
  OBVIOUS
<1> HIDE DEF a, kp, np
<1> QED
  BY <1>2, <1>4, <1>5, <1>6

\* No step of a client that does not crash loses sight of a bit.
LEMMA SteadyStep ==
  ASSUME ClusterInv, ClusterInv', AccountInv, Steady
  PROVE  AccountInv'
<1> DEFINE Known(extents) == \A s \in marks : s < RegionBits => \E e \in extents : s \in Sectors(e)
<1>1. \A extents : Accounted /\ live \cup doubtful \cup InWork \subseteq extents => Known(extents)
  BY DEF Accounted
<1>2. Known(live \cup doubtful \cup InWork)
  BY <1>1 DEF AccountInv
<1>3. ASSUME UNCHANGED marks, Known((live \cup doubtful \cup InWork)')
      PROVE  Accounted'
  BY <1>3 DEF Accounted, Sectors
<1> HIDE DEF Known
<1>4. CASE \E n \in Sizes : GetFreeCluster(n)
  <2>1. UNCHANGED <<marks, live, doubtful>> /\ job.op = "none" /\ job'.op = "find"
    BY <1>4 DEF GetFreeCluster, GetmaskFreesector, Start, Job, NoJob, held
  <2>2. Known((live \cup doubtful \cup InWork)')
    BY <1>2, <2>1 DEF InWork
  <2> QED
    BY <1>3, <2>1, <2>2 DEF AccountInv, EraseDone, RewriteLive
<1>5. CASE WriteFound
  <2> DEFINE e == Extent(Getcluster(begin), job.extent.num)
  <2>1. /\ UNCHANGED <<live, doubtful>> /\ job.op = "find" /\ job' = Job("write", e)
        /\ DiskwithBitmapWrite(Getsector(e.first), e.num * SectorsPerCluster)
    BY <1>5 DEF WriteFound, held
  <2>2. UNCHANGED marks /\ job'.op = "write"
    BY <2>1 DEF Job, DiskwithBitmapWrite
  <2>3. Known((live \cup doubtful \cup InWork)')
    <3>1. live \cup doubtful \cup InWork \subseteq (live \cup doubtful \cup InWork)'
      BY <2>1 DEF InWork
    <3> QED
      BY <1>1, <3>1 DEF AccountInv
  <2> QED
    BY <1>3, <2>2, <2>3 DEF AccountInv, EraseDone, RewriteLive
<1>6. ASSUME NEW e \in live, Rewrite(e)
      PROVE  AccountInv'
  <2>1. /\ UNCHANGED <<live, doubtful>> /\ job.op = "none" /\ job' = Job("rewrite", e)
        /\ DiskwithBitmapWrite(Getsector(e.first), e.num * SectorsPerCluster)
    BY <1>6 DEF Rewrite, Start, NoJob, held
  <2>2. UNCHANGED marks /\ job'.op = "rewrite" /\ job'.extent = e
    BY <2>1 DEF Job, DiskwithBitmapWrite
  <2>3. Known((live \cup doubtful \cup InWork)')
    <3>1. live \cup doubtful \cup InWork \subseteq (live \cup doubtful \cup InWork)'
      BY <2>1 DEF InWork
    <3> QED
      BY <1>1, <3>1 DEF AccountInv
  <2> QED
    BY <1>3, <2>1, <2>2, <2>3 DEF AccountInv, EraseDone, RewriteLive
<1>7. ASSUME NEW e \in live, NEW k \in 1 .. e.num, EraseBitmap(e, k)
      PROVE  AccountInv'
  <2> DEFINE head == Extent(e.first, k)
             rest == IF k < e.num THEN {Extent(e.first + k, e.num - k)} ELSE {}
  <2>1. /\ job = NoJob /\ job' = Job("erase", head) /\ UNCHANGED <<doubtful, marks>>
        /\ live' = (live \ {e}) \cup rest /\ pc' = "mask"
    BY <1>7 DEF EraseBitmap, Start, DiskwithBitmapErase
  <2>2. job'.op = "erase" /\ InWork = {} /\ InWork' = {head}
    BY <2>1 DEF Job, NoJob, InWork
  <2>3. \A s \in Sectors(e) : \E f \in rest \cup {head} : s \in Sectors(f)
    <3>1. e \in Extents /\ k <= e.num /\ k \in Nat /\ e.num \in Nat
      BY DEF ClusterInv, ClusterTypeOK, Extents
    <3>2. CASE k < e.num
      BY <3>1, <3>2, SplitCovers
    <3>3. CASE k = e.num
      BY <3>1, <3>3, SplitCovers
    <3> QED
      BY <3>1, <3>2, <3>3
  <2> HIDE DEF head, rest
  <2>4. Known((live \cup doubtful \cup InWork)')
    BY <1>2, <2>1, <2>2, <2>3 DEF Known
  <2> QED
    BY <1>3, <2>1, <2>2, <2>4 DEF AccountInv, EraseDone, RewriteLive
<1>8. CASE ClusterReturn
  <2>1. pc = "idle" /\ UNCHANGED marks /\ job' = NoJob /\ job'.op = "none"
    BY <1>8 DEF ClusterReturn, NothingFound, Written, Rewritten, Erased, Finish, vars, NoJob
  <2>2. InWork' = {}
    BY <2>1 DEF InWork
  <2>3. CASE NothingFound
    <3>1. job.op = "find" /\ UNCHANGED <<live, doubtful>>
      BY <2>3 DEF NothingFound, Finish, held
    <3>2. InWork = {}
      BY <3>1 DEF InWork
    <3> QED
      BY <1>2, <1>3, <2>1, <2>2, <3>1, <3>2 DEF AccountInv, EraseDone, RewriteLive
  <2>4. CASE Written \/ Rewritten \/ (Erased /\ status # "success")
    <3>1. live \cup doubtful \cup InWork \subseteq (live \cup doubtful)'
      BY <2>4 DEF Written, Rewritten, Erased, Finish, InWork, AccountInv, RewriteLive
    <3>2. Known((live \cup doubtful \cup InWork)')
      BY <1>1, <2>2, <3>1 DEF AccountInv
    <3> QED
      BY <1>3, <2>1, <3>2 DEF AccountInv, EraseDone, RewriteLive
  <2>5. CASE Erased /\ status = "success"
    <3>1. job.op = "erase" /\ UNCHANGED <<live, doubtful>>
      BY <2>5 DEF Erased, Finish
    <3>2. Sectors(job.extent) \cap marks = {} /\ InWork = {job.extent}
      BY <2>1, <2>5, <3>1 DEF AccountInv, EraseDone, InWork
    <3>3. Known((live \cup doubtful \cup InWork)')
      BY <1>2, <2>2, <3>1, <3>2 DEF Known
    <3> QED
      BY <1>3, <2>1, <3>3 DEF AccountInv, EraseDone, RewriteLive
  <2> QED
    BY <1>8, <2>3, <2>4, <2>5 DEF ClusterReturn
<1>9. CASE ClusterReopen \/ Diskread \/ \E e \in live : Someusedrange(e)
  <2>1. UNCHANGED <<marks, live, doubtful, job>> /\ job = NoJob
    BY <1>9, Zenon DEF ClusterReopen, Diskread, Someusedrange, GetmaskSomeused,
         DiskwithBitmapRead, CloseAndOpen, cvars, held
  <2>2. UNCHANGED <<live, doubtful, job>> /\ job.op = "none"
    BY <2>1 DEF NoJob
  <2>3. Known((live \cup doubtful \cup InWork)')
    BY <1>2, <2>1, <2>2 DEF InWork
  <2> QED
    BY <1>3, <2>1, <2>2, <2>3 DEF AccountInv, EraseDone, RewriteLive
<1>10. CASE SearchStep /\ UNCHANGED cvars
  <2>1. UNCHANGED <<marks, live, doubtful, job>>
    BY <1>10, SearchEffect DEF ClusterInv, ClusterTypeOK, Quiet, cvars, held
  <2>2. pc = "search"
    BY <1>10, SearchEffect DEF ClusterInv, ClusterTypeOK, NoFallback
  <2>3. job.op = "find"
    BY <2>2 DEF ClusterInv, SearchOfJob
  <2>4. Known((live \cup doubtful \cup InWork)')
    BY <1>2, <2>1 DEF InWork
  <2> QED
    BY <1>3, <2>1, <2>3, <2>4 DEF AccountInv, EraseDone, RewriteLive
<1>11. CASE MaskStep /\ UNCHANGED cvars
  <2>1. UNCHANGED <<live, doubtful, job>>
    BY <1>11 DEF cvars, held
  <2>2. FilesOK /\ CallOK /\ job.extent \in Extents /\ pc = "mask"
    BY <1>11, TypeParts, MaskEnds DEF ClusterInv, ClusterTypeOK
  <2>3. /\ job.op \in {"write", "rewrite", "erase"}
        /\ req.op = IF job.op = "erase" THEN "clear" ELSE "set"
        /\ req.begin = Getsector(job.extent.first)
        /\ req.num = job.extent.num * SectorsPerCluster
    BY <2>2 DEF ClusterInv, UpdateOfJob
  <2>4. MaskedSectors(req.begin, req.num) = Sectors(job.extent) /\ req.begin \notin Reserved
    BY <2>2, <2>3, ExtentMasked, ExtentSectors, SectorBitsType DEF Reserved, Range0
  <2>5. InWork = {job.extent} /\ InWork' = {job.extent}
    BY <2>1, <2>3 DEF InWork
  <2>6. \A s \in marks' : s < RegionBits => s \in marks \cup Sectors(job.extent)
    BY <1>11, <2>2, <2>4, MaskChanges
  <2>7. Accounted'
    <3>1. \A s \in marks' : s < RegionBits => \E e \in live \cup doubtful \cup InWork : s \in Sectors(e)
      BY <1>2, <2>5, <2>6 DEF Known
    <3> QED
      BY <2>1, <2>5, <3>1 DEF Accounted, Sectors
  <2>8. EraseDone'
    BY <1>11, <2>1, <2>2, <2>3, <2>4, MaskChanges DEF EraseDone, Sectors
  <2>9. RewriteLive'
    BY <2>1 DEF AccountInv, RewriteLive
  <2> QED
    BY <2>7, <2>8, <2>9 DEF AccountInv
<1> QED
  BY <1>4, <1>5, <1>6, <1>7, <1>8, <1>9, <1>10, <1>11 DEF Steady, ClusterCall, BitmapStep

\* fs_cluster.h:39-57: without crashes nothing leaks.  Every set bit of the first
\* file is of an extent that the client holds, doubts or has a call under way on.
THEOREM NothingLeaks ==
  ASSUME IndexHolds
  PROVE  SteadySpec => []Accounted
<1>1. SteadySpec => ClusterSpec
  <2>1. [Steady]_allvars => [ClusterNext]_allvars
    BY DEF ClusterNext
  <2> QED
    BY <2>1, PTL DEF SteadySpec, ClusterSpec
<1>2. SteadySpec => []ClusterInv
  BY <1>1, ClusterInvariant, PTL
<1>3. ClusterInit => AccountInv
  BY DEF ClusterInit, BitmapInit, AccountInv, Accounted, EraseDone, RewriteLive, NoJob
<1>4. ClusterInv /\ ClusterInv' /\ AccountInv /\ [Steady]_allvars => AccountInv'
  <2>1. ClusterInv /\ ClusterInv' /\ AccountInv /\ Steady => AccountInv'
    BY SteadyStep
  <2>2. AccountInv /\ UNCHANGED allvars => AccountInv'
    BY DEF AccountInv, Accounted, EraseDone, RewriteLive, InWork, Sectors, allvars, vars, cvars, held
  <2> QED
    BY <2>1, <2>2
<1>5. AccountInv => Accounted
  BY DEF AccountInv
<1> QED
  BY <1>2, <1>3, <1>4, <1>5, PTL DEF SteadySpec
=============================================================================
