--------------------------- MODULE Fat16Format ---------------------------
(***************************************************************************)
(* Fat16Format of the VFAT format library (src/lib/fslib/vfatlib/fat16.c) *)
(* and the three writers it calls. The geometry of the volume is computed *)
(* from the inputs by operators; each NtWriteFile and each heap           *)
(* allocation is a step that may fail. A write is recorded as an extent:  *)
(* its first sector, its number of sectors, and whether its first sector  *)
(* starts with the FAT media marker (F8 FF FF FF).                        *)
(***************************************************************************)
EXTENDS Integers, FiniteSets, Sequences, SequencesExt

CONSTANTS
    PartitionLengths,      \* PartitionInfo->PartitionLength.QuadPart, bytes
    BytesPerSectorValues,  \* DiskGeometry->BytesPerSector
    ClusterSizes           \* the ClusterSize argument; 0 chooses one

BufferSize == 32 * 1024

VARIABLES
    len, bps, csize,   \* the inputs
    pc,                \* "boot", "fatStart", "fatLoop", "rootStart", "rootLoop", "done"
    copy,              \* which FAT copy Fat16WriteFAT is writing (0 or 1)
    i, Sectors,        \* the loop locals of Fat16WriteFAT / Fat16WriteRootDirectory
    bufMarked,         \* the buffer starts with the media marker
    heap,              \* heap buffers allocated and not yet freed
    writes,            \* the extents written, in order
    progress,          \* the sum of the UpdateProgress calls
    Status             \* "pending", "success" or "failure"

vars == <<len, bps, csize, pc, copy, i, Sectors, bufMarked, heap, writes,
          progress, Status>>

\* Lines 16-28.
RECURSIVE ShiftLoop(_, _)
ShiftLoop(value, k) == IF value > 0 THEN ShiftLoop(value \div 2, k + 1) ELSE k

\* Mutant: the loop count is returned one too high.
GetShiftCountOff(value) == ShiftLoop(value, 1) - 1

GetShiftCount(value) == ShiftLoop(value, 1) - 2

\* Lines 292-314: the cluster size chosen by partition length.
ClusterSizeOf(l, c) ==
    IF c # 0 THEN c
    ELSE IF l < 16 * 2^20 THEN 1024
    ELSE IF l < 128 * 2^20 THEN 2048
    ELSE IF l < 256 * 2^20 THEN 4096
    ELSE 8192

\* The boot sector fields, lines 316-361.
SectorCount == len \div 2^GetShiftCount(bps)
SectorsPerCluster == (ClusterSizeOf(len, csize) \div bps) % 256
ReservedSectors == 1
FATCount == 2
RootEntries == 512
SectorsField == IF SectorCount < 65536 THEN SectorCount ELSE 0
SectorsHuge == IF SectorCount >= 65536 THEN SectorCount ELSE 0
RootDirSectors == (RootEntries * 32 + (bps - 1)) \div bps

FATSectors ==
    LET TmpVal1 == SectorCount - (ReservedSectors + RootDirSectors)
        TmpVal2 == (bps \div 2) * SectorsPerCluster + FATCount
    IN  ((TmpVal1 + (TmpVal2 - 1)) \div TmpVal2) % 65536

\* Lines 365-366.
TotalSectorCount == 1 + FATSectors * 2 + RootDirSectors

\* Line 220-221.
FirstRootDirSector == ReservedSectors + FATCount * FATSectors

Extent(first, count, marked) == [first |-> first, count |-> count, marked |-> marked]

\* Fat16Format up to its first call. Inputs are the FAT16 range VfatFormat
\* hands over (see the cfg).
Init ==
    /\ len \in PartitionLengths
    /\ bps \in BytesPerSectorValues
    /\ csize \in ClusterSizes
    /\ pc = "boot"
    /\ copy = 0 /\ i = 0 /\ Sectors = 0
    /\ bufMarked = FALSE
    /\ heap = 0
    /\ writes = <<>>
    /\ progress = 0
    /\ Status = "pending"

\* A step of the format ends it with an error status; nothing is written.
Fail == /\ pc' = "done" /\ Status' = "failure"
        /\ UNCHANGED <<writes, progress, i, Sectors, bufMarked>>

\* Fat16WriteBootSector and the check after it (lines 52-104, 368-375).
WriteBootSector ==
    /\ pc = "boot"
    /\ \/ Fail      \* RtlAllocateHeap or NtWriteFile fails
       \/ /\ writes' = Append(writes, Extent(0, 1, FALSE))
          /\ progress' = progress + 1
          /\ pc' = "fatStart"
          /\ UNCHANGED <<Status, i, Sectors, bufMarked>>
    /\ UNCHANGED <<len, bps, csize, copy, heap>>

\* Mutant: the start of the buffer is not zeroed after the first sector.
FatStartNoMemset ==
    /\ pc = "fatStart"
    /\ \/ Fail /\ UNCHANGED heap
          \* RtlAllocateHeap fails, or the first NtWriteFile fails and the
          \* buffer is freed
       \/ /\ writes' = Append(writes,
                          Extent(copy * FATSectors + ReservedSectors, 1, TRUE))
          /\ progress' = progress + 1
          /\ heap' = heap + 1
          /\ bufMarked' = TRUE
          /\ i' = 1
          /\ Sectors' = BufferSize \div bps
          /\ pc' = "fatLoop"
          /\ UNCHANGED Status
    /\ UNCHANGED <<len, bps, csize, copy>>

\* Fat16WriteFAT up to its loop (lines 121-162), called for the first copy
\* at SectorOffset 0 and for the second at FATSectors (lines 377-397).
FatStart ==
    /\ pc = "fatStart"
    /\ \/ Fail /\ UNCHANGED heap
          \* RtlAllocateHeap fails, or the first NtWriteFile fails and the
          \* buffer is freed
       \/ /\ writes' = Append(writes,
                          Extent(copy * FATSectors + ReservedSectors, 1, TRUE))
          /\ progress' = progress + 1
          /\ heap' = heap + 1
          /\ bufMarked' = FALSE          \* memset(Buffer, 0, 4)
          /\ i' = 1
          /\ Sectors' = BufferSize \div bps
          /\ pc' = "fatLoop"
          /\ UNCHANGED Status
    /\ UNCHANGED <<len, bps, csize, copy>>

\* The chunk length of a loop iteration, clamped to what remains.
Clamp(total) == IF total - i <= Sectors THEN total - i ELSE Sectors

\* Mutant: a failing chunk write returns without freeing the buffer.
FatChunkLeaks ==
    /\ pc = "fatLoop"
    /\ i < FATSectors
    /\ \/ Fail /\ UNCHANGED heap
       \/ /\ writes' = Append(writes, Extent(copy * FATSectors + ReservedSectors + i,
                                             Clamp(FATSectors), bufMarked))
          /\ progress' = progress + Clamp(FATSectors)
          /\ Sectors' = Clamp(FATSectors)
          /\ i' = i + Clamp(FATSectors)
          /\ UNCHANGED <<pc, Status, heap, bufMarked>>
    /\ UNCHANGED <<len, bps, csize, copy>>

\* One iteration of the loop that zeroes the rest of the FAT (lines 163-190).
FatChunk ==
    /\ pc = "fatLoop"
    /\ i < FATSectors
    /\ \/ Fail /\ heap' = heap - 1
       \/ /\ writes' = Append(writes, Extent(copy * FATSectors + ReservedSectors + i,
                                             Clamp(FATSectors), bufMarked))
          /\ progress' = progress + Clamp(FATSectors)
          /\ Sectors' = Clamp(FATSectors)
          /\ i' = i + Clamp(FATSectors)
          /\ UNCHANGED <<pc, Status, heap, bufMarked>>
    /\ UNCHANGED <<len, bps, csize, copy>>

\* The loop ends: the buffer is freed and Fat16Format goes on to the second
\* copy or to the root directory (lines 192-195, 382-397).
FatEnd ==
    /\ pc = "fatLoop"
    /\ ~(i < FATSectors)
    /\ heap' = heap - 1
    /\ IF copy = 0 THEN pc' = "fatStart" /\ copy' = 1
                   ELSE pc' = "rootStart" /\ UNCHANGED copy
    /\ UNCHANGED <<len, bps, csize, i, Sectors, bufMarked, writes, progress, Status>>

\* Fat16WriteRootDirectory up to its loop (lines 213-236).
RootStart ==
    /\ pc = "rootStart"
    /\ \/ Fail /\ UNCHANGED heap   \* RtlAllocateHeap fails
       \/ /\ heap' = heap + 1
          /\ i' = 0
          /\ Sectors' = BufferSize \div bps
          /\ pc' = "rootLoop"
          /\ UNCHANGED <<Status, bufMarked, writes, progress>>
    /\ UNCHANGED <<len, bps, csize, copy>>

\* One iteration of the loop that zeroes the root directory (lines 237-264).
RootChunk ==
    /\ pc = "rootLoop"
    /\ i < RootDirSectors
    /\ \/ Fail /\ heap' = heap - 1
       \/ /\ writes' = Append(writes, Extent(FirstRootDirSector + i,
                                             Clamp(RootDirSectors), FALSE))
          /\ progress' = progress + Clamp(RootDirSectors)
          /\ Sectors' = Clamp(RootDirSectors)
          /\ i' = i + Clamp(RootDirSectors)
          /\ UNCHANGED <<pc, Status, heap, bufMarked>>
    /\ UNCHANGED <<len, bps, csize, copy>>

\* The loop ends, the buffer is freed and Fat16Format returns (lines 266-269,
\* 399-412; QuickFormat or not, nothing more is written).
RootEnd ==
    /\ pc = "rootLoop"
    /\ ~(i < RootDirSectors)
    /\ heap' = heap - 1
    /\ pc' = "done"
    /\ Status' = "success"
    /\ UNCHANGED <<len, bps, csize, copy, i, Sectors, bufMarked, writes, progress>>

Next ==
    \/ WriteBootSector
    \/ FatStart
    \/ FatChunk
    \/ FatEnd
    \/ RootStart
    \/ RootChunk
    \/ RootEnd

Spec == Init /\ [][Next]_vars

-----------------------------------------------------------------------------
\* The sectors an extent covers.
Covered(e) == e.first .. e.first + e.count - 1

\* A successful format has written exactly its layout: the boot sector, two
\* FAT copies and the root directory, sectors 0 .. TotalSectorCount - 1, each
\* sector once, inside the partition; the media marker only at the first sector of each FAT copy;
\* and the progress reported reaches Context->TotalSectorCount exactly.
\* It rests on the chunk loops' clamping, the loop starts, the SectorOffset
\* of the second copy, the memset after the first FAT sector and the status
\* checks between the writers.
FormatLayout ==
    (pc = "done" /\ Status = "success") =>
        /\ \A a, b \in DOMAIN writes :
             a # b => Covered(writes[a]) \cap Covered(writes[b]) = {}
        /\ UNION {Covered(writes[k]) : k \in DOMAIN writes}
             = 0 .. TotalSectorCount - 1
        /\ TotalSectorCount <= SectorCount
        /\ {writes[k].first : k \in {k \in DOMAIN writes : writes[k].marked}}
             = {ReservedSectors, ReservedSectors + FATSectors}
        /\ progress = TotalSectorCount

\* The boot sector describes the partition: the sector count, computed by
\* shifting with GetShiftCount to avoid a 64-bit division, is the partition
\* length in sectors, and it is stored in Sectors below 0x10000 sectors and
\* in SectorsHuge from there, never in both.
VolumeGeometry ==
    /\ SectorCount = len \div bps
    /\ SectorsField + SectorsHuge = SectorCount
    /\ SectorsField = 0 \/ SectorsHuge = 0

\* Every heap buffer a writer allocates is freed on every path out of it,
\* the failure paths included.
HeapBalanced == pc \in {"boot", "fatStart", "rootStart", "done"} => heap = 0
====
