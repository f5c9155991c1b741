-------------------------------- MODULE Fat12 --------------------------------
(***************************************************************************)
(* cOS/boot/boot.asm and cOS/boot/loader.asm up to Label_File_Loaded: the  *)
(* boot sector finds LOADER.BIN on a FAT12 floppy and runs it; the loader  *)
(* finds KERNEL.BIN by a copy of the same code and moves it to 1 MB.       *)
(*                                                                         *)
(* A sector's data is named by the sector's number, so memory shows which  *)
(* sector was read into it; the directory and the FAT are modelled by what *)
(* the code reads from them.  A file position counts clusters, which are   *)
(* one sector each.                                                        *)
(***************************************************************************)
EXTENDS Integers, Sequences

CONSTANTS
    Disks,                      \* the floppies, see DiskAssumption
    BytesPerSec,                \* BPB_BytesPerSec: 512
    SecPerTrk,                  \* BPB_SecPerTrk: 18
    TotSec,                     \* BPB_TotSec16: 2880
    SectorNumOfFAT1Start,       \* 1
    SectorNumOfRootDirStart,    \* 19
    RootDirSectors,             \* 14
    SectorBalance,              \* 17
    EntriesPerSec,              \* directory entries in a sector: 16
    SegmentClusters,            \* clusters in 64 KB, where bx wraps: 128
    MaxClusters                 \* bound on the clusters followed of one file

Names == {"LOADER", "KERNEL"}
EndOfChain == 4095
Word == 0 .. 65535

\* root is the directory, fat the entries of the table, bad the sectors no
\* read of which succeeds, and files the clusters the two files were
\* written to, which only the properties look at.
IsFloppy(d) ==
    /\ d.root \in [1 .. RootDirSectors -> [1 .. EntriesPerSec ->
                      [name : Names \cup {"other"}, cluster : Word]]]
    /\ DOMAIN d.fat \subseteq 0 .. EndOfChain
    /\ d.fat \in [DOMAIN d.fat -> 0 .. EndOfChain]
    /\ d.bad \subseteq 0 .. (TotSec - 1)
    /\ d.files \in [Names -> Seq(Nat)]

ASSUME DiskAssumption == \A d \in Disks : IsFloppy(d)

VARIABLES
    disk,
    who,                    \* "boot" or "loader"
    stage,                  \* what it is about: "root", "load", "fat",
                            \* "loaded", "lost" (stopped or run wild)
    SectorNo, RootDirSizeForLoop,       \* words of the one that runs
    cluster,                \* ax, the cluster at hand
    at,                     \* clusters stored: bx, OffsetOfKernelFileCount
    segment,                \* what the 64 KB at 0x10000 hold, by cluster
    at7e00,                 \* the cluster last read to 0x7e00
    kernel                  \* what 1 MB and on hold, by cluster

fatVars == <<disk, who, stage, SectorNo, RootDirSizeForLoop, cluster, at,
             segment, at7e00, kernel>>

-----------------------------------------------------------------------------
(***************************************************************************)
(* The floppy, and FAT12's way to pack two entries into three bytes.       *)
(***************************************************************************)
Heads == 2
DriveSector(chs) == (chs.track * Heads + chs.head) * SecPerTrk + (chs.sector - 1)

FatEntry(d, n) == IF n \in DOMAIN d.fat THEN d.fat[n] ELSE 0
FatByte(d, k) ==
    LET even == FatEntry(d, 2 * (k \div 3))
        odd == FatEntry(d, 2 * (k \div 3) + 1)
    IN  CASE k % 3 = 0 -> even % 256
          [] k % 3 = 1 -> (even \div 256) + 16 * (odd % 16)
          [] k % 3 = 2 -> odd \div 16

(***************************************************************************)
(* Func_ReadOneSector.  It asks again until the drive has no error.        *)
(***************************************************************************)
Chs(s) ==
    LET track == s \div SecPerTrk
    IN  [track |-> track \div 2, head |-> track % 2, sector |-> (s % SecPerTrk) + 1]

Reads(s) == DriveSector(Chs(s)) \in (0 .. (TotSec - 1)) \ disk.bad

(***************************************************************************)
(* Func_GetFATEntry.  An entry may straddle two sectors: both are read.    *)
(***************************************************************************)
EntryOffset(n) == (n * 3) \div 2
SectorsRead_One == 1
SectorsRead == 2
FatSector(n) == SectorNumOfFAT1Start + (EntryOffset(n) \div BytesPerSec)
FatSectors(n) == FatSector(n) .. (FatSector(n) + SectorsRead - 1)

\* What the buffer holds beyond the sectors read is of no use: 0.
BufferByte(n, k) ==
    IF k < SectorsRead * BytesPerSec
    THEN FatByte(disk, (FatSector(n) - SectorNumOfFAT1Start) * BytesPerSec + k)
    ELSE 0

GetFATEntry(n) ==
    LET offset == EntryOffset(n) % BytesPerSec
        word == BufferByte(n, offset) + 256 * BufferByte(n, offset + 1)
    IN  IF (n * 3) % 2 = 1 THEN (word \div 16) % 4096 ELSE word % 4096

\* Where the BPB puts the FATs, the directory and the clusters, the first of
\* which is cluster 2: 0xfff names no cluster of the floppy.
FirstDataSector == SectorNumOfRootDirStart + RootDirSectors

ASSUME GeometryAssumption ==
    /\ {TotSec, SectorNumOfFAT1Start, SectorNumOfRootDirStart, RootDirSectors, EntriesPerSec}
           \subseteq Nat
    /\ {BytesPerSec, SecPerTrk, SegmentClusters, MaxClusters} \subseteq Nat \ {0}
    /\ SectorBalance = SectorNumOfRootDirStart - 2
    /\ FatSector(EndOfChain) + SectorsRead <= SectorNumOfRootDirStart
    /\ FirstDataSector <= TotSec
    /\ TotSec <= FirstDataSector + EndOfChain - 2

-----------------------------------------------------------------------------
(***************************************************************************)
(* Label_Search_In_Root_Dir_Begin: one sector of the root directory.  The  *)
(* first entry with the name is taken; an empty entry ends nothing.        *)
(***************************************************************************)
Wanted == IF who = "boot" THEN "LOADER" ELSE "KERNEL"
RootSector(s) == disk.root[DriveSector(Chs(s)) - SectorNumOfRootDirStart + 1]
Found(s) == {n \in 1 .. EntriesPerSec : RootSector(s)[n].name = Wanted}

NotInRoot ==
    /\ stage = "root"
    /\ RootDirSizeForLoop = 0
    /\ stage' = "lost"
    /\ UNCHANGED <<disk, who, SectorNo, RootDirSizeForLoop, cluster, at,
                   segment, at7e00, kernel>>

SearchSector ==
    /\ stage = "root"
    /\ RootDirSizeForLoop # 0
    /\ Reads(SectorNo)
    /\ RootDirSizeForLoop' = RootDirSizeForLoop - 1
    /\ \/ /\ Found(SectorNo) = {}
          /\ SectorNo' = SectorNo + 1
          /\ UNCHANGED <<stage, cluster, at>>
       \/ \E n \in Found(SectorNo) :
            /\ \A m \in Found(SectorNo) : n <= m
            /\ cluster' = RootSector(SectorNo)[n].cluster
            /\ stage' = "load"
            /\ at' = 0
            /\ UNCHANGED SectorNo
    /\ UNCHANGED <<disk, who, segment, at7e00, kernel>>

(***************************************************************************)
(* Label_Go_On_Loading_File: the boot sector reads a cluster where it      *)
(* belongs, the loader reads it to 0x7e00 and moves it to 1 MB.            *)
(***************************************************************************)
SectorOf(c) == c + RootDirSectors + SectorBalance

LoadCluster ==
    /\ stage = "load"
    /\ Reads(SectorOf(cluster))
    /\ stage' = "fat"
    /\ LET data == DriveSector(Chs(SectorOf(cluster)))
       IN  \/ /\ who = "boot"
              /\ segment' = [segment EXCEPT ![at % SegmentClusters] = data]
              /\ UNCHANGED <<at7e00, kernel>>
           \/ /\ who = "loader"
              /\ at7e00' = data
              /\ kernel' = Append(kernel, data)
              /\ UNCHANGED segment
    /\ at' = at + 1
    /\ UNCHANGED <<disk, who, SectorNo, RootDirSizeForLoop, cluster>>

\* Only 0xfff ends a file.
NextCluster ==
    /\ stage = "fat"
    /\ \A s \in FatSectors(cluster) : Reads(s)
    /\ LET next == GetFATEntry(cluster)
       IN  \/ next = EndOfChain /\ stage' = "loaded" /\ UNCHANGED cluster
           \/ next # EndOfChain /\ at < MaxClusters /\ stage' = "load" /\ cluster' = next
    /\ UNCHANGED <<disk, who, SectorNo, RootDirSizeForLoop, at, segment, at7e00, kernel>>

\* Label_File_Loaded of boot.asm.  A file that wrapped around has overwritten
\* its first instructions.
StartLoader ==
    /\ who = "boot"
    /\ stage = "loaded"
    /\ IF at > SegmentClusters
       THEN /\ stage' = "lost"
            /\ UNCHANGED <<who, SectorNo, RootDirSizeForLoop>>
       ELSE /\ who' = "loader"
            /\ stage' = "root"
            /\ SectorNo' = SectorNumOfRootDirStart
            /\ RootDirSizeForLoop' = RootDirSectors
    /\ UNCHANGED <<disk, cluster, at, segment, at7e00, kernel>>

-----------------------------------------------------------------------------
FatInit ==
    /\ disk \in Disks
    /\ who = "boot"
    /\ stage = "root"
    /\ SectorNo = SectorNumOfRootDirStart
    /\ RootDirSizeForLoop = RootDirSectors
    /\ cluster = 0
    /\ at = 0
    /\ segment = [c \in 0 .. (SegmentClusters - 1) |-> 0]
    /\ at7e00 = 0
    /\ kernel = <<>>

FatNext == NotInRoot \/ SearchSector \/ LoadCluster \/ NextCluster \/ StartLoader

-----------------------------------------------------------------------------
(***************************************************************************)
(* What a disk has to be for the files on it to be loaded: its directory   *)
(* names each file's first cluster, the FAT links the clusters in order to *)
(* 0xfff, and every sector needed can be read.                             *)
(***************************************************************************)
DataOf(chain) == [k \in DOMAIN chain |-> FirstDataSector + chain[k] - 2]

Stores(d, name, chain) ==
    /\ chain # <<>>
    /\ \A k \in DOMAIN chain :
        /\ chain[k] \in DOMAIN d.fat
        /\ d.fat[chain[k]] = IF k = Len(chain) THEN EndOfChain ELSE chain[k + 1]
    /\ \E s \in DOMAIN d.root, n \in 1 .. EntriesPerSec : d.root[s][n].name = name
    /\ \A s \in DOMAIN d.root, n \in 1 .. EntriesPerSec :
        d.root[s][n].name = name => d.root[s][n].cluster = chain[1]
    /\ \A k \in DOMAIN chain : DataOf(chain)[k] \in (0 .. (TotSec - 1)) \ d.bad

Sound(d) ==
    /\ \A name \in Names : Stores(d, name, d.files[name])
    /\ d.bad \cap (0 .. (FirstDataSector - 1)) = {}
    /\ Len(d.files["LOADER"]) <= SegmentClusters
    /\ \A name \in Names : Len(d.files[name]) <= MaxClusters

Loaded ==
    /\ who = "loader" /\ stage = "loaded"
    /\ \A k \in DOMAIN disk.files["LOADER"] :
        segment[k - 1] = DataOf(disk.files["LOADER"])[k]
    /\ kernel = DataOf(disk.files["KERNEL"])

\* On the way to them no search fails, no sector is waited for that cannot be
\* read, and no chain goes on behind its file (boot.asm:48-222, and so again in
\* loader.asm).
NeverAstray ==
    Sound(disk) =>
        /\ stage # "lost"
        /\ stage = "root" => RootDirSizeForLoop # 0 /\ Reads(SectorNo)
        /\ stage = "load" => Reads(SectorOf(cluster))
        /\ stage = "fat" => /\ \A s \in FatSectors(cluster) : Reads(s)
                            /\ GetFATEntry(cluster) = EndOfChain \/ at < MaxClusters
        /\ who = "loader" /\ stage = "loaded" => Loaded

\* From a sound disk the loader and the kernel are both read, every sector of
\* them in its place, and neither search, chain nor conversion loses the way.
FilesLoaded == Sound(disk) ~> Loaded

=============================================================================
