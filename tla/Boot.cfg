CONSTANTS
    Disks <- MCDisks
    BytesPerSec = 512
    SecPerTrk = 18
    TotSec = 2880
    SectorNumOfFAT1Start = 1
    SectorNumOfRootDirStart = 19
    RootDirSectors = 14
    SectorBalance = 17
    EntriesPerSec = 16
    SegmentClusters = 128
    MaxClusters = 130
    BiosMaps <- MCBiosMaps
    Residues <- MCResidues
    RecordsIn <- MCRecordsIn
    VbeSlot <- MCVbeSlot
    end_brk = 2000000
SPECIFICATION Spec
INVARIANTS
    MapHandedOver
    LayoutIsSane
PROPERTIES
    FilesLoaded
CHECK_DEADLOCK FALSE
