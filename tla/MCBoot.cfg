SPECIFICATION Spec
CONSTANTS
    ApicBase <- MCApicBase
    PciIrqs = 24
    Computers <- MCComputers
    MaxKeys = 1
    KeyBytes <- MCKeyBytes
    SectorUnits = 4
    RegionUnits = 8
    MaxRegions = 2
    CountValues = 8
    SizeValues = 128
    Crc32 <- crc32
INVARIANTS BootMsiArmed KeyboardFound TransferExact PartitionsVerified
 
CHECK_DEADLOCK FALSE
