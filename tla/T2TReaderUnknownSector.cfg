SPECIFICATION Spec
CONSTANTS
    MAX_SECTOR = 2
    BLOCKS_PER_SECTOR = 3
    READ_BLOCKS = 2
    TagSectors = {0, 1}
    Values = {0, 1}
    Zero = 0
    Padding = {0, 1}
    MaxRetries = 2
    Unknown = Unknown
    None = None
INVARIANTS
    SectorKnownBeforeCommand
