SPECIFICATION LinkFairSpec
CONSTANTS
    BLOCK_SIZE = 4
    BLOCKS_PER_SECTOR = 8
    MAX_SECTOR = 1
    DATA_START_BLOCK = 4
    READ_BLOCKS = 4
    BYTE = 16
    NIBBLE = 4
    TLV_CAPACITY = 64
    DATA_CAPACITY = 64
    CC_MAGIC = 9
    STATIC_UNITS = 2
    TagSectors = {0, 1}
    Values <- Pages
    Zero <- ZeroPage
    Padding <- Junk
    MaxRetries = 1
    Tags <- LinkTags
    Messages <- LinkMessages
    MaxCalls = 1
    AppBlocks = {2, 7}
    Unknown = Unknown
    None = None
INVARIANTS
    AccessesMeantSector
PROPERTIES
    ImplementsNdef
    CallsReturn
CHECK_DEADLOCK FALSE
