SPECIFICATION Spec
CONSTANTS
    BLOCK_SIZE = 4
    BLOCKS_PER_SECTOR = 8
    MAX_SECTOR = 1
    DATA_START_BLOCK = 4
    None = None
    BYTE = 16
    NIBBLE = 4
    TLV_CAPACITY = 4
    CC_MAGIC = 9
    STATIC_UNITS = 2
    READ_BLOCKS = 4
    DATA_CAPACITY = 36
    Unknown = Unknown
    Tags <- LargeTags
    Messages <- LongMessages
    MaxCalls = 2
INVARIANTS
    RoundTrip
CHECK_DEADLOCK FALSE
