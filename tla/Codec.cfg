SPECIFICATION Spec
CONSTANTS
    BLOCK_SIZE = 4
    BLOCKS_PER_SECTOR = 5
    MAX_SECTOR = 1
    DATA_START_BLOCK = 4
    None = None
    BYTE = 16
    NIBBLE = 4
    TLV_CAPACITY = 4
    DATA_CAPACITY = 258
    CC_MAGIC = 9
    STATIC_UNITS = 1
    CMD_READ = 3
    CMD_WRITE = 10
    CMD_SECTOR_SELECT = 12
    ACK = 2
    Lengths = {0, 1, 2, 13, 14, 15, 16, 17, 19, 252, 253, 254, 255, 256, 257, 258}
INVARIANTS
    DecodedSurvives
    BytesSurvive
    LengthDeclared
CHECK_DEADLOCK FALSE
