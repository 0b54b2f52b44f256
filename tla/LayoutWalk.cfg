SPECIFICATION Spec
CONSTANTS
    BLOCK_SIZE = 2
    BLOCKS_PER_SECTOR = 7
    MAX_SECTOR = 2
    DATA_START_BLOCK = 4
    None = None
    BYTE = 16
    NIBBLE = 4
    TLV_CAPACITY = 4
    DATA_CAPACITY = 64
    CC_MAGIC = 9
    STATIC_UNITS = 1
    SizeFields = {1, 2}
    Positions = {8, 9, 11, 12, 14, 15}
    Sizes = {0, 1, 2, 5, 9}
    PageBytes = {7, 4, 3}
INVARIANTS
    TypeOK
    NthUsable
    DeclaredAreasInside
    SectorCountCovers
    AddressesConvert
CHECK_DEADLOCK FALSE
