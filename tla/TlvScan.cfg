\* Long lengths, both control blocks, NDEF and proprietary blocks, a reserved tag and
\* a Terminator, in every order, in streams of up to 7 bytes.
SPECIFICATION Spec
CONSTANTS
    BLOCK_SIZE = 2
    BLOCKS_PER_SECTOR = 4
    MAX_SECTOR = 0
    DATA_START_BLOCK = 2
    None = None
    BYTE = 9
    NIBBLE = 3
    TLV_CAPACITY = 4
    DATA_CAPACITY = 8
    Alphabet = {0, 1, 2, 3, 4, 6, 7, 8}
    MaxStream = 7
INVARIANTS
    TypeOK
    EarlyStopHarmless
    ScannerAgreesWithParser
    ScannerInStep
CHECK_DEADLOCK FALSE
