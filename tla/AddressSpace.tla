---------------------------- MODULE AddressSpace ----------------------------
(***************************************************************************)
(* The linear byte addresses of a Type 2 Tag (src/type2/memory.rs): the    *)
(* constants of the memory structure and the conversion between a byte     *)
(* address and (sector, block, offset).  The sizes are parameters so that  *)
(* the end of a sector and the end of the address space are within reach   *)
(* of a small instance; the code's values are given beside them.           *)
(***************************************************************************)
EXTENDS Integers

CONSTANTS
    BLOCK_SIZE,         \* bytes in a block (4)
    BLOCKS_PER_SECTOR,  \* 256
    MAX_SECTOR,         \* 0xFE
    DATA_START_BLOCK,   \* 4
    None                \* Option::None

ASSUME AddressAssumption ==
    /\ BLOCK_SIZE \in Nat \ {0}
    /\ BLOCKS_PER_SECTOR \in Nat \ {0}
    /\ MAX_SECTOR \in Nat
    /\ DATA_START_BLOCK \in 0..(BLOCKS_PER_SECTOR - 1)
    /\ None \notin Nat
    /\ None \notin Nat \X Nat \X Nat

SECTOR_SIZE       == BLOCK_SIZE * BLOCKS_PER_SECTOR
ADDRESS_SPACE_END == (MAX_SECTOR + 1) * SECTOR_SIZE
DATA_START        == DATA_START_BLOCK * BLOCK_SIZE
CC_BLOCK          == DATA_START_BLOCK - 1

Address == 0..(ADDRESS_SPACE_END - 1)

\* <<sector, block, offset>>, or None past the last sector.
address_to_sector_block_NotWithinSector(a) ==
    IF a \div SECTOR_SIZE > MAX_SECTOR
        THEN None
        ELSE <<a \div SECTOR_SIZE, a \div BLOCK_SIZE, a % BLOCK_SIZE>>
address_to_sector_block(a) ==
    IF a \div SECTOR_SIZE > MAX_SECTOR
        THEN None
        ELSE LET within == a % SECTOR_SIZE
             IN <<a \div SECTOR_SIZE, within \div BLOCK_SIZE, within % BLOCK_SIZE>>

sector_block_to_address(s, b, o) ==
    IF s > MAX_SECTOR THEN None ELSE s * SECTOR_SIZE + b * BLOCK_SIZE + o

=============================================================================
