------------------------------ MODULE Type2Tag ------------------------------
(***************************************************************************)
(* The NFC Forum Type 2 Tag and the radio link to it, as the reader in     *)
(* src/type2/reader.rs relies on them.  Neither is code of this            *)
(* repository: the trait T2TTransceiver (src/type2/mod.rs:80-113) is the   *)
(* interface, and what a tag may do with a frame is taken from the trait's *)
(* contract, from the comments of the reader and from its test doubles     *)
(* (reader.rs:1015-1088).                                                  *)
(*                                                                         *)
(*  - Block numbers are relative to the sector the tag has selected.       *)
(*  - SECTOR SELECT takes two packets; between them the tag waits for the  *)
(*    second one, and any other frame is a protocol infringement.          *)
(*  - A protocol infringement takes the tag back to sector 0.              *)
(*  - A frame the transceiver answers with an error was either not         *)
(*    received, received and applied with the answer lost, or the          *)
(*    infringement that reset the tag.                                     *)
(*  - A NACK means the command was understood and not applied; it leaves   *)
(*    the selected sector alone.                                           *)
(***************************************************************************)
EXTENDS Integers

CONSTANTS
    MAX_SECTOR,         \* highest selectable sector number (0xFE)
    BLOCKS_PER_SECTOR,  \* blocks in one sector (256)
    READ_BLOCKS,        \* blocks returned by one READ (4)
    TagSectors,         \* the sectors this tag implements
    Values,             \* the contents a block can have
    Zero,               \* the all-zero block
    Padding             \* what a READ may show past the last block of a sector

ASSUME TagAssumption ==
    /\ MAX_SECTOR \in Nat
    /\ BLOCKS_PER_SECTOR \in Nat \ {0}
    /\ READ_BLOCKS \in Nat \ {0}
    /\ TagSectors \subseteq 0..MAX_SECTOR
    /\ 0 \in TagSectors
    /\ Zero \in Values
    /\ Padding \subseteq Values

VARIABLES
    tag_sector,  \* the sector the tag itself has selected
    tag_mode,    \* "command", or "packet2" while it awaits the second packet
    memory       \* memory[s][b] is the content of block b of sector s

tagVars == <<tag_sector, tag_mode, memory>>

Sector    == 0..MAX_SECTOR
Block     == 0..(BLOCKS_PER_SECTOR - 1)
ReadIndex == 0..(READ_BLOCKS - 1)

\* What one READ carries: READ_BLOCKS consecutive blocks.
ReadData == [ReadIndex -> Values]

TagTypeOK ==
    /\ tag_sector \in TagSectors
    /\ tag_mode \in {"command", "packet2"}
    /\ memory \in [TagSectors -> [Block -> Values]]

TagInit ==
    /\ tag_sector = 0
    /\ tag_mode = "command"
    /\ memory \in [TagSectors -> [Block -> Values]]

-----------------------------------------------------------------------------

\* What a READ of block b can return in sector s.  For the positions past the last
\* block of the sector tags differ: roll-over to block 0, or padding.
ReadResults(s, b) ==
    LET past == {i \in ReadIndex : b + i >= BLOCKS_PER_SECTOR}
    IN {[i \in ReadIndex |-> memory[s][(b + i) % BLOCKS_PER_SECTOR]]}
          \cup {[i \in ReadIndex |-> IF i \in past THEN f[i] ELSE memory[s][b + i]] :
                   f \in [past -> Padding]}

\* d is what sector s holds from block b on.
Holds(s, b, d) ==
    \A i \in ReadIndex :
        b + i < BLOCKS_PER_SECTOR => d[i] = memory[s][b + i]

\* The frame had no effect on the tag.
TagUnchanged == UNCHANGED tagVars

\* A protocol infringement, or a new activation: sector 0, command state.
TagReset ==
    /\ tag_sector' = 0
    /\ tag_mode' = "command"
    /\ UNCHANGED memory

\* WRITE, or a vendor command with the effect of a WRITE, applied.
TagStores(b, v) ==
    /\ tag_mode = "command"
    /\ memory' = [memory EXCEPT ![tag_sector][b] = v]
    /\ UNCHANGED <<tag_sector, tag_mode>>

\* SECTOR SELECT packet 1 accepted.
TagAwaitsPacket2 ==
    /\ tag_mode = "command"
    /\ tag_mode' = "packet2"
    /\ UNCHANGED <<tag_sector, memory>>

\* SECTOR SELECT packet 2 accepted: no answer is sent.
TagSelects(s) ==
    /\ tag_mode = "packet2"
    /\ s \in TagSectors
    /\ tag_sector' = s
    /\ tag_mode' = "command"
    /\ UNCHANGED memory

\* A command answered with a NACK.  In command state nothing happened; while
\* packet 2 is awaited, the command is the infringement that resets the tag.
TagRefuses ==
    \/ tag_mode = "command" /\ TagUnchanged
    \/ tag_mode = "packet2" /\ TagReset

\* SECTOR SELECT packet 2 answered with a NACK: back to command state, in the
\* old sector or in sector 0.
TagRefusesSector ==
    /\ tag_mode = "packet2"
    /\ tag_mode' = "command"
    /\ tag_sector' \in {tag_sector, 0}
    /\ UNCHANGED memory

\* An exchange that ended in a transceiver error without the frame applied.
TagMisses == TagUnchanged \/ TagReset

=============================================================================
