----------------------------- MODULE LayoutWalk -----------------------------
(***************************************************************************)
(* Every layout that one or two control blocks can describe, and the       *)
(* addresses usable_offset_to_address gives for offset 0, 1, 2, ... until  *)
(* the address space ends: the pure part of src/type2/memory.rs against    *)
(* its definition in words.                                                *)
(***************************************************************************)
EXTENDS MemoryLayout, FiniteSets

CONSTANTS
    SizeFields,   \* size fields of the Capability Container
    Positions,    \* position bytes of the control blocks
    Sizes,        \* their size bytes
    PageBytes     \* their third bytes

ASSUME WalkAssumption ==
    /\ SizeFields \subseteq Byte
    /\ Positions \subseteq Byte
    /\ Sizes \subseteq Byte
    /\ PageBytes \subseteq Byte

VARIABLES
    layout,  \* the layout of the tag
    n,       \* the offset asked for
    address  \* usable_offset_to_address of n

walkVars == <<layout, n, address>>

\* The control blocks the data area begins with, parsed from their bytes.
Parsed(t, p, s, c) == parse_tlvs(<<t, 3, p, s, c>>)

Cc(size) == ParseCc(<<CC_MAGIC, SUPPORTED_MAJOR_VERSION * NIBBLE, size, 0>>)

Init ==
    /\ \E size \in SizeFields, t1, t2 \in ControlTags, p1, p2 \in Positions,
          s1, s2 \in Sizes, c \in PageBytes :
          LET tlvs == Parsed(t1, p1, s1, c).tlvs \o Parsed(t2, p2, s2, c).tlvs
          IN layout = from_cc_and_tlvs(Cc(size), tlvs)
    /\ n = 0
    /\ address = usable_offset_to_address(layout, 0)

NextOffset ==
    /\ address # None
    /\ n' = n + 1
    /\ address' = usable_offset_to_address(layout, n')
    /\ UNCHANGED layout

Spec == Init /\ [][NextOffset]_walkVars

-----------------------------------------------------------------------------

TypeOK ==
    /\ layout.data_area_size \in Nat
    /\ n \in Nat
    /\ address \in Address \cup {None}

Usable == {a \in DATA_START..(ADDRESS_SPACE_END - 1) : ~is_skip_area(layout, a)}

\* The n-th usable byte is usable and has n usable bytes before it; there is none
\* only when the address space has no more than n (memory.rs:239-251).
NthUsable ==
    IF address = None
        THEN Cardinality(Usable) <= n
        ELSE address \in Usable /\ Cardinality({a \in Usable : a < address}) = n

\* A control block is accepted only if its whole area can be addressed
\* (tlv.rs:196-211).  The default lock area of a dynamic tag is not checked.
DeclaredAreasInside ==
    LET default == default_dynamic_lock_area(layout.data_area_size)
        areas   == layout.lock_areas \o layout.reserved_areas
    IN \A i \in 1..Len(areas) :
           \/ areas[i] = default
           \/ areas[i].start \in Address /\ areas[i].end - 1 \in Address

\* The sectors sector_count gives are enough: every byte of the data area lies in
\* one of them, wherever the areas are that push it up, and no more than can be
\* selected (memory.rs:194-210).
SectorCountCovers ==
    /\ sector_count(layout) <= MAX_SECTOR + 1
    /\ address # None /\ n < layout.data_area_size =>
          address < sector_count(layout) * SECTOR_SIZE

\* The conversion used before every access inverts: no two usable bytes share a
\* place, and each is in a sector that can be selected (memory.rs:212-237).
AddressesConvert ==
    address # None =>
        LET p == address_to_sector_block(address)
        IN /\ p # None
           /\ p[1] <= MAX_SECTOR /\ p[2] < BLOCKS_PER_SECTOR /\ p[3] < BLOCK_SIZE
           /\ sector_block_to_address(p[1], p[2], p[3]) = address

=============================================================================
