---------------------------- MODULE MemoryLayout ----------------------------
(***************************************************************************)
(* MemoryLayout (src/type2/memory.rs): the lock and reserved areas of a    *)
(* tag, and the address of the n-th byte of the data area when these areas *)
(* are left out.  An area is the interval [start, end) of addresses.  The  *)
(* lists of areas take at least as many as parse_tlvs returns blocks, so   *)
(* that push_area, whose failure is ignored, does not fail.                *)
(***************************************************************************)
EXTENDS CapabilityContainer

STATIC_DATA_AREA_SIZE == STATIC_UNITS * 8

Area(start, size) == [start |-> start, end |-> start + size]

InArea(area, a) == a >= area.start /\ a < area.end

default_dynamic_lock_area(size) ==
    LET extra == IF size > STATIC_DATA_AREA_SIZE THEN size - STATIC_DATA_AREA_SIZE ELSE 0
        bits  == (extra + 7) \div 8
    IN Area(DATA_START + size, (bits + 7) \div 8)

\* The area a control block describes.
AreaOf(b) ==
    Area(byte_address(b.value),
         IF b.tag = TLV_LOCK_CONTROL THEN lock_byte_count(b.value) ELSE b.value.size_in_bytes)

\* The areas that control blocks with tag t describe, one for each block, among the
\* first i blocks and among all.
AreasUpTo(tlvs, t) ==
    LET areas[i \in 0..Len(tlvs)] ==
            IF i = 0 THEN <<>>
            ELSE IF tlvs[i].tag = t THEN Append(areas[i - 1], AreaOf(tlvs[i]))
            ELSE areas[i - 1]
    IN areas
AreasOf(tlvs, t) == AreasUpTo(tlvs, t)[Len(tlvs)]

from_cc_and_tlvs(cc, tlvs) ==
    LET size   == data_area_size(cc)
        locks  == AreasOf(tlvs, TLV_LOCK_CONTROL)
    IN [data_area_size |-> size,
        lock_areas     |-> IF is_dynamic(cc) /\ locks = <<>>
                               THEN <<default_dynamic_lock_area(size)>> ELSE locks,
        reserved_areas |-> AreasOf(tlvs, TLV_MEMORY_CONTROL)]

AnyContains(areas, a) == \E i \in 1..Len(areas) : InArea(areas[i], a)

is_skip_area(layout, a) ==
    AnyContains(layout.lock_areas, a) \/ AnyContains(layout.reserved_areas, a)

\* The bytes of all areas of a list, an overlap counted twice.
SizesUpTo(areas) ==
    LET sum[i \in 0..Len(areas)] ==
            IF i = 0 THEN 0 ELSE sum[i - 1] + (areas[i].end - areas[i].start)
    IN sum
TotalSize(areas) == SizesUpTo(areas)[Len(areas)]

DivCeil(a, b) == (a + b - 1) \div b

sector_count_LocksForgotten(layout) ==
    DivCeil(layout.data_area_size + DATA_START + TotalSize(layout.reserved_areas),
            SECTOR_SIZE)
sector_count(layout) ==
    LET sectors == DivCeil(layout.data_area_size + DATA_START
                               + TotalSize(layout.lock_areas)
                               + TotalSize(layout.reserved_areas), SECTOR_SIZE)
    IN IF sectors > MAX_SECTOR + 1 THEN MAX_SECTOR + 1 ELSE sectors

\* The loop of usable_offset_to_address: at address p[1] with p[2] usable bytes to pass.
usable_offset_to_address_SkipsCounted(layout, n) ==
    IF DATA_START + n < ADDRESS_SPACE_END THEN DATA_START + n ELSE None
usable_offset_to_address_Unbounded(layout, n) ==
    LET walk[p \in Nat \X Nat] ==
            IF is_skip_area(layout, p[1]) THEN walk[<<p[1] + 1, p[2]>>]
            ELSE IF p[2] = 0 THEN p[1]
            ELSE walk[<<p[1] + 1, p[2] - 1>>]
    IN walk[<<DATA_START, n>>]
WalkOf(layout) ==
    LET walk[p \in Nat \X Nat] ==
            IF p[1] >= ADDRESS_SPACE_END THEN None
            ELSE IF is_skip_area(layout, p[1]) THEN walk[<<p[1] + 1, p[2]>>]
            ELSE IF p[2] = 0 THEN p[1]
            ELSE walk[<<p[1] + 1, p[2] - 1>>]
    IN walk
usable_offset_to_address(layout, n) == WalkOf(layout)[<<DATA_START, n>>]

=============================================================================
