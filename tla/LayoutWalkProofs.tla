-------------------------- MODULE LayoutWalkProofs --------------------------
(***************************************************************************)
(* The invariants of LayoutWalk for every address space and every pair of  *)
(* control blocks.                                                         *)
(***************************************************************************)
EXTENDS LayoutWalk, MemoryLayoutProofs

\* The inductive invariant: the layout is one of a tag, and address the answer for n.
WalkInv ==
    /\ layout \in Layouts
    /\ n \in Nat
    /\ address = usable_offset_to_address(layout, n)

\* The bytes of a control block parse to blocks.
LEMMA ParsedBlocks ==
    ASSUME NEW t \in ControlTags, NEW p \in Byte, NEW s \in Byte, NEW c \in Byte
    PROVE  Parsed(t, p, s, c).tlvs \in Seq(TlvBlocks)
<1> DEFINE d == <<t, 3, p, s, c>>
<1>1. t \in Byte /\ 3 \in Byte
  BY TlvAssumption DEF ControlTags, TLV_LOCK_CONTROL, TLV_MEMORY_CONTROL, Byte
<1>2. d \in Seq(Byte)
  BY <1>1
<1> HIDE DEF d
<1>3. parse_tlvs(d).tlvs \in Seq(TlvBlocks)
  BY <1>2, ParseTlvsType
<1>4. QED
  BY <1>3 DEF Parsed, d

\* The layout a run begins with is that of a tag.
LEMMA InitWalkInv == Init => WalkInv
<1> SUFFICES ASSUME Init PROVE WalkInv
  OBVIOUS
<1>1. PICK size \in SizeFields, t1 \in ControlTags, t2 \in ControlTags,
           p1 \in Positions, p2 \in Positions, s1 \in Sizes, s2 \in Sizes, c \in PageBytes :
         layout = from_cc_and_tlvs(Cc(size),
                                   Parsed(t1, p1, s1, c).tlvs \o Parsed(t2, p2, s2, c).tlvs)
  BY DEF Init
<1>2. size \in Byte /\ p1 \in Byte /\ p2 \in Byte /\ s1 \in Byte /\ s2 \in Byte /\ c \in Byte
  BY WalkAssumption
<1>3. Parsed(t1, p1, s1, c).tlvs \o Parsed(t2, p2, s2, c).tlvs \in Seq(TlvBlocks)
  <2>1. Parsed(t1, p1, s1, c).tlvs \in Seq(TlvBlocks)
    BY <1>2, ParsedBlocks
  <2>2. Parsed(t2, p2, s2, c).tlvs \in Seq(TlvBlocks)
    BY <1>2, ParsedBlocks
  <2>3. QED
    BY <2>1, <2>2
<1>4. Cc(size).size_field \in Nat
  <2>1. (SUPPORTED_MAJOR_VERSION * NIBBLE) \div NIBBLE = SUPPORTED_MAJOR_VERSION
    BY TlvAssumption DEF SUPPORTED_MAJOR_VERSION
  <2>2. ~(SUPPORTED_MAJOR_VERSION > SUPPORTED_MAJOR_VERSION)
    BY DEF SUPPORTED_MAJOR_VERSION
  <2>3. Cc(size).size_field = size
    BY <2>1, <2>2 DEF Cc, ParseCc
  <2>4. QED
    BY <1>2, <2>3, TlvAssumption DEF Byte
<1>5. layout \in Layouts
  BY <1>1, <1>3, <1>4, LayoutOfTag
<1>6. QED
  BY <1>5 DEF Init, WalkInv

\* The layout stays that of a tag (memory.rs:148-187) and the offset a natural number,
\* however far usable_offset_to_address is asked for.
THEOREM SpecWalkInv == Spec => []WalkInv
<1>1. WalkInv /\ [NextOffset]_walkVars => WalkInv'
  BY DEF WalkInv, NextOffset, walkVars
<1>2. QED
  BY <1>1, InitWalkInv, PTL DEF Spec

\* What usable_offset_to_address returned for n.
LEMMA AddressFound ==
    WalkInv => /\ Finds(layout, DATA_START, n, address)
               /\ address # None => address \in Address /\ address \in Nat
<1> SUFFICES ASSUME WalkInv PROVE /\ Finds(layout, DATA_START, n, address)
                                  /\ address # None => address \in Address /\ address \in Nat
  OBVIOUS
<1>1. DATA_START \in 0..ADDRESS_SPACE_END /\ DATA_START \in Nat /\ ADDRESS_SPACE_END \in Nat
  BY AddressSizes
<1>2. Finds(layout, DATA_START, n, address)
  BY <1>1, WalkFinds DEF WalkInv, usable_offset_to_address
<1>3. address # None => address \in DATA_START..(ADDRESS_SPACE_END - 1)
  BY <1>2 DEF Finds, UsableFrom
<1>4. QED
  BY <1>1, <1>2, <1>3 DEF Address

\* The state of the walk is well typed.
THEOREM WalkTypeCorrect == Spec => []TypeOK
<1>1. WalkInv => TypeOK
  BY AddressFound DEF WalkInv, Layouts, TypeOK
<1>2. QED
  BY <1>1, SpecWalkInv, PTL

\* usable_offset_to_address returns the n-th usable byte, for every layout and
\* offset (memory.rs:239-267).
THEOREM OffsetsFindTheirByte == Spec => []NthUsable
<1>1. Usable = UsableFrom(layout, DATA_START)
  BY DEF Usable, UsableFrom
<1>2. {a \in Usable : a < address} = UsableBetween(layout, DATA_START, address)
  BY <1>1 DEF UsableBetween
<1>3. WalkInv => NthUsable
  BY <1>1, <1>2, AddressFound DEF NthUsable, Finds
<1>4. QED
  BY <1>3, SpecWalkInv, PTL

\* Every area a control block declares can be addressed (type2/tlv.rs:196-211).
THEOREM AreasStayInside == Spec => []DeclaredAreasInside
<1>1. WalkInv => DeclaredAreasInside
  <2> SUFFICES ASSUME WalkInv PROVE DeclaredAreasInside
    OBVIOUS
  <2> DEFINE locks == layout.lock_areas
             reserved == layout.reserved_areas
             default == default_dynamic_lock_area(layout.data_area_size)
  <2>1. /\ locks \in Seq(Areas) /\ reserved \in Seq(Declared)
        /\ locks \in Seq(Declared) \/ locks = <<default>>
    BY DEF WalkInv, Layouts
  <2>2. \A r \in Declared : r.start \in Address /\ r.end - 1 \in Address
    BY AddressSizes DEF Declared, Areas, Address
  <2>3. reserved \in Seq(Areas)
    BY <2>1 DEF Declared
  <2> HIDE DEF locks, reserved, default
  <2>4. \A i \in 1..Len(locks \o reserved) :
           (locks \o reserved)[i] = default \/ (locks \o reserved)[i] \in Declared
    <3>1. CASE locks \in Seq(Declared)
      BY <2>1, <3>1
    <3>2. CASE locks = <<default>>
      BY <2>1, <2>3, <3>2
    <3>3. QED
      BY <2>1, <3>1, <3>2
  <2>5. QED
    BY <2>2, <2>4 DEF DeclaredAreasInside, locks, reserved, default
<1>2. QED
  BY <1>1, SpecWalkInv, PTL

\* The sectors sector_count gives are enough for every byte of the data area, and
\* can all be selected (memory.rs:194-210).
THEOREM SectorsAreEnough == Spec => []SectorCountCovers
<1>1. WalkInv => SectorCountCovers
  <2> SUFFICES ASSUME WalkInv PROVE SectorCountCovers
    OBVIOUS
  <2>1. sector_count(layout) <= MAX_SECTOR + 1
    <3> DEFINE T == layout.data_area_size + DATA_START + TotalSize(layout.lock_areas)
                        + TotalSize(layout.reserved_areas)
               c == DivCeil(T, SECTOR_SIZE)
    <3>1. layout.lock_areas \in Seq(Areas) /\ layout.reserved_areas \in Seq(Areas)
          /\ layout.data_area_size \in Nat
      BY DEF WalkInv, Layouts, Declared
    <3>6. TotalSize(layout.lock_areas) \in Nat /\ TotalSize(layout.reserved_areas) \in Nat
      BY <3>1, CoveredBounded
    <3>2. T \in Nat
      BY <3>1, <3>6, AddressSizes
    <3>3. sector_count(layout) = IF c > MAX_SECTOR + 1 THEN MAX_SECTOR + 1 ELSE c
      BY DEF sector_count
    <3> HIDE DEF T
    <3>4. c \in Nat
      BY <3>2, AddressSizes, DivCeilCovers
    <3> HIDE DEF c
    <3>5. QED
      BY <3>3, <3>4, AddressAssumption
  <2>2. ASSUME address # None, n < layout.data_area_size
        PROVE  address < sector_count(layout) * SECTOR_SIZE
    <3>1. address \in Nat /\ Finds(layout, DATA_START, n, address)
      BY <2>2, AddressFound
    <3>2. QED
      BY <2>2, <3>1, SectorCountHolds DEF WalkInv
  <2>3. QED
    BY <2>1, <2>2 DEF SectorCountCovers
<1>2. QED
  BY <1>1, SpecWalkInv, PTL

\* Every usable byte has a place of its own in a sector that can be selected
\* (memory.rs:212-237).
THEOREM AddressesHaveAPlace == Spec => []AddressesConvert
<1>1. WalkInv => AddressesConvert
  <2> SUFFICES ASSUME WalkInv, address # None
               PROVE  LET p == address_to_sector_block(address)
                      IN /\ p # None
                         /\ p[1] <= MAX_SECTOR /\ p[2] < BLOCKS_PER_SECTOR /\ p[3] < BLOCK_SIZE
                         /\ sector_block_to_address(p[1], p[2], p[3]) = address
    BY DEF AddressesConvert
  <2> DEFINE p == address_to_sector_block(address)
  <2>1. address \in Address
    BY AddressFound
  <2>2. /\ p # None
        /\ p \in (0..MAX_SECTOR) \X (0..(BLOCKS_PER_SECTOR - 1)) \X (0..(BLOCK_SIZE - 1))
        /\ sector_block_to_address(p[1], p[2], p[3]) = address
    BY <2>1, AddressConverts
  <2> HIDE DEF p
  <2>3. p[1] <= MAX_SECTOR /\ p[2] < BLOCKS_PER_SECTOR /\ p[3] < BLOCK_SIZE
    BY <2>2, AddressAssumption
  <2>4. QED
    BY <2>2, <2>3 DEF p
<1>2. QED
  BY <1>1, SpecWalkInv, PTL

=============================================================================
