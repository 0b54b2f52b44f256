------------------------- MODULE MemoryLayoutProofs -------------------------
(***************************************************************************)
(* The memory layout for every size of sectors, blocks and address space   *)
(* and every list of control blocks: the loops of the layout compute       *)
(* something, the areas are well formed, and usable_offset_to_address      *)
(* finds the n-th usable byte.                                             *)
(***************************************************************************)
EXTENDS MemoryLayout, TlvProofs, FiniteSetTheorems

\* The sizes are positive numbers, and the data area begins in the address space.
LEMMA AddressSizes ==
    /\ SECTOR_SIZE \in Nat \ {0}
    /\ ADDRESS_SPACE_END \in Nat \ {0}
    /\ DATA_START \in 0..(ADDRESS_SPACE_END - 1)
<1>1. SECTOR_SIZE \in Nat \ {0}
  BY AddressAssumption DEF SECTOR_SIZE
<1>2. DATA_START \in 0..(SECTOR_SIZE - 1)
  <2>1. DATA_START \in Nat
    BY AddressAssumption DEF DATA_START
  <2>2. BLOCK_SIZE * (DATA_START_BLOCK + 1) <= BLOCK_SIZE * BLOCKS_PER_SECTOR
    BY AddressAssumption
  <2>3. BLOCK_SIZE * (DATA_START_BLOCK + 1) = DATA_START + BLOCK_SIZE
    BY AddressAssumption DEF DATA_START
  <2>4. DATA_START + BLOCK_SIZE <= SECTOR_SIZE
    BY <2>2, <2>3 DEF SECTOR_SIZE
  <2> HIDE DEF SECTOR_SIZE, DATA_START
  <2>5. QED
    BY <1>1, <2>1, <2>4, AddressAssumption
<1> HIDE DEF SECTOR_SIZE
<1>3. ADDRESS_SPACE_END = MAX_SECTOR * SECTOR_SIZE + SECTOR_SIZE
  BY <1>1, AddressAssumption DEF ADDRESS_SPACE_END
<1>4. MAX_SECTOR * SECTOR_SIZE \in Nat
  BY <1>1, AddressAssumption
<1>5. QED
  BY <1>1, <1>2, <1>3, <1>4

\* Every address is in a sector that can be selected, and the conversion to
\* sector, block and offset inverts (memory.rs:212-237).
LEMMA AddressConverts ==
    ASSUME NEW a \in Address
    PROVE  LET p == address_to_sector_block(a)
           IN /\ p # None
              /\ p \in (0..MAX_SECTOR) \X (0..(BLOCKS_PER_SECTOR - 1)) \X (0..(BLOCK_SIZE - 1))
              /\ sector_block_to_address(p[1], p[2], p[3]) = a
<1> DEFINE S == SECTOR_SIZE
           q == a \div S
           w == a % S
           b == w \div BLOCK_SIZE
           o == w % BLOCK_SIZE
<1>1. S \in Nat \ {0} /\ a \in Nat /\ a < ADDRESS_SPACE_END
  BY AddressSizes DEF Address
<1>2. BLOCK_SIZE \in Nat \ {0} /\ BLOCKS_PER_SECTOR \in Nat \ {0} /\ MAX_SECTOR \in Nat
  BY AddressAssumption
<1>3. S = BLOCK_SIZE * BLOCKS_PER_SECTOR /\ ADDRESS_SPACE_END = (MAX_SECTOR + 1) * S
  BY DEF SECTOR_SIZE, ADDRESS_SPACE_END
<1> HIDE DEF S
<1>4. q \in Nat /\ w \in 0..(S - 1) /\ w = a - S * q
  BY <1>1
<1>5. b \in Nat /\ o \in 0..(BLOCK_SIZE - 1) /\ o = w - BLOCK_SIZE * b
  BY <1>1, <1>2, <1>4
<1>6. address_to_sector_block(a) = IF q > MAX_SECTOR THEN None ELSE <<q, b, o>>
  BY DEF address_to_sector_block, S
<1>7. \A r, t, v \in Nat : sector_block_to_address(r, t, v)
                              = IF r > MAX_SECTOR THEN None ELSE r * S + t * BLOCK_SIZE + v
  BY DEF sector_block_to_address, S
<1> HIDE DEF q, w, b, o
<1>8. q <= MAX_SECTOR
  <2>1. S * q < (MAX_SECTOR + 1) * S
    BY <1>1, <1>2, <1>3, <1>4
  <2>2. QED
    BY <1>1, <1>2, <1>4, <2>1
<1>9. b <= BLOCKS_PER_SECTOR - 1
  <2>1. BLOCK_SIZE * b < BLOCK_SIZE * BLOCKS_PER_SECTOR
    BY <1>1, <1>2, <1>3, <1>4, <1>5
  <2>2. QED
    BY <1>2, <1>5, <2>1
<1>10. q * S + b * BLOCK_SIZE + o = a
  <2>1. q * S = S * q /\ b * BLOCK_SIZE = BLOCK_SIZE * b /\ S * q \in Nat /\ BLOCK_SIZE * b \in Nat
    BY <1>1, <1>2, <1>4, <1>5
  <2>2. QED
    BY <1>1, <1>2, <1>4, <1>5, <2>1
<1>11. address_to_sector_block(a) = <<q, b, o>>
  BY <1>1, <1>2, <1>4, <1>6, <1>8
<1>12. <<q, b, o>> \in Nat \X Nat \X Nat
  BY <1>2, <1>4, <1>5
<1>13. sector_block_to_address(q, b, o) = a
  BY <1>2, <1>4, <1>5, <1>7, <1>8, <1>10
<1>14. <<q, b, o>> \in (0..MAX_SECTOR) \X (0..(BLOCKS_PER_SECTOR - 1)) \X (0..(BLOCK_SIZE - 1))
  BY <1>2, <1>4, <1>5, <1>8, <1>9
<1>15. QED
  BY <1>11, <1>12, <1>13, <1>14, AddressAssumption

-----------------------------------------------------------------------------

\* Intervals of addresses, and those that are not empty and can be addressed.
Areas    == {r \in [start : Nat, end : Nat] : r.start <= r.end}
Declared == {r \in Areas : r.start < r.end /\ r.end <= ADDRESS_SPACE_END}

\* Page sizes are powers of two (type2/tlv.rs:74).
LEMMA PowerIsNat ==
    ASSUME NEW e \in Nat
    PROVE  2^e \in Nat
<1>1. IsFiniteSet(1..e) /\ Cardinality(1..e) = e
  BY FS_Interval
<1>2. IsFiniteSet(SUBSET (1..e)) /\ Cardinality(SUBSET (1..e)) = 2^e
  BY <1>1, FS_SUBSET
<1>3. QED
  BY <1>2, FS_CardinalityType

\* The three bytes of a control value are bytes.
LEMMA ThreeBytes ==
    ASSUME NEW w \in Seq(Byte), Len(w) = 3
    PROVE  w[1] \in Byte /\ w[2] \in Byte /\ w[3] \in Byte
<1>1. \A i \in 1..Len(w) : w[i] \in Byte
  OBVIOUS
<1>2. 1 \in 1..3 /\ 2 \in 1..3 /\ 3 \in 1..3
  OBVIOUS
<1>3. QED
  BY Zenon, <1>1, <1>2

\* An accepted control block describes an area inside the address space
\* (type2/tlv.rs:196-211).
LEMMA ControlArea ==
    ASSUME NEW b \in TlvBlocks, b.tag \in ControlTags
    PROVE  AreaOf(b) \in Declared
<1>1. \A x \in Byte : /\ x \div NIBBLE \in Nat /\ x % NIBBLE \in Nat
                      /\ SizeFromByte(x) \in Nat \ {0}
  BY TlvAssumption DEF Byte, SizeFromByte
<1>2. ADDRESS_SPACE_END \in Nat
  BY AddressSizes
<1>3. \A st, size \in Nat : size > 0 /\ check_area_in_address_space(st, size)
                               => Area(st, size) \in Declared
  BY <1>2 DEF check_area_in_address_space, Area, Declared, Areas
<1>7. \A x, y, z \in Nat : x * y + z \in Nat
  OBVIOUS
<1>4. CASE b.tag = TLV_LOCK_CONTROL
  <2>1. PICK w \in Seq(Byte) : /\ Len(w) = 3 /\ LockControlFromBytes(w) # None
                               /\ b = Block(TLV_LOCK_CONTROL, LockControlFromBytes(w))
    BY <1>4, TagsDiffer DEF TlvBlocks, Block, ControlTags
  <2> DEFINE v == LockControlFromBytes(w)
  <2>2. w[1] \in Byte /\ w[2] \in Byte /\ w[3] \in Byte
    BY Zenon, <2>1, ThreeBytes
  <2>3. /\ v = [page_addr            |-> w[1] \div NIBBLE,
                byte_offset          |-> w[1] % NIBBLE,
                size_in_bits         |-> SizeFromByte(w[2]),
                bytes_per_page       |-> w[3] % NIBBLE,
                bytes_locked_per_bit |-> w[3] \div NIBBLE]
        /\ check_area_in_address_space(byte_address(v), lock_byte_count(v))
    BY <2>1 DEF LockControlFromBytes
  <2>4. /\ v.page_addr \in Nat /\ v.byte_offset \in Nat /\ v.bytes_per_page \in Nat
        /\ v.size_in_bits \in Nat \ {0}
    <3>1. /\ w[1] \div NIBBLE \in Nat /\ w[1] % NIBBLE \in Nat
          /\ w[3] % NIBBLE \in Nat /\ SizeFromByte(w[2]) \in Nat \ {0}
      BY Zenon, <1>1, <2>2
    <3>2. QED
      BY <2>3, <3>1
  <2>5. b.value = v
    BY <2>1 DEF Block
  <2> HIDE DEF v
  <2>6. 2^v.bytes_per_page \in Nat
    BY <2>4, PowerIsNat
  <2>7. byte_address(v) \in Nat
    BY <1>7, <2>4, <2>6 DEF byte_address
  <2>8. lock_byte_count(v) \in Nat /\ lock_byte_count(v) > 0
    BY <2>4 DEF lock_byte_count
  <2>9. Area(byte_address(v), lock_byte_count(v)) \in Declared
    BY <1>3, <2>3, <2>7, <2>8
  <2>10. QED
    BY <1>4, <2>5, <2>9 DEF AreaOf
<1>5. CASE b.tag = TLV_MEMORY_CONTROL
  <2>1. PICK w \in Seq(Byte) : /\ Len(w) = 3 /\ MemoryControlFromBytes(w) # None
                               /\ b = Block(TLV_MEMORY_CONTROL, MemoryControlFromBytes(w))
    BY <1>5, TagsDiffer DEF TlvBlocks, Block, ControlTags
  <2> DEFINE v == MemoryControlFromBytes(w)
  <2>2. w[1] \in Byte /\ w[2] \in Byte /\ w[3] \in Byte
    BY Zenon, <2>1, ThreeBytes
  <2>3. /\ v = [page_addr      |-> w[1] \div NIBBLE,
                byte_offset    |-> w[1] % NIBBLE,
                size_in_bytes  |-> SizeFromByte(w[2]),
                bytes_per_page |-> w[3] % NIBBLE]
        /\ check_area_in_address_space(byte_address(v), v.size_in_bytes)
    BY <2>1 DEF MemoryControlFromBytes
  <2>4. /\ v.page_addr \in Nat /\ v.byte_offset \in Nat /\ v.bytes_per_page \in Nat
        /\ v.size_in_bytes \in Nat \ {0}
    <3>1. /\ w[1] \div NIBBLE \in Nat /\ w[1] % NIBBLE \in Nat
          /\ w[3] % NIBBLE \in Nat /\ SizeFromByte(w[2]) \in Nat \ {0}
      BY Zenon, <1>1, <2>2
    <3>2. QED
      BY <2>3, <3>1
  <2>5. b.value = v
    BY <2>1 DEF Block
  <2> HIDE DEF v
  <2>6. 2^v.bytes_per_page \in Nat
    BY <2>4, PowerIsNat
  <2>7. byte_address(v) \in Nat
    BY <1>7, <2>4, <2>6 DEF byte_address
  <2>9. Area(byte_address(v), v.size_in_bytes) \in Declared
    BY <1>3, <2>3, <2>4, <2>7
  <2>10. QED
    BY <1>5, <2>5, <2>9, TagsDiffer DEF AreaOf
<1>6. QED
  BY <1>4, <1>5 DEF ControlTags

\* The areas pushed for the control blocks are those of accepted control blocks.
LEMMA AreasDeclared ==
    ASSUME NEW tlvs \in Seq(TlvBlocks), NEW t \in ControlTags
    PROVE  AreasOf(tlvs, t) \in Seq(Declared)
<1> DEFINE V    == Seq(Declared)
           step == [p \in (1..Len(tlvs)) \X V |->
                       IF tlvs[p[1]].tag = t THEN Append(p[2], AreaOf(tlvs[p[1]])) ELSE p[2]]
<1>1. <<>> \in V /\ Len(tlvs) \in Nat
  OBVIOUS
<1>2. ASSUME NEW i \in 1..Len(tlvs), NEW s \in V
      PROVE  (IF tlvs[i].tag = t THEN Append(s, AreaOf(tlvs[i])) ELSE s) \in V
  <2>1. tlvs[i] \in TlvBlocks
    OBVIOUS
  <2>2. QED
    BY <2>1, ControlArea
<1>3. step \in [(1..Len(tlvs)) \X V -> V]
  BY <1>2
<1>4. \A i \in 1..Len(tlvs), s \in V :
         step[<<i, s>>] = IF tlvs[i].tag = t THEN Append(s, AreaOf(tlvs[i])) ELSE s
  OBVIOUS
<1> HIDE DEF V, step
<1>5. PICK f : Rounds(f, Len(tlvs), V, <<>>, step)
  BY Zenon, <1>1, <1>3, PrimitiveRecursion
<1>6. \A i \in 1..Len(tlvs) :
         f[i] = IF tlvs[i].tag = t THEN Append(f[i - 1], AreaOf(tlvs[i])) ELSE f[i - 1]
  <2>1. \A i \in 1..Len(tlvs) : f[i - 1] \in V
    BY <1>1, <1>5 DEF Rounds
  <2>2. QED
    BY <1>4, <1>5, <2>1 DEF Rounds
<1>7. f = [i \in 0..Len(tlvs) |->
              IF i = 0 THEN <<>>
              ELSE IF tlvs[i].tag = t THEN Append(f[i - 1], AreaOf(tlvs[i]))
              ELSE f[i - 1]]
  <2>1. \A i \in 0..Len(tlvs) : i = 0 \/ i \in 1..Len(tlvs)
    BY <1>1
  <2>2. QED
    BY <1>5, <1>6, <2>1 DEF Rounds
<1>8. AreasUpTo(tlvs, t) = [i \in 0..Len(tlvs) |->
              IF i = 0 THEN <<>>
              ELSE IF tlvs[i].tag = t THEN Append(AreasUpTo(tlvs, t)[i - 1], AreaOf(tlvs[i]))
              ELSE AreasUpTo(tlvs, t)[i - 1]]
  BY <1>7 DEF AreasUpTo
<1>9. \A i \in 0..Len(tlvs) : AreasUpTo(tlvs, t)[i] \in V
  <2> DEFINE g == AreasUpTo(tlvs, t)
  <2>0. g = [i \in 0..Len(tlvs) |->
                IF i = 0 THEN <<>>
                ELSE IF tlvs[i].tag = t THEN Append(g[i - 1], AreaOf(tlvs[i])) ELSE g[i - 1]]
    BY <1>8
  <2> HIDE DEF g
  <2>5. \A i \in 0..Len(tlvs) : g[i] =
                IF i = 0 THEN <<>>
                ELSE IF tlvs[i].tag = t THEN Append(g[i - 1], AreaOf(tlvs[i])) ELSE g[i - 1]
    BY <2>0
  <2>1. /\ g[0] = <<>>
        /\ \A i \in 1..Len(tlvs) :
               g[i] = IF tlvs[i].tag = t THEN Append(g[i - 1], AreaOf(tlvs[i])) ELSE g[i - 1]
    BY <1>1, <2>5
  <2>2. g[0] \in V /\ \A i \in 1..Len(tlvs) : g[i - 1] \in V => g[i] \in V
    BY <1>1, <1>2, <2>1
  <2>3. \A i \in 0..Len(tlvs) : g[i] \in V
    BY <1>1, <2>2, RecursionType
  <2>4. QED
    BY <2>3 DEF g
<1>10. QED
  BY <1>1, <1>9 DEF AreasOf, V

-----------------------------------------------------------------------------

\* The loop of usable_offset_to_address computes something: the row of what it finds
\* from an address on follows from the row of the next address.
LEMMA WalkSolvable ==
    ASSUME NEW L
    PROVE  \E w : w = [p \in Nat \X Nat |->
               IF p[1] >= ADDRESS_SPACE_END THEN None
               ELSE IF is_skip_area(L, p[1]) THEN w[<<p[1] + 1, p[2]>>]
               ELSE IF p[2] = 0 THEN p[1]
               ELSE w[<<p[1] + 1, p[2] - 1>>]]
<1> DEFINE E       == ADDRESS_SPACE_END
           V       == [Nat -> Nat \cup {None}]
           last    == [r \in Nat |-> None]
           Row(a, row) ==
               [r \in Nat |-> IF is_skip_area(L, a) THEN row[r]
                              ELSE IF r = 0 THEN a ELSE row[r - 1]]
           body    == [q \in (1..E) \X V |-> Row(E - q[1], q[2])]
<1>1. E \in Nat /\ last \in V
  BY AddressSizes
<1> HIDE DEF E
<1>2. ASSUME NEW k \in 1..E, NEW row \in V PROVE Row(E - k, row) \in V
  <2>1. E - k \in Nat /\ \A r \in Nat : r # 0 => r - 1 \in Nat
    BY <1>1
  <2>2. QED
    BY <2>1
<1>3. body \in [(1..E) \X V -> V]
  BY <1>2
<1>4. \A k \in 1..E, row \in V : body[<<k, row>>] = Row(E - k, row)
  OBVIOUS
<1> HIDE DEF V, body, last
<1>5. PICK f : Rounds(f, E, V, last, body)
  BY Zenon, <1>1, <1>3, PrimitiveRecursion
<1> DEFINE w == [p \in Nat \X Nat |-> IF p[1] >= E THEN None ELSE f[E - p[1]][p[2]]]
           next(a, r) == IF a >= E THEN None
                         ELSE IF is_skip_area(L, a) THEN w[<<a + 1, r>>]
                         ELSE IF r = 0 THEN a
                         ELSE w[<<a + 1, r - 1>>]
<1>6. \A a, r \in Nat : w[<<a, r>>] = IF a >= E THEN None ELSE f[E - a][r]
  OBVIOUS
<1> HIDE DEF w
<1>7. \A a, r \in Nat : a < E => w[<<a + 1, r>>] = f[E - a - 1][r]
  <2>1. SUFFICES ASSUME NEW a \in Nat, NEW r \in Nat, a < E
                 PROVE  w[<<a + 1, r>>] = f[E - a - 1][r]
    OBVIOUS
  <2>2. CASE a + 1 >= E
    <3>1. E - a - 1 = 0
      BY <1>1, <2>1, <2>2
    <3>2. QED
      BY <1>5, <1>6, <2>2, <3>1 DEF Rounds, last
  <2>3. CASE ~(a + 1 >= E)
    <3>1. E - (a + 1) = E - a - 1
      BY <1>1
    <3>2. QED
      BY <1>6, <2>3, <3>1
  <2>4. QED
    BY <2>2, <2>3
<1>8. ASSUME NEW a \in Nat, NEW r \in Nat PROVE w[<<a, r>>] = next(a, r)
  <2>1. CASE a >= E
    BY <1>6, <2>1
  <2>2. CASE ~(a >= E)
    <3>1. E - a \in 1..E /\ E - a - 1 \in 0..E /\ E - (E - a) = a
      BY <1>1, <2>2
    <3>2. f[E - a] = Row(a, f[E - a - 1])
      <4> HIDE DEF Row
      <4>1. f[E - a] = body[<<E - a, f[E - a - 1]>>] /\ f[E - a - 1] \in V
        BY <1>5, <3>1 DEF Rounds
      <4>2. f[E - a] = Row(E - (E - a), f[E - a - 1])
        BY <1>4, <3>1, <4>1
      <4>3. QED
        BY <3>1, <4>2
    <3>3. f[E - a][r] = IF is_skip_area(L, a) THEN f[E - a - 1][r]
                        ELSE IF r = 0 THEN a ELSE f[E - a - 1][r - 1]
      BY <3>2
    <3>4. r # 0 => r - 1 \in Nat
      OBVIOUS
    <3>5. QED
      BY <1>1, <1>6, <1>7, <2>2, <3>3, <3>4
  <2>3. QED
    BY <2>1, <2>2
<1>9. w = [p \in Nat \X Nat |-> next(p[1], p[2])]
  <2>1. w = [p \in Nat \X Nat |-> w[p]]
    BY DEF w
  <2>2. \A p \in Nat \X Nat : p = <<p[1], p[2]>> /\ p[1] \in Nat /\ p[2] \in Nat
    OBVIOUS
  <2>3. \A p \in Nat \X Nat : w[p] = next(p[1], p[2])
    BY <1>8, <2>2
  <2> HIDE DEF next
  <2>4. QED
    BY <2>1, <2>3
<1>10. QED
  BY <1>9 DEF E

\* What the loop does at address a with r usable bytes to pass (memory.rs:252-267).
LEMMA WalkUnfold ==
    ASSUME NEW L, NEW a \in Nat, NEW r \in Nat
    PROVE  WalkOf(L)[<<a, r>>] =
               IF a >= ADDRESS_SPACE_END THEN None
               ELSE IF is_skip_area(L, a) THEN WalkOf(L)[<<a + 1, r>>]
               ELSE IF r = 0 THEN a
               ELSE WalkOf(L)[<<a + 1, r - 1>>]
<1>1. WalkOf(L) = [p \in Nat \X Nat |->
               IF p[1] >= ADDRESS_SPACE_END THEN None
               ELSE IF is_skip_area(L, p[1]) THEN WalkOf(L)[<<p[1] + 1, p[2]>>]
               ELSE IF p[2] = 0 THEN p[1]
               ELSE WalkOf(L)[<<p[1] + 1, p[2] - 1>>]]
  BY ZenonT(40), WalkSolvable DEF WalkOf
<1> DEFINE w == WalkOf(L)
<1>2. w = [p \in Nat \X Nat |->
               IF p[1] >= ADDRESS_SPACE_END THEN None
               ELSE IF is_skip_area(L, p[1]) THEN w[<<p[1] + 1, p[2]>>]
               ELSE IF p[2] = 0 THEN p[1]
               ELSE w[<<p[1] + 1, p[2] - 1>>]]
  BY <1>1
<1> HIDE DEF w
<1>3. <<a, r>> \in Nat \X Nat /\ <<a, r>>[1] = a /\ <<a, r>>[2] = r
  OBVIOUS
<1>4. w[<<a, r>>] =
               IF a >= ADDRESS_SPACE_END THEN None
               ELSE IF is_skip_area(L, a) THEN w[<<a + 1, r>>]
               ELSE IF r = 0 THEN a
               ELSE w[<<a + 1, r - 1>>]
  BY <1>2, <1>3
<1>5. QED
  BY <1>4 DEF w

-----------------------------------------------------------------------------

\* The usable bytes of the address space from address a on, and those before v.
UsableFrom(L, a)      == {y \in a..(ADDRESS_SPACE_END - 1) : ~is_skip_area(L, y)}
UsableBetween(L, a, v) == {y \in UsableFrom(L, a) : y < v}

\* Usable bytes can be counted.
LEMMA UsableFinite ==
    ASSUME NEW L, NEW a \in Nat
    PROVE  /\ IsFiniteSet(UsableFrom(L, a)) /\ Cardinality(UsableFrom(L, a)) \in Nat
           /\ \A v : /\ IsFiniteSet(UsableBetween(L, a, v))
                     /\ Cardinality(UsableBetween(L, a, v)) \in Nat
<1>1. IsFiniteSet(a..(ADDRESS_SPACE_END - 1))
  BY AddressSizes, FS_Interval
<1>2. UsableFrom(L, a) \in SUBSET (a..(ADDRESS_SPACE_END - 1))
  BY DEF UsableFrom
<1>3. \A v : UsableBetween(L, a, v) \in SUBSET (a..(ADDRESS_SPACE_END - 1))
  BY <1>2 DEF UsableBetween
<1>4. IsFiniteSet(UsableFrom(L, a)) /\ \A v : IsFiniteSet(UsableBetween(L, a, v))
  BY <1>1, <1>2, <1>3, FS_Subset
<1>5. QED
  BY <1>4, FS_CardinalityType

\* The loop has found the byte with r usable bytes between a and it, or there are
\* no more than r from a on.
Finds(L, a, r, v) ==
    IF v = None THEN Cardinality(UsableFrom(L, a)) <= r
    ELSE /\ v \in UsableFrom(L, a)
         /\ Cardinality(UsableBetween(L, a, v)) = r

\* One round of the loop: an area to skip does not count, a usable byte does.
LEMMA FindsStep ==
    ASSUME NEW L, NEW a \in 0..(ADDRESS_SPACE_END - 1), NEW r \in Nat, NEW v
    PROVE  /\ is_skip_area(L, a) /\ Finds(L, a + 1, r, v) => Finds(L, a, r, v)
           /\ ~is_skip_area(L, a) => Finds(L, a, 0, a)
           /\ ~is_skip_area(L, a) /\ Finds(L, a + 1, r, v) => Finds(L, a, r + 1, v)
<1> DEFINE E == ADDRESS_SPACE_END
<1>1. E \in Nat /\ a \in Nat /\ a + 1 \in Nat /\ a < E
  BY AddressSizes
<1> HIDE DEF E
<1>2. a..(E - 1) = ((a + 1)..(E - 1)) \cup {a}
  BY <1>1
<1>3. /\ IsFiniteSet(UsableFrom(L, a + 1)) /\ Cardinality(UsableFrom(L, a + 1)) \in Nat
      /\ \A u : /\ IsFiniteSet(UsableBetween(L, a + 1, u))
                /\ Cardinality(UsableBetween(L, a + 1, u)) \in Nat
  BY <1>1, UsableFinite
<1>4. CASE is_skip_area(L, a)
  <2>1. UsableFrom(L, a) = UsableFrom(L, a + 1)
    BY <1>2, <1>4 DEF UsableFrom, E
  <2>2. QED
    BY <1>4, <2>1 DEF Finds, UsableBetween
<1>5. CASE ~is_skip_area(L, a)
  <2>1. UsableFrom(L, a) = UsableFrom(L, a + 1) \cup {a}
    BY <1>2, <1>5 DEF UsableFrom, E
  <2>2. a \notin UsableFrom(L, a + 1) /\ \A y \in UsableFrom(L, a + 1) : y \in Nat /\ y > a
    BY <1>1 DEF UsableFrom, E
  <2>3. Finds(L, a, 0, a)
    <3>1. UsableBetween(L, a, a) = {}
      BY <1>1, <2>1, <2>2 DEF UsableBetween
    <3>2. a # None
      BY <1>1, AddressAssumption
    <3>3. QED
      BY <2>1, <3>1, <3>2, FS_EmptySet DEF Finds
  <2>4. ASSUME Finds(L, a + 1, r, v) PROVE Finds(L, a, r + 1, v)
    <3>1. CASE v = None
      <4>1. Cardinality(UsableFrom(L, a)) = Cardinality(UsableFrom(L, a + 1)) + 1
        BY <1>3, <2>1, <2>2, FS_AddElement
      <4>2. QED
        BY <1>3, <2>4, <3>1, <4>1 DEF Finds
    <3>2. CASE v # None
      <4>1. v \in UsableFrom(L, a + 1) /\ v > a
        BY <2>2, <2>4, <3>2 DEF Finds
      <4>2. UsableBetween(L, a, v) = UsableBetween(L, a + 1, v) \cup {a}
        BY <1>1, <2>1, <4>1 DEF UsableBetween
      <4>3. a \notin UsableBetween(L, a + 1, v)
        BY <2>2 DEF UsableBetween
      <4>4. Cardinality(UsableBetween(L, a, v)) = Cardinality(UsableBetween(L, a + 1, v)) + 1
        BY <1>3, <4>2, <4>3, FS_AddElement
      <4>5. QED
        BY <1>3, <2>1, <2>4, <3>2, <4>1, <4>4 DEF Finds
    <3>3. QED
      BY <3>1, <3>2
  <2>5. QED
    BY <1>5, <2>3, <2>4
<1>6. QED
  BY <1>4, <1>5

\* usable_offset_to_address from any address on, by induction from the end of the
\* address space down.
LEMMA WalkFinds ==
    ASSUME NEW L, NEW a \in 0..ADDRESS_SPACE_END, NEW r \in Nat
    PROVE  Finds(L, a, r, WalkOf(L)[<<a, r>>])
<1> DEFINE E == ADDRESS_SPACE_END
           S == {k \in Nat : k <= E => \A q \in Nat : Finds(L, E - k, q, WalkOf(L)[<<E - k, q>>])}
<1>0. E \in Nat
  BY AddressSizes
<1>1. 0 \in S
  <2>1. ASSUME NEW q \in Nat PROVE Finds(L, E, q, WalkOf(L)[<<E, q>>])
    <3>1. WalkOf(L)[<<E, q>>] = None
      <4>1. E >= E
        BY <1>0
      <4>2. QED
        BY Zenon, <1>0, <4>1, WalkUnfold
    <3>2. UsableFrom(L, E) = {}
      BY <1>0 DEF UsableFrom
    <3>3. QED
      BY <3>1, <3>2, FS_EmptySet DEF Finds
  <2>2. E - 0 = E
    BY <1>0
  <2>3. QED
    BY <2>1, <2>2
<1>2. ASSUME NEW k \in Nat, k \in S PROVE k + 1 \in S
  <2>1. SUFFICES ASSUME k + 1 <= E, NEW q \in Nat
                 PROVE  Finds(L, E - (k + 1), q, WalkOf(L)[<<E - (k + 1), q>>])
    OBVIOUS
  <2> DEFINE b == E - (k + 1)
  <2>2. b \in 0..(E - 1) /\ b + 1 = E - k /\ b \in Nat /\ ~(b >= E)
    BY <1>0, <2>1
  <2>3. \A p \in Nat : Finds(L, b + 1, p, WalkOf(L)[<<b + 1, p>>])
    BY <1>0, <1>2, <2>1, <2>2
  <2>9. SUFFICES Finds(L, b, q, WalkOf(L)[<<b, q>>])
    OBVIOUS
  <2> HIDE DEF b
  <2>4. WalkOf(L)[<<b, q>>] =
               IF is_skip_area(L, b) THEN WalkOf(L)[<<b + 1, q>>]
               ELSE IF q = 0 THEN b
               ELSE WalkOf(L)[<<b + 1, q - 1>>]
    BY <2>2, WalkUnfold
  <2>5. CASE is_skip_area(L, b)
    <3>1. Finds(L, b, q, WalkOf(L)[<<b + 1, q>>])
      BY <2>2, <2>3, <2>5, FindsStep
    <3>2. QED
      BY Zenon, <2>4, <2>5, <3>1
  <2>6. CASE ~is_skip_area(L, b) /\ q = 0
    <3>1. Finds(L, b, 0, b)
      BY <2>2, <2>6, FindsStep
    <3>2. QED
      BY Zenon, <2>4, <2>6, <3>1
  <2>7. CASE ~is_skip_area(L, b) /\ q # 0
    <3>1. q - 1 \in Nat /\ (q - 1) + 1 = q
      BY <2>7
    <3>2. Finds(L, b, (q - 1) + 1, WalkOf(L)[<<b + 1, q - 1>>])
      BY <2>2, <2>3, <2>7, <3>1, FindsStep
    <3>3. QED
      BY Zenon, <2>4, <2>7, <3>1, <3>2
  <2>8. QED
    BY <2>5, <2>6, <2>7
<1>3. Nat \subseteq S
  <2> HIDE DEF S
  <2>1. QED
    BY <1>1, <1>2, SetInduction
<1>4. E - a \in Nat /\ E - a <= E /\ E - (E - a) = a
  BY <1>0
<1>5. QED
  BY <1>3, <1>4

-----------------------------------------------------------------------------

\* The sum over a list of areas adds up their sizes (memory.rs:194-210).
LEMMA SizesUnfold ==
    ASSUME NEW areas \in Seq(Areas)
    PROVE  /\ SizesUpTo(areas)[0] = 0
           /\ \A i \in 1..Len(areas) :
                 SizesUpTo(areas)[i] = SizesUpTo(areas)[i - 1] + (areas[i].end - areas[i].start)
           /\ \A i \in 0..Len(areas) : SizesUpTo(areas)[i] \in Nat
<1> DEFINE body == [p \in (1..Len(areas)) \X Nat |->
                       p[2] + (areas[p[1]].end - areas[p[1]].start)]
<1>1. Len(areas) \in Nat
  OBVIOUS
<1>2. \A i \in 1..Len(areas) : areas[i].end - areas[i].start \in Nat
  BY DEF Areas
<1>3. body \in [(1..Len(areas)) \X Nat -> Nat]
  <2>1. \A p \in (1..Len(areas)) \X Nat :
           p[2] + (areas[p[1]].end - areas[p[1]].start) \in Nat
    BY <1>2
  <2>2. QED
    BY <2>1
<1>4. \A i \in 1..Len(areas), m \in Nat :
         body[<<i, m>>] = m + (areas[i].end - areas[i].start)
  OBVIOUS
<1> HIDE DEF body
<1>5. 0 \in Nat
  OBVIOUS
<1>6. PICK f : Rounds(f, Len(areas), Nat, 0, body)
  BY Zenon, <1>1, <1>3, <1>5, PrimitiveRecursion
<1>7. \A i \in 1..Len(areas) : f[i] = f[i - 1] + (areas[i].end - areas[i].start)
  <2>1. \A i \in 1..Len(areas) : f[i - 1] \in Nat
    BY <1>1, <1>6 DEF Rounds
  <2>2. QED
    BY <1>4, <1>6, <2>1 DEF Rounds
<1>8. f = [i \in 0..Len(areas) |->
              IF i = 0 THEN 0 ELSE f[i - 1] + (areas[i].end - areas[i].start)]
  <2>1. \A i \in 0..Len(areas) : i = 0 \/ i \in 1..Len(areas)
    BY <1>1
  <2>2. QED
    BY <1>6, <1>7, <2>1 DEF Rounds
<1> DEFINE g == SizesUpTo(areas)
<1>9. g = [i \in 0..Len(areas) |->
              IF i = 0 THEN 0 ELSE g[i - 1] + (areas[i].end - areas[i].start)]
  BY <1>8 DEF SizesUpTo
<1>10. SUFFICES /\ g[0] = 0
                /\ \A i \in 1..Len(areas) : g[i] = g[i - 1] + (areas[i].end - areas[i].start)
                /\ \A i \in 0..Len(areas) : g[i] \in Nat
  OBVIOUS
<1> HIDE DEF g
<1>11. \A i \in 0..Len(areas) : g[i] =
              IF i = 0 THEN 0 ELSE g[i - 1] + (areas[i].end - areas[i].start)
  BY <1>9
<1>12. /\ g[0] = 0
       /\ \A i \in 1..Len(areas) : g[i] = g[i - 1] + (areas[i].end - areas[i].start)
  BY <1>1, <1>11
<1>13. \A i \in 1..Len(areas) : g[i - 1] \in Nat => g[i] \in Nat
  BY <1>2, <1>12
<1>14. \A i \in 0..Len(areas) : g[i] \in Nat
  BY <1>1, <1>5, <1>12, <1>13, RecursionType
<1>15. QED
  BY <1>12, <1>14

\* The addresses in the first i areas of a list.
Covered(areas, i) == {y \in Nat : \E j \in 1..i : InArea(areas[j], y)}

\* Areas that overlap cover no more than the sum of their sizes.
LEMMA CoveredBounded ==
    ASSUME NEW areas \in Seq(Areas)
    PROVE  /\ TotalSize(areas) \in Nat
           /\ IsFiniteSet(Covered(areas, Len(areas)))
           /\ Cardinality(Covered(areas, Len(areas))) \in Nat
           /\ Cardinality(Covered(areas, Len(areas))) <= TotalSize(areas)
<1> DEFINE g == SizesUpTo(areas)
           S == {k \in Nat : k <= Len(areas) =>
                    /\ IsFiniteSet(Covered(areas, k))
                    /\ Cardinality(Covered(areas, k)) <= g[k]}
<1>0. Len(areas) \in Nat
  OBVIOUS
<1>1. /\ g[0] = 0
      /\ \A i \in 1..Len(areas) : g[i] = g[i - 1] + (areas[i].end - areas[i].start)
      /\ \A i \in 0..Len(areas) : g[i] \in Nat
  BY SizesUnfold
<1> HIDE DEF g
<1>2. 0 \in S
  <2>1. Covered(areas, 0) = {}
    BY DEF Covered
  <2>2. IsFiniteSet(Covered(areas, 0)) /\ Cardinality(Covered(areas, 0)) = 0
    BY <2>1, FS_EmptySet
  <2>3. QED
    BY <1>1, <2>2
<1>3. ASSUME NEW k \in Nat, k \in S PROVE k + 1 \in S
  <2>1. SUFFICES ASSUME k + 1 <= Len(areas)
                 PROVE  /\ IsFiniteSet(Covered(areas, k + 1))
                        /\ Cardinality(Covered(areas, k + 1)) <= g[k + 1]
    BY <1>3
  <2> DEFINE A == Covered(areas, k)
             s == areas[k + 1].start
             e == areas[k + 1].end
             B == s..(e - 1)
  <2>2. IsFiniteSet(A) /\ Cardinality(A) <= g[k] /\ Cardinality(A) \in Nat
    BY <1>0, <1>3, <2>1, FS_CardinalityType
  <2>3. s \in Nat /\ e \in Nat /\ s <= e
    <3>1. areas[k + 1] \in Areas
      BY <2>1
    <3>2. QED
      BY <3>1 DEF Areas
  <2>4. Covered(areas, k + 1) = A \cup B
    <3>1. \A y \in Nat : InArea(areas[k + 1], y) <=> y \in B
      BY <2>3 DEF InArea
    <3>2. \A y \in B : y \in Nat
      BY <2>3
    <3>3. 1..(k + 1) = (1..k) \cup {k + 1}
      OBVIOUS
    <3> HIDE DEF B
    <3>4. QED
      BY <3>1, <3>2, <3>3 DEF Covered
  <2>5. g[k + 1] = g[k] + (e - s) /\ g[k] \in Nat
    <3>1. k + 1 \in 1..Len(areas) /\ (k + 1) - 1 = k /\ k \in 0..Len(areas)
      BY <1>0, <2>1
    <3>2. QED
      BY <1>1, <3>1
  <2> HIDE DEF A, s, e
  <2>6. IsFiniteSet(B) /\ Cardinality(B) = e - s
    <3>1. s \in Int /\ e - 1 \in Int
      BY <2>3
    <3>2. /\ IsFiniteSet(s..(e - 1))
          /\ Cardinality(s..(e - 1)) = IF s > e - 1 THEN 0 ELSE (e - 1) - s + 1
      BY <3>1, FS_Interval
    <3>3. (IF s > e - 1 THEN 0 ELSE (e - 1) - s + 1) = e - s
      BY <2>3
    <3>4. QED
      BY <3>2, <3>3
  <2> HIDE DEF B
  <2>7. /\ IsFiniteSet(A \cup B)
        /\ Cardinality(A \cup B) = Cardinality(A) + Cardinality(B) - Cardinality(A \cap B)
    BY <2>2, <2>6, FS_Union
  <2>8. Cardinality(A \cap B) \in Nat
    BY <2>2, FS_Intersection, FS_CardinalityType
  <2>9. Cardinality(A \cup B) <= g[k + 1]
    BY <2>2, <2>3, <2>5, <2>6, <2>7, <2>8
  <2>10. QED
    BY <2>4, <2>7, <2>9
<1>4. Nat \subseteq S
  <2> HIDE DEF S
  <2>1. QED
    BY <1>2, <1>3, SetInduction
<1>5. /\ IsFiniteSet(Covered(areas, Len(areas)))
      /\ Cardinality(Covered(areas, Len(areas))) <= g[Len(areas)]
  BY <1>0, <1>4
<1>6. TotalSize(areas) = g[Len(areas)] /\ TotalSize(areas) \in Nat
  BY <1>0, <1>1 DEF TotalSize, g
<1>7. QED
  BY <1>5, <1>6, FS_CardinalityType

-----------------------------------------------------------------------------

\* The layouts from_cc_and_tlvs makes: every area is one of an accepted control
\* block, or the only lock area is the default one (memory.rs:148-187).
Layouts ==
    {L \in [data_area_size : Nat, lock_areas : Seq(Areas), reserved_areas : Seq(Declared)] :
        \/ L.lock_areas \in Seq(Declared)
        \/ L.lock_areas = <<default_dynamic_lock_area(L.data_area_size)>>}

\* An address with m usable bytes before it, in the data area, is no further up than
\* the areas push it.
LEMMA PushedUp ==
    ASSUME NEW L \in Layouts, NEW m \in Nat, NEW v \in Nat,
           Finds(L, DATA_START, m, v)
    PROVE  v <= DATA_START + m + TotalSize(L.lock_areas) + TotalSize(L.reserved_areas)
<1> DEFINE D == DATA_START
           E == ADDRESS_SPACE_END
           U == UsableBetween(L, D, v)
           C == Covered(L.lock_areas, Len(L.lock_areas))
           R == Covered(L.reserved_areas, Len(L.reserved_areas))
<1>1. D \in Nat /\ E \in Nat
  BY AddressSizes
<1>2. L.lock_areas \in Seq(Areas) /\ L.reserved_areas \in Seq(Areas)
  BY DEF Layouts, Declared
<1>3. v # None
  BY AddressAssumption
<1>4. v \in D..(E - 1) /\ Cardinality(U) = m
  BY <1>3 DEF Finds, UsableFrom
<1>5. /\ IsFiniteSet(C) /\ Cardinality(C) \in Nat /\ Cardinality(C) <= TotalSize(L.lock_areas)
      /\ IsFiniteSet(R) /\ Cardinality(R) \in Nat
      /\ Cardinality(R) <= TotalSize(L.reserved_areas)
      /\ TotalSize(L.lock_areas) \in Nat /\ TotalSize(L.reserved_areas) \in Nat
  BY <1>2, CoveredBounded
<1>6. IsFiniteSet(U)
  BY <1>1, UsableFinite
<1>7. D..(v - 1) \subseteq U \cup (C \cup R)
  <2>1. SUFFICES ASSUME NEW y \in D..(v - 1) PROVE y \in U \cup (C \cup R)
    OBVIOUS
  <2>2. y \in Nat /\ y \in D..(E - 1) /\ y < v
    BY <1>1, <1>4, <2>1
  <2>3. CASE ~is_skip_area(L, y)
    BY <2>2, <2>3 DEF UsableBetween, UsableFrom
  <2>4. CASE is_skip_area(L, y)
    BY <2>2, <2>4 DEF is_skip_area, AnyContains, Covered
  <2>5. QED
    BY <2>3, <2>4
<1>8. Cardinality(D..(v - 1)) = v - D
  <2>1. D \in Int /\ v - 1 \in Int
    BY <1>1
  <2>2. Cardinality(D..(v - 1)) = IF D > v - 1 THEN 0 ELSE (v - 1) - D + 1
    BY <2>1, FS_Interval
  <2>3. QED
    BY <1>1, <1>4, <2>2
<1> HIDE DEF D, E, U, C, R
<1>9. /\ IsFiniteSet(C \cup R) /\ Cardinality(C \cup R) \in Nat
      /\ Cardinality(C \cup R) <= Cardinality(C) + Cardinality(R)
  <2>1. /\ IsFiniteSet(C \cup R)
        /\ Cardinality(C \cup R) = Cardinality(C) + Cardinality(R) - Cardinality(C \cap R)
    BY <1>5, FS_Union
  <2>2. Cardinality(C \cap R) \in Nat /\ Cardinality(C \cup R) \in Nat
    BY <1>5, <2>1, FS_Intersection, FS_CardinalityType
  <2>3. QED
    BY <1>5, <2>1, <2>2
<1>10. /\ IsFiniteSet(U \cup (C \cup R))
       /\ Cardinality(U \cup (C \cup R)) <= m + Cardinality(C \cup R)
  <2> DEFINE CR == C \cup R
  <2> HIDE DEF CR
  <2>0. IsFiniteSet(CR) /\ Cardinality(CR) \in Nat
    BY <1>9 DEF CR
  <2>1. /\ IsFiniteSet(U \cup CR)
        /\ Cardinality(U \cup CR) = Cardinality(U) + Cardinality(CR) - Cardinality(U \cap CR)
    BY <1>6, <2>0, FS_Union
  <2>2. Cardinality(U \cap CR) \in Nat
    BY <1>6, FS_Intersection, FS_CardinalityType
  <2>3. IsFiniteSet(U \cup CR) /\ Cardinality(U \cup CR) <= m + Cardinality(CR)
    BY <1>4, <2>0, <2>1, <2>2
  <2>4. QED
    BY <2>3 DEF CR
<1>11. /\ Cardinality(D..(v - 1)) <= Cardinality(U \cup (C \cup R))
       /\ Cardinality(U \cup (C \cup R)) \in Nat
  BY <1>7, <1>10, FS_Subset, FS_CardinalityType
<1>12. v - D <= m + TotalSize(L.lock_areas) + TotalSize(L.reserved_areas)
  BY <1>1, <1>5, <1>8, <1>9, <1>10, <1>11
<1>13. QED
  BY <1>1, <1>5, <1>12 DEF D

\* Rounding up a division loses nothing.
LEMMA DivCeilCovers ==
    ASSUME NEW x \in Nat, NEW z \in Nat \ {0}
    PROVE  DivCeil(x, z) \in Nat /\ x <= DivCeil(x, z) * z
<1> DEFINE q == (x + z - 1) \div z
<1>1. x + z - 1 \in Nat
  OBVIOUS
<1>2. q \in Nat /\ z * q > (x + z - 1) - z
  BY <1>1
<1>3. DivCeil(x, z) = q
  BY DEF DivCeil
<1> HIDE DEF q
<1>4. q * z = z * q /\ z * q \in Nat
  BY <1>2
<1>5. QED
  BY <1>2, <1>3, <1>4

\* A larger term makes a larger sum (memory.rs:194-209).
LEMMA LargerSum ==
    ASSUME NEW m \in Nat, NEW n \in Nat, NEW d \in Nat, NEW x \in Nat, NEW y \in Nat,
           NEW v \in Nat, m < n, v <= d + m + x + y
    PROVE  v < n + d + x + y /\ n + d + x + y \in Nat
  OBVIOUS

\* The sectors sector_count gives hold every byte of the data area.
LEMMA SectorCountHolds ==
    ASSUME NEW L \in Layouts, NEW m \in Nat, NEW v \in Nat,
           Finds(L, DATA_START, m, v), m < L.data_area_size
    PROVE  v < sector_count(L) * SECTOR_SIZE
<1> DEFINE T == L.data_area_size + DATA_START + TotalSize(L.lock_areas)
                    + TotalSize(L.reserved_areas)
           c == DivCeil(T, SECTOR_SIZE)
<1>1. SECTOR_SIZE \in Nat \ {0} /\ DATA_START \in Nat
  BY AddressSizes
<1>2. L.lock_areas \in Seq(Areas) /\ L.reserved_areas \in Seq(Areas) /\ L.data_area_size \in Nat
  BY DEF Layouts, Declared
<1>3. TotalSize(L.lock_areas) \in Nat /\ TotalSize(L.reserved_areas) \in Nat
  BY <1>2, CoveredBounded
<1>4. v < T /\ T \in Nat
  <2>1. v <= DATA_START + m + TotalSize(L.lock_areas) + TotalSize(L.reserved_areas)
    BY PushedUp
  <2>2. L.data_area_size \in Nat
    BY <1>2
  <2>3. QED
    BY Zenon, <1>1, <1>3, <2>1, <2>2, LargerSum
<1>5. v < ADDRESS_SPACE_END
  BY AddressAssumption, AddressSizes DEF Finds, UsableFrom
<1>6. sector_count(L) = IF c > MAX_SECTOR + 1 THEN MAX_SECTOR + 1 ELSE c
  BY DEF sector_count
<1> HIDE DEF T
<1>7. c \in Nat /\ T <= c * SECTOR_SIZE
  BY <1>1, <1>4, DivCeilCovers
<1> HIDE DEF c
<1>8. c * SECTOR_SIZE \in Nat
  BY <1>1, <1>7
<1>9. v < c * SECTOR_SIZE
  BY <1>4, <1>7, <1>8
<1>10. v < (MAX_SECTOR + 1) * SECTOR_SIZE
  BY <1>5 DEF ADDRESS_SPACE_END
<1>11. QED
  BY <1>6, <1>9, <1>10

-----------------------------------------------------------------------------

\* The default lock area of a dynamic tag is an area (memory.rs:271-282).
LEMMA DefaultArea ==
    ASSUME NEW size \in Nat
    PROVE  default_dynamic_lock_area(size) \in Areas
<1> DEFINE extra == IF size > STATIC_DATA_AREA_SIZE THEN size - STATIC_DATA_AREA_SIZE ELSE 0
           bits  == (extra + 7) \div 8
           bytes == (bits + 7) \div 8
<1>1. STATIC_DATA_AREA_SIZE \in Nat /\ DATA_START \in Nat
  BY CcAssumption, AddressSizes DEF STATIC_DATA_AREA_SIZE
<1>2. extra \in Nat
  BY <1>1
<1> HIDE DEF extra
<1>3. bits \in Nat
  BY <1>2
<1> HIDE DEF bits
<1>4. bytes \in Nat
  BY <1>3
<1>5. default_dynamic_lock_area(size) = Area(DATA_START + size, bytes)
  BY DEF default_dynamic_lock_area, bits, extra
<1> HIDE DEF bytes
<1>6. QED
  BY <1>1, <1>4, <1>5 DEF Area, Areas

\* The layout of a Capability Container and the blocks parse_tlvs returned.
LEMMA LayoutOfTag ==
    ASSUME NEW cc, cc.size_field \in Nat, NEW tlvs \in Seq(TlvBlocks)
    PROVE  from_cc_and_tlvs(cc, tlvs) \in Layouts
<1> DEFINE size  == data_area_size(cc)
           locks == AreasOf(tlvs, TLV_LOCK_CONTROL)
           reserved == AreasOf(tlvs, TLV_MEMORY_CONTROL)
           L     == from_cc_and_tlvs(cc, tlvs)
<1>1. size \in Nat
  BY DEF data_area_size
<1>2. locks \in Seq(Declared) /\ reserved \in Seq(Declared)
  BY AreasDeclared DEF ControlTags
<1>3. \A s \in Seq(Declared) : s \in Seq(Areas)
  BY DEF Declared
<1>4. <<default_dynamic_lock_area(size)>> \in Seq(Areas)
  BY <1>1, DefaultArea
<1>5. /\ L = [data_area_size |-> size, lock_areas |-> L.lock_areas, reserved_areas |-> reserved]
      /\ L.lock_areas = locks \/ L.lock_areas = <<default_dynamic_lock_area(size)>>
      /\ L.data_area_size = size
  BY DEF from_cc_and_tlvs
<1> HIDE DEF L, size, locks, reserved
<1>6. L.lock_areas \in Seq(Areas)
  <2>1. CASE L.lock_areas = locks
    BY <1>2, <1>3, <2>1
  <2>2. CASE L.lock_areas = <<default_dynamic_lock_area(size)>>
    BY <1>4, <2>2
  <2>3. QED
    BY <1>5, <2>1, <2>2
<1>7. L \in [data_area_size : Nat, lock_areas : Seq(Areas), reserved_areas : Seq(Declared)]
  BY <1>1, <1>2, <1>5, <1>6
<1>8. L \in Layouts
  BY <1>2, <1>5, <1>6, <1>7 DEF Layouts
<1>9. QED
  BY <1>8 DEF L

=============================================================================
