-------------------------- MODULE NdefAccessProofs --------------------------
(***************************************************************************)
(* read_ndef and write_ndef for every tag, message and address space: the  *)
(* state is well typed, read_ndef returns what the tag held, and           *)
(* write_ndef writes only to a tag that may be written, only its own TLV   *)
(* and the length last, and is not refused halfway.                        *)
(***************************************************************************)
EXTENDS NdefAccess, MemoryLayoutProofs

-----------------------------------------------------------------------------
(* The blocks in front of the message. *)

\* The value of an NDEF Message or Proprietary block is a string of bytes.
LEMMA BlockValues ==
    ASSUME NEW b \in TlvBlocks
    PROVE  /\ b.tag \in {TLV_NULL, TLV_TERMINATOR} \cup ControlTags \cup ValueTags
           /\ b.tag \in ValueTags => b.value \in Seq(Byte)
  BY TagsDiffer DEF TlvBlocks, Block, ControlTags

\* A block counts for a number of bytes (reader.rs:466-485).
LEMMA BlockLengthNat ==
    ASSUME NEW b \in TlvBlocks
    PROVE  BlockLength(b) \in Nat
<1>1. /\ b.tag \in {TLV_NULL, TLV_TERMINATOR} \cup ControlTags \cup ValueTags
      /\ b.tag \in ValueTags => b.value \in Seq(Byte)
  BY BlockValues
<1>2. b.tag = TLV_PROPRIETARY =>
         1 + LengthFieldSize(Len(b.value)) + Len(b.value) \in Nat
  <2>1. b.tag = TLV_PROPRIETARY => Len(b.value) \in Nat
    BY <1>1 DEF ValueTags
  <2>2. \A m : LengthFieldSize(m) \in {1, 3}
    BY DEF LengthFieldSize
  <2>3. QED
    BY <2>1, <2>2
<1>3. 0 \in Nat /\ 1 \in Nat /\ 5 \in Nat
  OBVIOUS
<1>4. QED
  BY Zenon, <1>1, <1>2, <1>3 DEF BlockLength, ValueTags

\* write_ndef counts a number of bytes in front of the message (reader.rs:461-489).
LEMMA LengthsNat ==
    ASSUME NEW bs \in Seq(TlvBlocks)
    PROVE  \A i \in 0..Len(bs) : LengthsUpTo(bs)[i] \in Nat
<1> DEFINE body == [p \in (1..Len(bs)) \X Nat |-> p[2] + BlockLength(bs[p[1]])]
<1>1. Len(bs) \in Nat /\ 0 \in Nat
  OBVIOUS
<1>2. \A i \in 1..Len(bs) : BlockLength(bs[i]) \in Nat
  BY BlockLengthNat
<1>3. body \in [(1..Len(bs)) \X Nat -> Nat]
  <2>1. \A p \in (1..Len(bs)) \X Nat : p[2] + BlockLength(bs[p[1]]) \in Nat
    BY <1>2
  <2>2. QED
    BY <2>1
<1>4. \A i \in 1..Len(bs), m \in Nat : body[<<i, m>>] = m + BlockLength(bs[i])
  OBVIOUS
<1> HIDE DEF body
<1>5. PICK f : Rounds(f, Len(bs), Nat, 0, body)
  BY Zenon, <1>1, <1>3, PrimitiveRecursion
<1>6. \A i \in 1..Len(bs) : f[i] = f[i - 1] + BlockLength(bs[i])
  <2>0. f \in [0..Len(bs) -> Nat] /\ \A i \in 1..Len(bs) : i - 1 \in 0..Len(bs)
    BY <1>1, <1>5 DEF Rounds
  <2>1. \A i \in 1..Len(bs) : f[i - 1] \in Nat
    BY <2>0
  <2>2. QED
    BY <1>4, <1>5, <2>1 DEF Rounds
<1>7. f = [i \in 0..Len(bs) |-> IF i = 0 THEN 0 ELSE f[i - 1] + BlockLength(bs[i])]
  <2>1. \A i \in 0..Len(bs) : i = 0 \/ i \in 1..Len(bs)
    BY <1>1
  <2>2. QED
    BY <1>5, <1>6, <2>1 DEF Rounds
<1> DEFINE g == LengthsUpTo(bs)
<1>8. g = [i \in 0..Len(bs) |-> IF i = 0 THEN 0 ELSE g[i - 1] + BlockLength(bs[i])]
  BY <1>7 DEF LengthsUpTo
<1>9. SUFFICES \A i \in 0..Len(bs) : g[i] \in Nat
  OBVIOUS
<1> HIDE DEF g
<1>10. \A i \in 0..Len(bs) : g[i] = IF i = 0 THEN 0 ELSE g[i - 1] + BlockLength(bs[i])
  BY <1>8
<1>11. g[0] = 0 /\ \A i \in 1..Len(bs) : g[i] = g[i - 1] + BlockLength(bs[i])
  BY <1>1, <1>10
<1>12. \A i \in 1..Len(bs) : g[i - 1] \in Nat => g[i] \in Nat
  BY <1>2, <1>11
<1>13. QED
  BY <1>1, <1>11, <1>12, RecursionType

\* The NDEF Message TLV, if there is one, is one of the blocks.
LEMMA FirstNdefIs ==
    ASSUME NEW bs \in Seq(TlvBlocks), FirstNdef(bs) # None
    PROVE  /\ FirstNdef(bs) \in 1..Len(bs)
           /\ bs[FirstNdef(bs)].value \in Seq(Byte)
           /\ NdefOffset(bs) \in Nat
<1> DEFINE at == {i \in 1..Len(bs) : bs[i].tag = TLV_NDEF_MESSAGE}
<1>1. /\ at # {}
      /\ FirstNdef(bs) = CHOOSE i \in at : \A j \in at : i <= j
  BY DEF FirstNdef
<1>2. at \in SUBSET Nat
  OBVIOUS
<1>3. \E i \in at : \A j \in at : i <= j
  <2> HIDE DEF at
  <2>1. QED
    BY <1>1, <1>2, LeastElement
<1>4. FirstNdef(bs) \in at
  BY <1>1, <1>3
<1>5. FirstNdef(bs) \in 1..Len(bs) /\ bs[FirstNdef(bs)].tag = TLV_NDEF_MESSAGE
  BY <1>4
<1>6. bs[FirstNdef(bs)].value \in Seq(Byte)
  BY <1>5, BlockValues DEF ValueTags
<1>7. FirstNdef(bs) - 1 \in 0..Len(bs)
  BY <1>5
<1>8. QED
  BY <1>5, <1>6, <1>7, LengthsNat DEF NdefOffset

-----------------------------------------------------------------------------
(* What a tag holds. *)

\* The bytes of the data area up to an address are those up to the address before it
\* and, if it is in no area and the data area not complete, the byte between.
LEMMA DataUpToUnfold ==
    ASSUME NEW mem \in [Address -> Byte], NEW l
    PROVE  LET D == DataUpTo(mem, l)
               M == ADDRESS_SPACE_END - DATA_START
           IN /\ D[0] = <<>>
              /\ \A i \in 0..M : D[i] \in Seq(Byte)
              /\ \A i \in 1..M : D[i] =
                    IF is_skip_area(l, DATA_START + i - 1) \/ Len(D[i - 1]) >= l.data_area_size
                        THEN D[i - 1] ELSE Append(D[i - 1], mem[DATA_START + i - 1])
<1> DEFINE M    == ADDRESS_SPACE_END - DATA_START
           Stop(i, d) == is_skip_area(l, DATA_START + i - 1) \/ Len(d) >= l.data_area_size
           More(i, d) == IF Stop(i, d) THEN d ELSE Append(d, mem[DATA_START + i - 1])
           body == [p \in (1..M) \X Seq(Byte) |-> More(p[1], p[2])]
<1>1. M \in Nat /\ <<>> \in Seq(Byte)
  BY AddressSizes
<1>2. \A i \in 1..M : mem[DATA_START + i - 1] \in Byte
  BY AddressSizes DEF Address
<1>2a. \A i, d : Stop(i, d) \in BOOLEAN
  BY DEF is_skip_area
<1> HIDE DEF Stop
<1>3. \A i \in 1..M, d \in Seq(Byte) : More(i, d) \in Seq(Byte)
  BY <1>2, <1>2a
<1>4. body \in [(1..M) \X Seq(Byte) -> Seq(Byte)]
  <2> HIDE DEF More
  <2>1. \A p \in (1..M) \X Seq(Byte) : More(p[1], p[2]) \in Seq(Byte)
    BY <1>3
  <2>2. QED
    BY <2>1
<1>5. \A i \in 1..M, d \in Seq(Byte) : body[<<i, d>>] = More(i, d)
  OBVIOUS
<1> HIDE DEF body
<1>6. PICK f : Rounds(f, M, Seq(Byte), <<>>, body)
  BY Zenon, <1>1, <1>4, PrimitiveRecursion
<1>7. \A i \in 1..M : f[i] = More(i, f[i - 1])
  <2> HIDE DEF M, More
  <2>1. \A i \in 1..M : f[i - 1] \in Seq(Byte)
    BY <1>1, <1>6 DEF Rounds
  <2>2. QED
    BY <1>5, <1>6, <2>1 DEF Rounds
<1>8. f = [i \in 0..M |-> IF i = 0 THEN <<>> ELSE More(i, f[i - 1])]
  <2> HIDE DEF M, More
  <2>1. \A i \in 0..M : i = 0 \/ i \in 1..M
    BY <1>1
  <2>2. QED
    BY <1>6, <1>7, <2>1 DEF Rounds
<1> DEFINE g == DataUpTo(mem, l)
<1>9. g = [i \in 0..M |-> IF i = 0 THEN <<>> ELSE More(i, g[i - 1])]
  BY <1>8 DEF DataUpTo, Stop
<1> HIDE DEF g, More, M
<1>10. \A i \in 0..M : g[i] = IF i = 0 THEN <<>> ELSE More(i, g[i - 1])
  BY <1>9
<1>11. g[0] = <<>> /\ \A i \in 1..M : g[i] = More(i, g[i - 1])
  BY <1>1, <1>10
<1>12. g[0] \in Seq(Byte) /\ \A i \in 1..M : g[i - 1] \in Seq(Byte) => g[i] \in Seq(Byte)
  BY <1>1, <1>3, <1>11
<1>13. \A i \in 0..M : g[i] \in Seq(Byte)
  BY <1>1, <1>12, RecursionType
<1>14. QED
  BY <1>11, <1>13 DEF g, More, Stop, M

\* The data area of a tag is a string of bytes.
LEMMA DataAreaBytes ==
    ASSUME NEW mem \in [Address -> Byte], NEW l
    PROVE  DataArea(mem, l) \in Seq(Byte)
<1>1. ADDRESS_SPACE_END - DATA_START \in 0..(ADDRESS_SPACE_END - DATA_START)
  BY AddressSizes
<1>2. QED
  BY <1>1, DataUpToUnfold DEF DataArea

\* What has been read up to an address begins the data area, and is all of it once
\* as many bytes have been read as the container declares (reader.rs:300-306).
LEMMA DataGoesOn ==
    ASSUME NEW mem \in [Address -> Byte], NEW l,
           NEW i \in 0..(ADDRESS_SPACE_END - DATA_START)
    PROVE  LET d == DataUpTo(mem, l)[i]
           IN /\ \E x \in Seq(Byte) : DataArea(mem, l) = d \o x
              /\ Len(d) >= l.data_area_size => DataArea(mem, l) = d
<1> DEFINE D == DataUpTo(mem, l)
           M == ADDRESS_SPACE_END - DATA_START
           Full == Len(D[i]) >= l.data_area_size
           S == {k \in Nat : i + k <= M =>
                    /\ \E x \in Seq(Byte) : D[i + k] = D[i] \o x
                    /\ Full => D[i + k] = D[i]}
<1>0. M \in Nat /\ i \in Nat /\ i <= M
  BY AddressSizes
<1>1. /\ \A j \in 0..M : D[j] \in Seq(Byte)
      /\ \A j \in 1..M : D[j] =
            IF is_skip_area(l, DATA_START + j - 1) \/ Len(D[j - 1]) >= l.data_area_size
                THEN D[j - 1] ELSE Append(D[j - 1], mem[DATA_START + j - 1])
  BY DataUpToUnfold
<1>2. \A j \in 1..M : mem[DATA_START + j - 1] \in Byte
  BY AddressSizes DEF Address
<1>3. SUFFICES /\ \E x \in Seq(Byte) : D[M] = D[i] \o x
               /\ Full => D[M] = D[i]
  BY DEF DataArea
<1> HIDE DEF D, M
<1>4. 0 \in S
  <2>1. i + 0 = i /\ D[i] \o <<>> = D[i] /\ <<>> \in Seq(Byte)
    BY <1>0, <1>1
  <2>2. QED
    BY <2>1
<1>5. ASSUME NEW k \in Nat, k \in S PROVE k + 1 \in S
  <2>1. SUFFICES ASSUME i + (k + 1) <= M
                 PROVE  /\ \E x \in Seq(Byte) : D[i + (k + 1)] = D[i] \o x
                        /\ Full => D[i + (k + 1)] = D[i]
    OBVIOUS
  <2> DEFINE j == i + (k + 1)
             y == mem[DATA_START + j - 1]
  <2>2. j \in 1..M /\ j - 1 = i + k /\ i + k <= M
    BY <1>0, <2>1
  <2>3. PICK x \in Seq(Byte) : D[i + k] = D[i] \o x
    BY <1>5, <2>2
  <2>4. Full => D[i + k] = D[i]
    BY <1>5, <2>2
  <2>5. D[j] = IF is_skip_area(l, DATA_START + j - 1) \/ Len(D[i + k]) >= l.data_area_size
                   THEN D[i + k] ELSE Append(D[i + k], y)
    BY <1>1, <2>2
  <2>6. y \in Byte
    BY <1>2, <2>2
  <2> HIDE DEF j, y
  <2>7. D[j] = D[i + k] \/ D[j] = Append(D[i + k], y)
    BY <2>5
  <2>8. Append(D[i] \o x, y) = D[i] \o Append(x, y) /\ Append(x, y) \in Seq(Byte)
    <3>1. D[i] \in Seq(Byte)
      BY <1>0, <1>1
    <3>2. \A s, z \in Seq(Byte), b \in Byte : Append(s \o z, b) = s \o Append(z, b)
      BY SMTT(40)
    <3>3. \A z \in Seq(Byte), b \in Byte : Append(z, b) \in Seq(Byte)
      OBVIOUS
    <3>4. QED
      BY Zenon, <2>3, <2>6, <3>1, <3>2, <3>3
  <2>9. \E z \in Seq(Byte) : D[j] = D[i] \o z
    BY <2>3, <2>7, <2>8
  <2>10. Full => D[j] = D[i]
    BY <2>4, <2>5
  <2>11. QED
    BY <2>9, <2>10 DEF j
<1>6. Nat \subseteq S
  <2> HIDE DEF S
  <2>1. QED
    BY <1>4, <1>5, SetInduction
<1>7. M - i \in Nat /\ i + (M - i) = M /\ i + (M - i) <= M
  BY <1>0
<1>8. M - i \in S
  BY <1>6, <1>7
<1>9. QED
  BY <1>7, <1>8

\* A container that parses has a size field.
LEMMA CcSize ==
    ASSUME NEW b \in [0..(BLOCK_SIZE - 1) -> Byte],
           ParseCc(<<b[0], b[1], b[2], b[3]>>).status = "ok"
    PROVE  ParseCc(<<b[0], b[1], b[2], b[3]>>).size_field \in Nat
<1>1. b[2] \in Nat
  BY NdefAssumption, AddressAssumption, TlvAssumption DEF Byte
<1>2. ParseCc(<<b[0], b[1], b[2], b[3]>>).size_field = b[2]
  BY DEF ParseCc
<1>3. QED
  BY <1>1, <1>2

\* The Capability Container is within the address space.
LEMMA CcBlockBytes ==
    ASSUME NEW mem \in [Address -> Byte]
    PROVE  BlockData(mem, 0, CC_BLOCK) \in [0..(BLOCK_SIZE - 1) -> Byte]
<1>1. CC_BLOCK * BLOCK_SIZE = DATA_START - BLOCK_SIZE /\ DATA_START - BLOCK_SIZE \in Nat
  <2>1. DATA_START_BLOCK \in Nat \ {0} /\ BLOCK_SIZE \in Nat
    BY NdefAssumption, AddressAssumption
  <2>2. (DATA_START_BLOCK - 1) * BLOCK_SIZE = DATA_START_BLOCK * BLOCK_SIZE - BLOCK_SIZE
    BY <2>1
  <2>3. (DATA_START_BLOCK - 1) * BLOCK_SIZE \in Nat
    BY <2>1
  <2>4. QED
    BY <2>2, <2>3 DEF CC_BLOCK, DATA_START
<1>2. 0 * SECTOR_SIZE = 0
  BY AddressSizes
<1>3. \A i \in 0..(BLOCK_SIZE - 1) : 0 * SECTOR_SIZE + CC_BLOCK * BLOCK_SIZE + i \in Address
  BY <1>1, <1>2, AddressSizes, AddressAssumption DEF Address
<1>4. QED
  BY <1>3 DEF BlockData

\* The message of the blocks parsed is a string of bytes, or empty with an error.
LEMMA MessageType ==
    ASSUME NEW p \in [status : {"ok"} \cup ParseErrors, tlvs : Seq(TlvBlocks)]
    PROVE  Message(p) \in [status : {"ok"} \cup ParseErrors, data : Seq(Byte)]
<1>1. <<>> \in Seq(Byte)
  OBVIOUS
<1>2. FirstNdef(p.tlvs) # None => p.tlvs[FirstNdef(p.tlvs)].value \in Seq(Byte)
  BY FirstNdefIs
<1>3. QED
  BY <1>1, <1>2 DEF Message, Reply, ReplyOk

\* The message on a tag is a string of bytes.
LEMMA HeldType ==
    ASSUME NEW mem \in [Address -> Byte]
    PROVE  Held(mem).data \in Seq(Byte)
<1> DEFINE b     == BlockData(mem, 0, CC_BLOCK)
           c     == ParseCc(<<b[0], b[1], b[2], b[3]>>)
           first == parse_tlvs(DataArea(mem, from_cc_and_tlvs(c, <<>>)))
           again == parse_tlvs(DataArea(mem, from_cc_and_tlvs(c, first.tlvs)))
<1>1. \A l : parse_tlvs(DataArea(mem, l))
                \in [status : {"ok"} \cup ParseErrors, tlvs : Seq(TlvBlocks)]
  BY DataAreaBytes, ParseTlvsType
<1>2. Message(first).data \in Seq(Byte) /\ Message(again).data \in Seq(Byte)
  BY <1>1, MessageType
<1>3. \A s : Reply(s).data \in Seq(Byte)
  BY DEF Reply
<1>4. Held(mem) \in {Reply(c.status), Reply("invalid_magic"), Message(first), Message(again)}
  BY DEF Held
<1>5. QED
  BY <1>2, <1>3, <1>4

-----------------------------------------------------------------------------
(* Usable bytes, counted. *)

\* The usable bytes between two addresses, counted in two parts.
LEMMA BetweenSplit ==
    ASSUME NEW L, NEW a \in Nat, NEW b \in Nat, NEW v \in Nat, a <= b, b <= v
    PROVE  Cardinality(UsableBetween(L, a, v))
               = Cardinality(UsableBetween(L, a, b)) + Cardinality(UsableBetween(L, b, v))
<1> DEFINE A == UsableBetween(L, a, b)
           B == UsableBetween(L, b, v)
<1>1. UsableBetween(L, a, v) = A \cup B
  BY AddressSizes DEF UsableBetween, UsableFrom
<1>2. A \cap B = {}
  BY AddressSizes DEF UsableBetween, UsableFrom
<1>3. /\ IsFiniteSet(A) /\ IsFiniteSet(B)
      /\ Cardinality(A) \in Nat /\ Cardinality(B) \in Nat
  BY UsableFinite
<1> HIDE DEF A, B
<1>4. Cardinality(A \cup B) = Cardinality(A) + Cardinality(B) - Cardinality(A \cap B)
  BY <1>3, FS_Union
<1>5. Cardinality(A \cap B) = 0
  BY <1>2, FS_EmptySet
<1>6. QED
  BY <1>1, <1>3, <1>4, <1>5 DEF A, B

\* More bytes are usable before a higher address.
LEMMA BetweenGrows ==
    ASSUME NEW L, NEW a \in Nat, NEW b \in Nat, NEW v \in Nat, b <= v
    PROVE  Cardinality(UsableBetween(L, a, b)) <= Cardinality(UsableBetween(L, a, v))
<1>1. UsableBetween(L, a, b) \in SUBSET UsableBetween(L, a, v)
  BY AddressSizes DEF UsableBetween, UsableFrom
<1>2. IsFiniteSet(UsableBetween(L, a, v))
  BY UsableFinite
<1>3. QED
  BY <1>1, <1>2, FS_Subset

\* No byte is usable between an address and a lower one.
LEMMA BetweenEmpty ==
    ASSUME NEW L, NEW a \in Nat, NEW v \in Nat, v <= a
    PROVE  Cardinality(UsableBetween(L, a, v)) = 0
<1>1. UsableBetween(L, a, v) = {}
  BY AddressSizes DEF UsableBetween, UsableFrom
<1>2. QED
  BY <1>1, FS_EmptySet

\* A data area of size bytes ends at lim: the byte at offset k has an address below
\* lim, and from it on size - k bytes are usable.
LEMMA RoomFrom ==
    ASSUME NEW L, NEW lim \in Nat, NEW size \in Nat, NEW k \in Nat, k < size,
           Cardinality(UsableBetween(L, DATA_START, lim)) = size
    PROVE  LET x == usable_offset_to_address(L, k)
           IN /\ x \in Nat
              /\ x < lim
              /\ Cardinality(UsableBetween(L, x, lim)) = size - k
<1> DEFINE x == usable_offset_to_address(L, k)
           D == DATA_START
<1>1. D \in Nat /\ D \in 0..ADDRESS_SPACE_END
  BY AddressSizes
<1>2. Finds(L, D, k, x)
  BY <1>1, WalkFinds DEF usable_offset_to_address
<1>3. SUFFICES /\ x \in Nat
               /\ x < lim
               /\ Cardinality(UsableBetween(L, x, lim)) = size - k
  OBVIOUS
<1> HIDE DEF x, D
<1>4. x # None
  <2>1. SUFFICES ASSUME x = None PROVE FALSE
    OBVIOUS
  <2>2. Cardinality(UsableFrom(L, D)) <= k
    BY <1>2, <2>1 DEF Finds
  <2>3. UsableBetween(L, D, lim) \in SUBSET UsableFrom(L, D)
    BY DEF UsableBetween
  <2>4. Cardinality(UsableBetween(L, D, lim)) <= Cardinality(UsableFrom(L, D))
    BY <1>1, <2>3, UsableFinite, FS_Subset
  <2>5. Cardinality(UsableFrom(L, D)) \in Nat /\ Cardinality(UsableBetween(L, D, lim)) = size
    BY <1>1, UsableFinite DEF D
  <2>6. QED
    BY <2>2, <2>4, <2>5
<1>5. x \in Nat /\ D <= x /\ Cardinality(UsableBetween(L, D, x)) = k
  BY <1>1, <1>2, <1>4, AddressSizes DEF Finds, UsableFrom
<1>6. x < lim
  <2>1. SUFFICES ASSUME lim <= x PROVE FALSE
    BY <1>5
  <2>2. Cardinality(UsableBetween(L, D, lim)) <= Cardinality(UsableBetween(L, D, x))
    BY <1>1, <1>5, <2>1, BetweenGrows
  <2>3. QED
    BY <1>5, <2>2 DEF D
<1>7. Cardinality(UsableBetween(L, D, lim)) = k + Cardinality(UsableBetween(L, x, lim))
  BY <1>1, <1>5, <1>6, BetweenSplit
<1>8. Cardinality(UsableBetween(L, x, lim)) \in Nat
  BY <1>5, UsableFinite
<1>9. QED
  BY <1>5, <1>6, <1>7, <1>8 DEF D

\* The limit of write_ndef, one past the last usable byte, ends the data area
\* (reader.rs:522-528).
LEMMA LimitEnds ==
    ASSUME NEW L, NEW size \in Nat \ {0},
           usable_offset_to_address(L, size - 1) # None
    PROVE  LET lim == usable_offset_to_address(L, size - 1) + 1
           IN lim \in Nat /\ Cardinality(UsableBetween(L, DATA_START, lim)) = size
<1> DEFINE v == usable_offset_to_address(L, size - 1)
           D == DATA_START
<1>1. D \in Nat /\ D \in 0..ADDRESS_SPACE_END /\ size - 1 \in Nat
  BY AddressSizes
<1>2. Finds(L, D, size - 1, v)
  BY <1>1, WalkFinds DEF usable_offset_to_address
<1>3. SUFFICES v + 1 \in Nat /\ Cardinality(UsableBetween(L, D, v + 1)) = size
  OBVIOUS
<1>4. v # None
  OBVIOUS
<1> HIDE DEF v, D
<1>5. /\ v \in UsableFrom(L, D) /\ v \in Nat
      /\ Cardinality(UsableBetween(L, D, v)) = size - 1
  BY <1>1, <1>2, <1>4, AddressSizes DEF Finds, UsableFrom
<1>6. UsableBetween(L, D, v + 1) = UsableBetween(L, D, v) \cup {v}
  BY <1>1, <1>5, AddressSizes DEF UsableBetween, UsableFrom
<1>7. v \notin UsableBetween(L, D, v)
  BY <1>5 DEF UsableBetween
<1>8. IsFiniteSet(UsableBetween(L, D, v))
  BY <1>1, UsableFinite
<1>9. Cardinality(UsableBetween(L, D, v + 1)) = (size - 1) + 1
  BY <1>5, <1>6, <1>7, <1>8, FS_AddElement
<1>10. QED
  BY <1>5, <1>9

-----------------------------------------------------------------------------
(* Places. *)

\* A sector, block and offset that exist are those of an address, and so is the
\* whole page.
LEMMA PlaceAddress ==
    ASSUME NEW s \in 0..MAX_SECTOR, NEW b \in 0..(BLOCKS_PER_SECTOR - 1)
    PROVE  /\ s * SECTOR_SIZE + b * BLOCK_SIZE \in Nat
           /\ s * SECTOR_SIZE + b * BLOCK_SIZE + BLOCK_SIZE <= ADDRESS_SPACE_END
           /\ \A o \in 0..(BLOCK_SIZE - 1) : s * SECTOR_SIZE + b * BLOCK_SIZE + o \in Address
<1> DEFINE S == SECTOR_SIZE
           x == s * S
           y == b * BLOCK_SIZE
<1>1. S \in Nat \ {0} /\ BLOCK_SIZE \in Nat \ {0} /\ BLOCKS_PER_SECTOR \in Nat \ {0}
      /\ MAX_SECTOR \in Nat
  BY AddressSizes, AddressAssumption
<1>2. S = BLOCK_SIZE * BLOCKS_PER_SECTOR /\ ADDRESS_SPACE_END = (MAX_SECTOR + 1) * S
  BY DEF SECTOR_SIZE, ADDRESS_SPACE_END
<1>3. b * BLOCK_SIZE \in Nat /\ (b + 1) * BLOCK_SIZE = b * BLOCK_SIZE + BLOCK_SIZE
  BY <1>1
<1>4. (b + 1) * BLOCK_SIZE <= S
  <2>1. b + 1 \in Nat /\ b + 1 <= BLOCKS_PER_SECTOR
    BY <1>1
  <2>2. (b + 1) * BLOCK_SIZE <= BLOCKS_PER_SECTOR * BLOCK_SIZE
    BY <1>1, <2>1
  <2>3. BLOCKS_PER_SECTOR * BLOCK_SIZE = BLOCK_SIZE * BLOCKS_PER_SECTOR
    BY <1>1
  <2>4. QED
    BY <1>2, <2>2, <2>3
<1> HIDE DEF S
<1>5. s * S \in Nat /\ (s + 1) * S = s * S + S /\ (MAX_SECTOR + 1) * S \in Nat
  BY <1>1
<1>6. (s + 1) * S <= (MAX_SECTOR + 1) * S
  BY <1>1
<1>7. y + BLOCK_SIZE <= S /\ y \in Nat
  BY <1>3, <1>4
<1>8. x + S <= ADDRESS_SPACE_END /\ x \in Nat /\ ADDRESS_SPACE_END \in Nat
  BY <1>2, <1>5, <1>6
<1> HIDE DEF x, y
<1>9. /\ x + y \in Nat
      /\ x + y + BLOCK_SIZE <= ADDRESS_SPACE_END
      /\ \A o \in 0..(BLOCK_SIZE - 1) : x + y + o \in Address
  BY <1>1, <1>7, <1>8 DEF Address
<1>10. QED
  BY <1>9 DEF x, y, S

\* Only an address has a place.
LEMMA PlaceOfAddress ==
    ASSUME NEW a \in Nat, address_to_sector_block(a) # None
    PROVE  a \in Address
<1> DEFINE S == SECTOR_SIZE
           q == a \div S
<1>1. S \in Nat \ {0} /\ MAX_SECTOR \in Nat
  BY AddressSizes, AddressAssumption
<1>2. ~(q > MAX_SECTOR)
  BY DEF address_to_sector_block
<1>3. ADDRESS_SPACE_END = (MAX_SECTOR + 1) * S /\ ADDRESS_SPACE_END \in Nat
  BY AddressSizes DEF ADDRESS_SPACE_END
<1> HIDE DEF S
<1>4. q \in Nat /\ S * q > a - S /\ S * q \in Nat
  BY <1>1
<1> HIDE DEF q
<1>5. q <= MAX_SECTOR
  BY <1>1, <1>2, <1>4
<1>6. S * q + S = (q + 1) * S
  BY <1>1, <1>4
<1>7. (q + 1) * S <= (MAX_SECTOR + 1) * S
  BY <1>1, <1>4, <1>5
<1>8. a < ADDRESS_SPACE_END
  BY <1>1, <1>3, <1>4, <1>6, <1>7
<1>9. QED
  BY <1>3, <1>8 DEF Address

-----------------------------------------------------------------------------
(* The inductive invariant. *)

\* The variables, each by itself.
DataInv ==
    /\ memory \in [Address -> Byte]
    /\ sector \in 0..MAX_SECTOR \cup {Unknown}
    /\ cache = None \/ cache \in (0..MAX_SECTOR) \X (0..(BLOCKS_PER_SECTOR - 1))
    /\ pc \in {"idle", "cc", "area", "parse", "plan", "value", "length"}
    /\ pc # "idle" => call \in {"read_ndef", "write_ndef"}
    /\ msg \in Seq(Byte)
    /\ byte_addr \in Nat
    /\ stream \in Seq(Byte) /\ Len(stream) <= DATA_CAPACITY
    /\ tlvs \in Seq(TlvBlocks)
    /\ offset \in Nat /\ limit \in Nat /\ addr \in Nat
    /\ todo \in Seq(Byte)
    /\ ret.status \in Statuses
    /\ before.data \in Seq(Byte)

\* Past the container: it is valid, and the layout is one of its tag.
InCall ==
    pc \in {"area", "parse", "plan", "value", "length"} =>
        /\ cc.size_field \in Nat
        /\ is_valid(cc)
        /\ call = "write_ndef" => Writable(cc)
        /\ layout \in Layouts
        /\ layout.data_area_size = data_area_size(cc)

\* write_ndef has begun to write: the usable bytes below the limit are the data
\* area, the TLV fits in it, and from addr on there is room for what is left.
RoomLeft ==
    pc \in {"value", "length"} =>
        /\ Len(msg) <= MAX_TLV_LENGTH
        /\ Cardinality(UsableBetween(layout, DATA_START, limit)) = layout.data_area_size
        /\ RequiredEnd(offset) <= layout.data_area_size
        /\ todo # <<>>
        /\ Len(todo) <= Cardinality(UsableBetween(layout, addr, limit))

\* Only write_ndef plans and writes.
Writing == pc \in {"plan", "value", "length"} => call = "write_ndef"

\* The inductive invariant.
NdefInv == DataInv /\ InCall /\ Writing /\ RoomLeft

-----------------------------------------------------------------------------
(* One page. *)

\* Where the page of addr is.
LEMMA PageIs ==
    ASSUME NdefInv, Place # None
    PROVE  /\ addr \in Address
           /\ Place \in (0..MAX_SECTOR) \X (0..(BLOCKS_PER_SECTOR - 1)) \X (0..(BLOCK_SIZE - 1))
           /\ Place[1] \in 0..MAX_SECTOR /\ Place[3] \in 0..(BLOCK_SIZE - 1)
           /\ PageBase \in Nat /\ PageBase + Place[3] = addr
           /\ PageBase + BLOCK_SIZE <= ADDRESS_SPACE_END
           /\ BLOCK_SIZE \in Nat \ {0}
<1>1. addr \in Nat
  BY DEF NdefInv, DataInv
<1>2. addr \in Address
  BY <1>1, PlaceOfAddress DEF Place
<1>3. /\ Place \in (0..MAX_SECTOR) \X (0..(BLOCKS_PER_SECTOR - 1)) \X (0..(BLOCK_SIZE - 1))
      /\ sector_block_to_address(Place[1], Place[2], Place[3]) = addr
  BY <1>2, AddressConverts DEF Place
<1>4. MAX_SECTOR \in Nat /\ BLOCK_SIZE \in Nat \ {0}
  BY AddressAssumption
<1> DEFINE s == Place[1]
           b == Place[2]
           o == Place[3]
<1>5. s \in 0..MAX_SECTOR /\ b \in 0..(BLOCKS_PER_SECTOR - 1) /\ o \in 0..(BLOCK_SIZE - 1)
  BY <1>3
<1>6. PageBase = addr - o /\ sector_block_to_address(s, b, o) = addr
  BY <1>3 DEF PageBase
<1> HIDE DEF s, b, o
<1>7. addr = s * SECTOR_SIZE + b * BLOCK_SIZE + o
  BY <1>4, <1>5, <1>6 DEF sector_block_to_address
<1>8. /\ s * SECTOR_SIZE + b * BLOCK_SIZE \in Nat
      /\ s * SECTOR_SIZE + b * BLOCK_SIZE + BLOCK_SIZE <= ADDRESS_SPACE_END
  BY <1>5, PlaceAddress
<1> DEFINE base == s * SECTOR_SIZE + b * BLOCK_SIZE
<1> HIDE DEF base
<1>9. addr = base + o /\ base \in Nat /\ base + BLOCK_SIZE <= ADDRESS_SPACE_END
  BY <1>7, <1>8 DEF base
<1>10. PageBase = base /\ PageBase + o = addr
  BY <1>5, <1>6, <1>9
<1>11. QED
  BY <1>2, <1>3, <1>4, <1>5, <1>9, <1>10 DEF s, o

\* The positions open to a byte are the usable ones of the page from addr on, in
\* the fast path too.
LEMMA OpenIs ==
    ASSUME NdefInv, Place # None
    PROVE  /\ Open = {i \in Place[3]..(BLOCK_SIZE - 1) : ~is_skip_area(layout, PageBase + i)}
           /\ IsFiniteSet(Open) /\ Open \in SUBSET Nat
           /\ \A i : /\ IsFiniteSet({j \in Open : j < i}) /\ Rank(i) \in Nat
<1>1. Place[3] \in 0..(BLOCK_SIZE - 1) /\ BLOCK_SIZE \in Nat
  BY PageIs
<1>2. Open = {i \in Place[3]..(BLOCK_SIZE - 1) : ~is_skip_area(layout, PageBase + i)}
  BY DEF Open, WholePage
<1>3. Open \in SUBSET (0..(BLOCK_SIZE - 1)) /\ Open \in SUBSET Nat
  BY <1>1, <1>2
<1>4. IsFiniteSet(0..(BLOCK_SIZE - 1))
  BY <1>1, FS_Interval
<1>5. IsFiniteSet(Open)
  BY <1>3, <1>4, FS_Subset
<1>6. \A i : {j \in Open : j < i} \in SUBSET Open
  OBVIOUS
<1>7. \A i : IsFiniteSet({j \in Open : j < i})
  BY <1>5, <1>6, FS_Subset
<1>8. \A i : Rank(i) \in Nat
  BY <1>7, FS_CardinalityType DEF Rank
<1>9. QED
  BY <1>2, <1>3, <1>5, <1>7, <1>8

\* The rank of a position counts the usable bytes between addr and it.
LEMMA RankCounts ==
    ASSUME NdefInv, Place # None, NEW i \in Place[3]..BLOCK_SIZE
    PROVE  Rank(i) = Cardinality(UsableBetween(layout, addr, PageBase + i))
<1>1. /\ Place[3] \in 0..(BLOCK_SIZE - 1) /\ PageBase \in Nat
      /\ PageBase + Place[3] = addr /\ PageBase + BLOCK_SIZE <= ADDRESS_SPACE_END
      /\ BLOCK_SIZE \in Nat /\ addr \in Nat
  BY PageIs DEF NdefInv, DataInv
<1> DEFINE S == {j \in Open : j < i}
           T == UsableBetween(layout, addr, PageBase + i)
           f == [j \in S |-> PageBase + j]
<1>2. ADDRESS_SPACE_END \in Nat
  BY AddressSizes
<1>3. \A j : j \in S <=> j \in Place[3]..(i - 1) /\ ~is_skip_area(layout, PageBase + j)
  BY <1>1, OpenIs
<1>4. \A y : y \in T <=> y \in addr..(PageBase + i - 1) /\ ~is_skip_area(layout, y)
  BY <1>1, <1>2 DEF UsableBetween, UsableFrom
<1>5. \A j \in S : j \in Nat /\ PageBase + j \in T
  BY <1>1, <1>3, <1>4
<1>6. \A y \in T : y - PageBase \in S /\ PageBase + (y - PageBase) = y
  BY <1>1, <1>3, <1>4
<1> HIDE DEF S, T
<1>7. f \in [S -> T] /\ \A j \in S : f[j] = PageBase + j
  BY <1>5
<1>8. \A y \in T : \E j \in S : f[j] = y
  BY <1>6, <1>7
<1>9. \A j, k \in S : f[j] = f[k] => j = k
  BY <1>1, <1>5, <1>7
<1> HIDE DEF f
<1>10. f \in Bijection(S, T)
  BY <1>7, <1>8, <1>9 DEF Bijection, Injection, Surjection, IsInjective
<1>11. ExistsBijection(S, T)
  BY <1>10 DEF ExistsBijection
<1>12. IsFiniteSet(S) /\ Rank(i) = Cardinality(S)
  BY OpenIs DEF S, Rank
<1>13. Cardinality(T) = Cardinality(S)
  BY <1>11, <1>12, FS_Bijection
<1>14. QED
  BY <1>12, <1>13 DEF T

\* What is left fits below the limit, so that the next page is not refused
\* (reader.rs:589-641).
LEMMA PageFits ==
    ASSUME NdefInv, pc \in {"value", "length"}
    PROVE  WithinLimit
<1>1. /\ addr \in Nat /\ limit \in Nat /\ todo \in Seq(Byte) /\ todo # <<>>
      /\ Len(todo) <= Cardinality(UsableBetween(layout, addr, limit))
  BY DEF NdefInv, DataInv, RoomLeft
<1>2. Len(todo) \in Nat \ {0} /\ Cardinality(UsableBetween(layout, addr, limit)) \in Nat
  <2>1. Len(todo) \in Nat \ {0}
    BY <1>1
  <2>2. Cardinality(UsableBetween(layout, addr, limit)) \in Nat
    BY <1>1, UsableFinite
  <2>3. QED
    BY <2>1, <2>2
<1>3. addr < limit
  <2>1. SUFFICES ASSUME limit <= addr PROVE FALSE
    BY <1>1
  <2>2. QED
    BY <1>1, <1>2, <2>1, BetweenEmpty
<1>4. addr \in Address
  <2>1. SUFFICES ASSUME ADDRESS_SPACE_END <= addr PROVE FALSE
    BY <1>1, AddressSizes DEF Address
  <2>2. UsableBetween(layout, addr, limit) = {}
    BY <1>1, <2>1, AddressSizes DEF UsableBetween, UsableFrom
  <2>3. QED
    BY <1>1, <1>2, <2>2, FS_EmptySet
<1>5. Place # None
  BY <1>4, AddressConverts DEF Place
<1>6. ~LimitInPage
  <2>1. SUFFICES ASSUME NEW i \in Place[3]..(BLOCK_SIZE - 1),
                        PageBase + i >= limit, Rank(i) < Len(todo)
                 PROVE  FALSE
    BY DEF LimitInPage
  <2>2. PageBase \in Nat /\ i \in Nat /\ BLOCK_SIZE \in Nat /\ i \in Place[3]..BLOCK_SIZE
    BY <1>5, PageIs
  <2>3. Rank(i) = Cardinality(UsableBetween(layout, addr, PageBase + i)) /\ Rank(i) \in Nat
    BY <1>5, <2>2, RankCounts, OpenIs
  <2>4. Cardinality(UsableBetween(layout, addr, limit))
            <= Cardinality(UsableBetween(layout, addr, PageBase + i))
    BY <1>1, <2>1, <2>2, BetweenGrows
  <2>5. QED
    BY <1>1, <1>2, <2>1, <2>3, <2>4
<1>7. QED
  BY <1>3, <1>5, <1>6 DEF WithinLimit

\* The positions taken get a byte each; when bytes are left, all open ones are taken.
LEMMA TakenIs ==
    ASSUME NdefInv, Place # None
    PROVE  /\ IsFiniteSet(Taken) /\ Cardinality(Taken) \in Nat
           /\ \A i \in Taken : Rank(i) + 1 \in 1..Len(todo)
           /\ Cardinality(Taken) < Len(todo) => Taken = Open
<1>1. todo \in Seq(Byte) /\ Len(todo) \in Nat
  BY DEF NdefInv, DataInv
<1>2. IsFiniteSet(Open) /\ Open \in SUBSET Nat
  BY OpenIs
<1>8. \A i : Rank(i) \in Nat
  BY OpenIs
<1>3. Taken \in SUBSET Open
  BY DEF Taken
<1>4. IsFiniteSet(Taken) /\ Cardinality(Taken) \in Nat
  BY <1>2, <1>3, FS_Subset, FS_CardinalityType
<1>5. \A i \in Taken : Rank(i) + 1 \in 1..Len(todo)
  BY <1>1, <1>8 DEF Taken
<1>6. ASSUME Cardinality(Taken) < Len(todo) PROVE Taken = Open
  <2>1. SUFFICES ASSUME Open \ Taken # {} PROVE FALSE
    BY <1>3
  <2>2. PICK i \in Open \ Taken : \A j \in Open \ Taken : i <= j
    BY <1>2, <2>1, LeastElement
  <2>3. Rank(i) >= Len(todo)
    <3>1. ~(Rank(i) < Len(todo))
      BY <2>2 DEF Taken
    <3>2. QED
      BY <1>1, <1>8, <3>1
  <2>4. {j \in Open : j < i} \in SUBSET Taken
    <3>1. i \in Nat /\ \A j \in Open : j \in Nat /\ (j \in Taken \/ i <= j)
      BY <1>2, <2>2
    <3>2. \A j \in Open : j < i => j \in Taken
      BY <3>1
    <3>3. QED
      BY <3>2
  <2>5. Cardinality({j \in Open : j < i}) <= Cardinality(Taken)
    BY <1>4, <2>4, FS_Subset
  <2>6. Rank(i) \in Nat /\ Rank(i) <= Cardinality(Taken)
    BY <1>8, <2>5 DEF Rank
  <2>7. QED
    BY <1>1, <1>4, <1>6, <2>3, <2>6
<1>7. QED
  BY <1>4, <1>5, <1>6

\* A page written leaves bytes.
LEMMA PageWrittenType ==
    ASSUME NdefInv, Place # None
    PROVE  PageWritten \in [Address -> Byte]
<1>1. todo \in Seq(Byte) /\ memory \in [Address -> Byte]
  BY DEF NdefInv, DataInv
<1>2. \A i \in Taken : todo[Rank(i) + 1] \in Byte
  BY <1>1, TakenIs
<1>3. QED
  BY <1>1, <1>2 DEF PageWritten

\* Behind a page there is room for the bytes behind it.
LEMMA RoomBehind ==
    ASSUME NdefInv, pc \in {"value", "length"},
           SubSeq(todo, Cardinality(Taken) + 1, Len(todo)) # <<>>
    PROVE  LET left == SubSeq(todo, Cardinality(Taken) + 1, Len(todo))
           IN /\ left \in Seq(Byte)
              /\ NextPage \in Nat
              /\ Len(left) <= Cardinality(UsableBetween(layout, NextPage, limit))
<1> DEFINE left == SubSeq(todo, Cardinality(Taken) + 1, Len(todo))
           c    == Cardinality(Taken)
<1>0. Place # None
  BY PageFits DEF WithinLimit
<1>1. /\ todo \in Seq(Byte) /\ Len(todo) \in Nat /\ addr \in Nat /\ limit \in Nat
      /\ Len(todo) <= Cardinality(UsableBetween(layout, addr, limit))
  BY DEF NdefInv, DataInv, RoomLeft
<1>2. c \in Nat
  BY <1>0, TakenIs
<1>3. left \in Seq(Byte) /\ c < Len(todo) /\ Len(left) = Len(todo) - c
  <2> HIDE DEF c
  <2>1. SubSeq(todo, c + 1, Len(todo)) # <<>>
    BY DEF c
  <2>2. /\ SubSeq(todo, c + 1, Len(todo)) \in Seq(Byte) /\ c < Len(todo)
        /\ Len(SubSeq(todo, c + 1, Len(todo))) = Len(todo) - c
    BY <1>1, <1>2, <2>1
  <2>3. QED
    BY <2>2 DEF c
<1>4. Taken = Open
  BY <1>0, <1>3, TakenIs
<1>5. /\ PageBase \in Nat /\ BLOCK_SIZE \in Nat /\ Place[3] \in 0..(BLOCK_SIZE - 1)
      /\ PageBase + Place[3] = addr
  BY <1>0, PageIs
<1>6. NextPage = PageBase + BLOCK_SIZE /\ NextPage \in Nat /\ addr <= NextPage
  BY <1>1, <1>5 DEF NextPage
<1>7. c = Cardinality(UsableBetween(layout, addr, NextPage))
  <2>1. BLOCK_SIZE \in Place[3]..BLOCK_SIZE
    BY <1>5
  <2>2. Rank(BLOCK_SIZE) = Cardinality(UsableBetween(layout, addr, NextPage))
    BY <1>0, <1>6, <2>1, RankCounts
  <2>3. \A j \in Open : j < BLOCK_SIZE
    BY <1>0, <1>5, OpenIs
  <2>4. {j \in Open : j < BLOCK_SIZE} = Open
    BY <2>3
  <2>5. Rank(BLOCK_SIZE) = Cardinality(Open)
    BY <2>4 DEF Rank
  <2>6. QED
    BY <1>4, <2>2, <2>5
<1> HIDE DEF c, left
<1>8. /\ Cardinality(UsableBetween(layout, addr, limit)) \in Nat
      /\ Cardinality(UsableBetween(layout, NextPage, limit)) \in Nat
  BY <1>1, <1>6, UsableFinite
<1>9. NextPage <= limit
  <2>1. SUFFICES ASSUME limit <= NextPage PROVE NextPage <= limit
    BY <1>1, <1>6
  <2>2. Cardinality(UsableBetween(layout, addr, limit))
           <= Cardinality(UsableBetween(layout, addr, NextPage))
    BY <1>1, <1>6, <2>1, BetweenGrows
  <2>3. QED
    BY <1>1, <1>2, <1>3, <1>7, <1>8, <2>2
<1>10. Cardinality(UsableBetween(layout, addr, limit))
           = c + Cardinality(UsableBetween(layout, NextPage, limit))
  BY <1>1, <1>6, <1>7, <1>9, BetweenSplit
<1>11. Len(left) <= Cardinality(UsableBetween(layout, NextPage, limit))
  BY <1>1, <1>2, <1>3, <1>8, <1>10
<1>12. QED
  BY <1>3, <1>6, <1>11 DEF left

\* The bytes of a length that can be encoded (src/tlv.rs:66-77).
LEMMA LengthBytes ==
    ASSUME NEW m \in Nat, m <= MAX_TLV_LENGTH
    PROVE  /\ encode_tlv_length(m) \in Seq(Byte)
           /\ Len(encode_tlv_length(m)) = LengthFieldSize(m)
           /\ LengthFieldSize(m) \in {1, 3}
<1>1. BYTE \in Nat /\ BYTE > 6
  BY TlvAssumption
<1>a. ~(m > MAX_TLV_LENGTH)
  BY <1>1 DEF MAX_TLV_LENGTH
<1>2. CASE m < LONG_LENGTH
  <2>1. LengthFieldSize(m) = 1 /\ encode_tlv_length(m) = <<m>> /\ m \in Byte
    BY <1>1, <1>a, <1>2 DEF LengthFieldSize, encode_tlv_length, LONG_LENGTH, Byte
  <2>2. QED
    BY <2>1
<1>3. CASE ~(m < LONG_LENGTH)
  <2>1. /\ LengthFieldSize(m) = 3
        /\ encode_tlv_length(m) = <<LONG_LENGTH, m \div BYTE, m % BYTE>>
    BY <1>a, <1>3 DEF LengthFieldSize, encode_tlv_length
  <2>2. LONG_LENGTH \in Byte /\ m % BYTE \in Byte
    BY <1>1 DEF LONG_LENGTH, Byte
  <2>3. m \div BYTE \in Byte
    <3> DEFINE q == m \div BYTE
    <3>1. q \in Nat /\ BYTE * q <= m
      BY <1>1
    <3> HIDE DEF q
    <3>2. BYTE * q < BYTE * BYTE
      BY <1>1, <3>1 DEF MAX_TLV_LENGTH
    <3>3. q < BYTE
      BY <1>1, <3>1, <3>2
    <3>4. QED
      BY <1>1, <3>1, <3>3 DEF q, Byte
  <2>4. QED
    BY <2>1, <2>2, <2>3
<1>4. QED
  BY <1>2, <1>3

\* There is room for the L field where it is (reader.rs:554-565).
LEMMA RoomForLength ==
    ASSUME NdefInv, pc \in {"value", "length"}
    PROVE  LET a == usable_offset_to_address(layout, offset + 1)
               l == encode_tlv_length(Len(msg))
           IN /\ a \in Nat /\ a # None
              /\ l \in Seq(Byte) /\ l # <<>>
              /\ Len(l) <= Cardinality(UsableBetween(layout, a, limit))
<1> DEFINE a == usable_offset_to_address(layout, offset + 1)
           l == encode_tlv_length(Len(msg))
           size == layout.data_area_size
<1>1. /\ Len(msg) \in Nat /\ Len(msg) <= MAX_TLV_LENGTH /\ limit \in Nat /\ offset \in Nat
      /\ Cardinality(UsableBetween(layout, DATA_START, limit)) = size
      /\ RequiredEnd(offset) <= size
      /\ size \in Nat
  BY DEF NdefInv, DataInv, RoomLeft, InCall, Layouts
<1>2. l \in Seq(Byte) /\ Len(l) = LengthFieldSize(Len(msg)) /\ LengthFieldSize(Len(msg)) \in {1, 3}
  BY <1>1, LengthBytes
<1> HIDE DEF size
<1>3. offset + 1 + LengthFieldSize(Len(msg)) + Len(msg) + 1 <= size
  BY <1>1 DEF RequiredEnd
<1>4. offset + 1 < size /\ offset + 1 \in Nat
  BY <1>1, <1>2, <1>3
<1>5. a \in Nat /\ Cardinality(UsableBetween(layout, a, limit)) = size - (offset + 1)
  BY <1>1, <1>4, RoomFrom
<1> HIDE DEF a, l
<1>6. a # None
  BY <1>5, AddressAssumption
<1>7. Len(l) <= Cardinality(UsableBetween(layout, a, limit))
  BY <1>1, <1>2, <1>3, <1>5
<1>8. l # <<>>
  BY <1>2
<1>9. QED
  BY <1>2, <1>5, <1>6, <1>7, <1>8 DEF a, l

-----------------------------------------------------------------------------
(* Every step keeps the invariant. *)

\* What the reader may believe about the sector, and what its cache may hold.
SectorSet == 0..MAX_SECTOR \cup {Unknown}
CacheSet  == {None} \cup (0..MAX_SECTOR) \X (0..(BLOCKS_PER_SECTOR - 1))

\* However a call returns, nothing of it is left.
LEMMA ReturnKeeps ==
    ASSUME NdefInv, NEW r, Return(r), r.status \in Statuses,
           memory' \in [Address -> Byte], sector' \in SectorSet, cache' \in CacheSet,
           UNCHANGED <<call, msg, histVars>>
    PROVE  NdefInv'
<1>1. /\ pc' = "idle" /\ ret' = r /\ byte_addr' = 0 /\ stream' = <<>> /\ tlvs' = <<>>
      /\ offset' = 0 /\ limit' = 0 /\ addr' = 0 /\ todo' = <<>>
  BY DEF Return, NoWrite
<1>2. DATA_CAPACITY \in Nat
  BY TlvAssumption
<1>3. DataInv'
  BY <1>1, <1>2 DEF NdefInv, DataInv, SectorSet, CacheSet, histVars
<1>4. InCall' /\ Writing' /\ RoomLeft'
  BY <1>1 DEF InCall, Writing, RoomLeft
<1>5. QED
  BY <1>3, <1>4 DEF NdefInv

\* read_data_area begins with a layout of the tag.
LEMMA BeginReadKeeps ==
    ASSUME NdefInv, NEW k, NEW c, NEW bs \in Seq(TlvBlocks),
           BeginRead(k, c, from_cc_and_tlvs(c, bs)),
           call \in {"read_ndef", "write_ndef"},
           c.size_field \in Nat, is_valid(c), call = "write_ndef" => Writable(c),
           sector' \in SectorSet, cache' \in CacheSet,
           UNCHANGED <<memory, call, msg, histVars>>
    PROVE  NdefInv'
<1>1. /\ pc' = "area" /\ cc' = c /\ layout' = from_cc_and_tlvs(c, bs)
      /\ byte_addr' = DATA_START /\ stream' = <<>> /\ ret' = ret /\ tlvs' = <<>>
      /\ offset' = 0 /\ limit' = 0 /\ addr' = 0 /\ todo' = <<>>
  BY DEF BeginRead, NoWrite
<1>2. DATA_CAPACITY \in Nat /\ DATA_START \in Nat
  BY TlvAssumption, AddressSizes
<1>3. DataInv'
  BY <1>1, <1>2 DEF NdefInv, DataInv, SectorSet, CacheSet, histVars
<1>4. /\ from_cc_and_tlvs(c, bs) \in Layouts
      /\ from_cc_and_tlvs(c, bs).data_area_size = data_area_size(c)
  BY LayoutOfTag DEF from_cc_and_tlvs
<1>6. InCall'
  BY <1>1, <1>4 DEF InCall, Writable
<1>7. Writing' /\ RoomLeft'
  BY <1>1 DEF Writing, RoomLeft
<1>8. QED
  BY <1>3, <1>6, <1>7 DEF NdefInv

\* A call begins (reader.rs:404-436).
LEMMA BeginKeeps ==
    ASSUME NdefInv, NEW op \in {"read_ndef", "write_ndef"}, NEW m \in Seq(Byte), Begin(op, m)
    PROVE  NdefInv'
<1>1. Held(memory).data \in Seq(Byte)
  BY HeldType DEF NdefInv, DataInv
<1>2. Reply("none").status \in Statuses
  BY DEF Reply, Statuses
<1>3. /\ pc' = "cc" /\ call' = op /\ msg' = m /\ ret' = Reply("none")
      /\ before' = Held(memory)
      /\ UNCHANGED <<memory, sector, cache, byte_addr, stream, tlvs, offset, limit, addr, todo>>
  BY DEF Begin, readVars, writeVars
<1>4. DataInv'
  BY <1>1, <1>2, <1>3 DEF NdefInv, DataInv
<1>5. InCall' /\ Writing' /\ RoomLeft'
  BY <1>3 DEF InCall, Writing, RoomLeft
<1>6. QED
  BY <1>4, <1>5 DEF NdefInv

\* The application uses the reader between two calls.
LEMMA OtherUseKeeps ==
    ASSUME NdefInv, NEW s \in SectorSet,
           NEW c \in {None} \cup ({s} \ {Unknown}) \X (0..(BLOCKS_PER_SECTOR - 1)),
           OtherUse(s, c)
    PROVE  NdefInv'
<1>1. c \in CacheSet
  BY DEF SectorSet, CacheSet
<1>2. /\ pc = "idle" /\ sector' = s /\ cache' = c
      /\ UNCHANGED <<memory, pc, call, msg, cc, layout, byte_addr, stream,
                     tlvs, offset, limit, addr, todo, ret, before>>
  BY DEF OtherUse, readVars, writeVars, histVars
<1>3. DataInv'
  BY <1>1, <1>2 DEF NdefInv, DataInv, SectorSet, CacheSet
<1>4. InCall' /\ Writing' /\ RoomLeft'
  BY <1>2 DEF InCall, Writing, RoomLeft
<1>5. QED
  BY <1>3, <1>4 DEF NdefInv

\* The container is read and judged (reader.rs:271-281, 404-443).
LEMMA ReadCcKeeps ==
    ASSUME NdefInv, ReadCc
    PROVE  NdefInv'
<1> DEFINE b == BlockData(memory, 0, CC_BLOCK)
           c == ParseCc(<<b[0], b[1], b[2], b[3]>>)
<1>1. /\ memory' \in [Address -> Byte] /\ UNCHANGED <<memory, call, msg, histVars>>
      /\ pc = "cc" /\ call \in {"read_ndef", "write_ndef"}
  BY DEF ReadCc, NdefInv, DataInv
<1>2. sector' \in SectorSet /\ cache' \in CacheSet
  <2>1. 0 \in 0..MAX_SECTOR /\ CC_BLOCK \in 0..(BLOCKS_PER_SECTOR - 1)
    BY AddressAssumption, NdefAssumption DEF CC_BLOCK
  <2>2. sector' = 0 /\ cache' = <<0, CC_BLOCK>>
    BY DEF ReadCc
  <2>3. QED
    BY <2>1, <2>2 DEF SectorSet, CacheSet
<1>3. b \in [0..(BLOCK_SIZE - 1) -> Byte]
  BY CcBlockBytes DEF NdefInv, DataInv
<1>4. c.status \in {"ok", "invalid_magic", "unsupported_version"}
  BY DEF ParseCc
<1>5. CheckCc(b)
  BY DEF ReadCc
<1>6. c.status = "ok" => c.size_field \in Nat
  BY <1>3, CcSize
<1>7. \/ Return(Reply(c.status)) /\ c.status # "ok"
      \/ Return(Reply("invalid_magic"))
      \/ Return(Reply("read_only"))
      \/ /\ c.status = "ok" /\ is_valid(c) /\ (call = "write_ndef" => Writable(c))
         /\ BeginRead(1, c, from_cc_and_tlvs(c, <<>>))
  BY <1>5 DEF CheckCc
<1> HIDE DEF c, b
<1>8. \A s \in Statuses : Reply(s).status \in Statuses
  BY DEF Reply
<1>9. /\ c.status \in Statuses /\ "invalid_magic" \in Statuses /\ "read_only" \in Statuses
      /\ <<>> \in Seq(TlvBlocks)
  BY <1>4 DEF Statuses
<1>10. QED
  BY <1>1, <1>2, <1>6, <1>7, <1>8, <1>9, ReturnKeeps, BeginReadKeeps

\* The place of the next byte of read_data_area.
LEMMA ReadPlace ==
    ASSUME NdefInv, address_to_sector_block(byte_addr) # None
    PROVE  LET p == address_to_sector_block(byte_addr)
           IN /\ byte_addr \in Address
              /\ p[1] \in 0..MAX_SECTOR
              /\ p[2] \in 0..(BLOCKS_PER_SECTOR - 1)
              /\ p[3] \in 0..(BLOCK_SIZE - 1)
<1> DEFINE p == address_to_sector_block(byte_addr)
<1>1. byte_addr \in Address
  BY PlaceOfAddress DEF NdefInv, DataInv
<1>2. p \in (0..MAX_SECTOR) \X (0..(BLOCKS_PER_SECTOR - 1)) \X (0..(BLOCK_SIZE - 1))
  BY <1>1, AddressConverts
<1> HIDE DEF p
<1>3. p[1] \in 0..MAX_SECTOR /\ p[2] \in 0..(BLOCKS_PER_SECTOR - 1) /\ p[3] \in 0..(BLOCK_SIZE - 1)
  BY <1>2
<1>4. QED
  BY <1>1, <1>3 DEF p

\* A selection leaves the cached READ or none.
LEMMA SelectedType ==
    ASSUME NdefInv, NEW s
    PROVE  Selected(s) \in CacheSet
  BY DEF NdefInv, DataInv, Selected, CacheSet

\* A hit of the cache is a byte of the tag.
LEMMA CachedByte ==
    ASSUME NdefInv, NEW c \in CacheSet, c # None, NEW b \in 0..(BLOCKS_PER_SECTOR - 1),
           NEW o \in 0..(BLOCK_SIZE - 1)
    PROVE  CachedData(c, b)[o] \in Byte
<1> DEFINE k == (c[2] + Ahead(c, b)) % BLOCKS_PER_SECTOR
<1>1. c[1] \in 0..MAX_SECTOR /\ c[2] \in 0..(BLOCKS_PER_SECTOR - 1)
  BY DEF CacheSet
<1>2. BLOCKS_PER_SECTOR \in Nat \ {0}
  BY AddressAssumption
<1>3. Ahead(c, b) \in 0..(BLOCKS_PER_SECTOR - 1)
  <2>1. b - c[2] \in Int
    BY <1>1, <1>2
  <2>2. (b - c[2]) % BLOCKS_PER_SECTOR \in 0..(BLOCKS_PER_SECTOR - 1)
    BY <1>2, <2>1
  <2>3. QED
    BY <2>2 DEF Ahead
<1>4. k \in 0..(BLOCKS_PER_SECTOR - 1)
  <2>1. c[2] + Ahead(c, b) \in Nat
    BY <1>1, <1>2, <1>3
  <2>2. QED
    BY <1>2, <2>1
<1>5. CachedData(c, b)[o] = memory[c[1] * SECTOR_SIZE + k * BLOCK_SIZE + o]
  BY DEF CachedData, BlockData
<1> HIDE DEF k
<1>6. c[1] * SECTOR_SIZE + k * BLOCK_SIZE + o \in Address
  BY <1>1, <1>4, PlaceAddress
<1>7. QED
  BY <1>5, <1>6 DEF NdefInv, DataInv

\* One byte of the data area.
LEMMA TakeByteKeeps ==
    ASSUME NdefInv, NEW b \in Byte, pc = "area", TakeByte(b),
           sector' \in SectorSet, cache' \in CacheSet,
           UNCHANGED <<memory, call, msg, histVars>>
    PROVE  NdefInv'
<1> DEFINE pushed == try_push(stream, b, DATA_CAPACITY)
<1>1. pushed.status \in {"ok", "buffer_full"}
  BY DEF try_push, try_extend
<1>2. pushed.status = "ok" => pushed.vec \in Seq(Byte) /\ Len(pushed.vec) <= DATA_CAPACITY
  <2>1. stream \in Seq(Byte) /\ Len(stream) \in Nat /\ DATA_CAPACITY \in Nat
    BY TlvAssumption DEF NdefInv, DataInv
  <2>2. pushed.status = "ok" => /\ pushed.vec = stream \o <<b>>
                                /\ ~(Len(stream) + Len(<<b>>) > DATA_CAPACITY)
    BY DEF try_push, try_extend
  <2>3. stream \o <<b>> \in Seq(Byte) /\ Len(stream \o <<b>>) = Len(stream) + 1 /\ Len(<<b>>) = 1
    BY <2>1
  <2> HIDE DEF pushed
  <2>4. pushed.status = "ok" => Len(pushed.vec) = Len(stream) + 1 /\ pushed.vec \in Seq(Byte)
                                /\ ~(Len(stream) + 1 > DATA_CAPACITY)
    BY <2>2, <2>3
  <2>5. QED
    BY <2>1, <2>4
<1> HIDE DEF pushed
<1>3. CASE pushed.status # "ok" /\ Return(Reply(pushed.status))
  <2>1. Reply(pushed.status).status \in Statuses
    BY <1>1 DEF Reply, Statuses
  <2>2. memory' \in [Address -> Byte]
    BY DEF NdefInv, DataInv
  <2>3. QED
    BY <1>3, <2>1, <2>2, ReturnKeeps
<1>4. CASE /\ byte_addr' = byte_addr + 1
           /\ stream' = stream \/ (pushed.status = "ok" /\ stream' = pushed.vec)
           /\ pc' = pc \/ pc' = "parse"
           /\ UNCHANGED <<cc, layout, writeVars, ret>>
  <2>1. DataInv'
    BY <1>2, <1>4 DEF NdefInv, DataInv, SectorSet, CacheSet, histVars, writeVars
  <2>2. pc' \in {"area", "parse"}
    BY <1>4
  <2>3. InCall'
    BY <1>4, <2>2 DEF NdefInv, InCall
  <2>4. Writing' /\ RoomLeft'
    BY <2>2 DEF Writing, RoomLeft
  <2>5. QED
    BY <2>1, <2>3, <2>4 DEF NdefInv
<1>5. \/ pushed.status # "ok" /\ Return(Reply(pushed.status))
      \/ /\ byte_addr' = byte_addr + 1
         /\ stream' = stream \/ (pushed.status = "ok" /\ stream' = pushed.vec)
         /\ pc' = pc \/ pc' = "parse"
         /\ UNCHANGED <<cc, layout, writeVars, ret>>
  <2>1. CASE is_skip_area(layout, byte_addr)
    <3>1. byte_addr' = byte_addr + 1 /\ UNCHANGED <<pc, stream, cc, layout, writeVars, ret>>
      BY <2>1 DEF TakeByte
    <3>2. QED
      BY <3>1
  <2>2. CASE ~is_skip_area(layout, byte_addr) /\ pushed.status # "ok"
    BY <2>2 DEF TakeByte, pushed
  <2>3. CASE ~is_skip_area(layout, byte_addr) /\ pushed.status = "ok"
    <3>1. /\ byte_addr' = byte_addr + 1
          /\ stream' = pushed.vec
          /\ \/ pc' = "parse"
             \/ pc' = pc
          /\ UNCHANGED <<cc, layout, writeVars, ret>>
      BY <2>3 DEF TakeByte, pushed
    <3>2. QED
      BY <2>3, <3>1
  <2>4. QED
    BY <2>1, <2>2, <2>3
<1>6. QED
  BY <1>3, <1>4, <1>5

\* A byte of the data area is read (reader.rs:300-360).
LEMMA ReadByteKeeps ==
    ASSUME NdefInv, ReadByte
    PROVE  NdefInv'
<1> DEFINE p == address_to_sector_block(byte_addr)
           c == Selected(p[1])
           v == IF Cached(c, p[2]) THEN CachedData(c, p[2])[p[3]] ELSE memory[byte_addr]
<1>1. pc = "area" /\ UNCHANGED <<memory, call, msg, histVars>>
  BY DEF ReadByte
<1>2. CASE p = None
  <2>1. Return(Reply("out_of_range")) /\ UNCHANGED <<sector, cache>>
    BY <1>2 DEF ReadByte
  <2>2. Reply("out_of_range").status \in Statuses
    BY DEF Reply, Statuses
  <2>3. memory' \in [Address -> Byte] /\ sector' \in SectorSet /\ cache' \in CacheSet
    BY <1>1, <2>1 DEF NdefInv, DataInv, SectorSet, CacheSet
  <2>4. QED
    BY <1>1, <2>1, <2>2, <2>3, ReturnKeeps
<1>3. CASE p # None
  <2>1. /\ byte_addr \in Address
        /\ p[1] \in 0..MAX_SECTOR
        /\ p[2] \in 0..(BLOCKS_PER_SECTOR - 1)
        /\ p[3] \in 0..(BLOCK_SIZE - 1)
    BY <1>3, ReadPlace
  <2>2. c \in CacheSet
    BY SelectedType
  <2>3. /\ sector' = p[1]
        /\ cache' = IF Cached(c, p[2]) THEN c ELSE <<p[1], p[2]>>
        /\ TakeByte(v)
    BY <1>3 DEF ReadByte
  <2>4. v \in Byte
    <3>1. CASE Cached(c, p[2])
      <4>1. c # None
        BY <3>1 DEF Cached
      <4>2. CachedData(c, p[2])[p[3]] \in Byte
        BY <2>1, <2>2, <4>1, CachedByte
      <4>3. QED
        BY <3>1, <4>2
    <3>2. CASE ~Cached(c, p[2])
      BY <2>1, <3>2 DEF NdefInv, DataInv
    <3>3. QED
      BY <3>1, <3>2
  <2> HIDE DEF p, c, v
  <2>5. sector' \in SectorSet /\ cache' \in CacheSet
    BY <2>1, <2>2, <2>3 DEF SectorSet, CacheSet
  <2>6. QED
    BY <1>1, <2>3, <2>4, <2>5, TakeByteKeeps
<1>4. QED
  BY <1>2, <1>3

\* The bytes read are parsed, and read again when they declare areas (reader.rs:371-391).
LEMMA ParseKeeps ==
    ASSUME NdefInv, Parse
    PROVE  NdefInv'
<1> DEFINE p == parse_tlvs(stream)
<1>1. /\ pc \in {"parse", "area"} /\ call \in {"read_ndef", "write_ndef"}
      /\ UNCHANGED <<memory, sector, cache, call, msg, histVars>>
  BY DEF Parse, NdefInv, DataInv
<1>2. /\ memory' \in [Address -> Byte] /\ sector \in SectorSet /\ cache \in CacheSet
      /\ sector' \in SectorSet /\ cache' \in CacheSet
  BY <1>1 DEF NdefInv, DataInv, SectorSet, CacheSet
<1>3. p \in [status : {"ok"} \cup ParseErrors, tlvs : Seq(TlvBlocks)]
  BY ParseTlvsType DEF NdefInv, DataInv
<1>4. /\ cc.size_field \in Nat /\ is_valid(cc) /\ (call = "write_ndef" => Writable(cc))
  BY <1>1 DEF NdefInv, InCall
<1>5. \/ p.status # "ok" /\ Return(Reply(p.status))
      \/ BeginRead(2, cc, from_cc_and_tlvs(cc, p.tlvs))
      \/ Return(Message(p))
      \/ /\ call # "read_ndef"
         /\ pc' = "plan" /\ tlvs' = p.tlvs /\ layout' = from_cc_and_tlvs(cc, p.tlvs)
         /\ byte_addr' = 0 /\ stream' = <<>>
         /\ UNCHANGED <<cc, offset, limit, addr, todo, ret>>
  BY DEF Parse
<1> HIDE DEF p
<1>6. CASE p.status # "ok" /\ Return(Reply(p.status))
  <2>1. Reply(p.status).status \in Statuses
    BY <1>3 DEF Reply, Statuses, ParseErrors
  <2>2. QED
    BY <1>1, <1>2, <1>6, <2>1, ReturnKeeps
<1>7. CASE BeginRead(2, cc, from_cc_and_tlvs(cc, p.tlvs))
  BY <1>1, <1>2, <1>3, <1>4, <1>7, BeginReadKeeps
<1>8. CASE Return(Message(p))
  <2>1. Message(p).status \in Statuses
    BY <1>3, MessageType DEF Statuses, ParseErrors
  <2>2. QED
    BY <1>1, <1>2, <1>8, <2>1, ReturnKeeps
<1>9. CASE /\ call # "read_ndef"
           /\ pc' = "plan" /\ tlvs' = p.tlvs /\ layout' = from_cc_and_tlvs(cc, p.tlvs)
           /\ byte_addr' = 0 /\ stream' = <<>>
           /\ UNCHANGED <<cc, offset, limit, addr, todo, ret>>
  <2>1. DATA_CAPACITY \in Nat
    BY TlvAssumption
  <2>2. DataInv'
    BY <1>1, <1>2, <1>3, <1>9, <2>1 DEF NdefInv, DataInv, SectorSet, CacheSet, histVars
  <2>3. /\ from_cc_and_tlvs(cc, p.tlvs) \in Layouts
        /\ from_cc_and_tlvs(cc, p.tlvs).data_area_size = data_area_size(cc)
    BY <1>3, <1>4, LayoutOfTag DEF from_cc_and_tlvs
  <2>4. InCall'
    BY <1>1, <1>4, <1>9, <2>3 DEF InCall
  <2>5. Writing' /\ RoomLeft'
    BY <1>1, <1>9 DEF Writing, RoomLeft
  <2>6. QED
    BY <2>2, <2>4, <2>5 DEF NdefInv
<1>10. QED
  BY <1>5, <1>6, <1>7, <1>8, <1>9

\* The bytes write_ndef is going to write, T and Terminator included.
LEMMA PayloadIs ==
    ASSUME msg \in Seq(Byte)
    PROVE  /\ Payload \in Seq(Byte) /\ Payload # <<>>
           /\ Len(Payload) = 1 + LengthFieldSize(Len(msg)) + Len(msg) + 1
<1> DEFINE z == EmptyLength
<1>1. /\ TLV_NDEF_MESSAGE \in Byte /\ TLV_TERMINATOR \in Byte /\ LONG_LENGTH \in Byte
      /\ 0 \in Byte
  BY TlvAssumption DEF TLV_NDEF_MESSAGE, TLV_TERMINATOR, LONG_LENGTH, Byte
<1>2. LengthFieldSize(Len(msg)) \in {1, 3}
  BY DEF LengthFieldSize
<1>3. z \in Seq(Byte) /\ Len(z) = LengthFieldSize(Len(msg))
  BY <1>1, <1>2 DEF EmptyLength
<1>4. Payload = <<TLV_NDEF_MESSAGE>> \o z \o msg \o <<TLV_TERMINATOR>>
  BY DEF Payload
<1> HIDE DEF z
<1>5. <<TLV_NDEF_MESSAGE>> \in Seq(Byte) /\ <<TLV_TERMINATOR>> \in Seq(Byte)
  BY <1>1
<1>6. Payload \in Seq(Byte) /\ Len(Payload) = 1 + Len(z) + Len(msg) + 1
  <2> DEFINE u == <<TLV_NDEF_MESSAGE>> \o z
             w == u \o msg
  <2>1. u \in Seq(Byte) /\ Len(u) = 1 + Len(z)
    BY <1>3, <1>5
  <2> HIDE DEF u
  <2>2. w \in Seq(Byte) /\ Len(w) = Len(u) + Len(msg)
    BY <2>1
  <2> HIDE DEF w
  <2>3. /\ w \o <<TLV_TERMINATOR>> \in Seq(Byte)
        /\ Len(w \o <<TLV_TERMINATOR>>) = Len(w) + 1
    BY <1>5, <2>2
  <2>4. Payload = w \o <<TLV_TERMINATOR>>
    BY <1>4 DEF w, u
  <2>5. QED
    BY <2>1, <2>2, <2>3, <2>4
<1>7. Len(Payload) # 0
  BY <1>2, <1>3, <1>6
<1>8. QED
  BY <1>3, <1>6, <1>7

\* write_ndef proves that the TLV fits before it writes (reader.rs:455-530).
LEMMA PlanKeeps ==
    ASSUME NdefInv, Plan
    PROVE  NdefInv'
<1> DEFINE at     == NdefOffset(tlvs)
           filled == try_extend(<<>>, Payload, DATA_CAPACITY)
           size   == layout.data_area_size
<1>1. /\ pc = "plan" /\ call = "write_ndef"
      /\ UNCHANGED <<memory, sector, cache, call, msg, histVars>>
  BY DEF Plan, NdefInv, Writing
<1>2. /\ memory' \in [Address -> Byte] /\ sector' \in SectorSet /\ cache' \in CacheSet
  BY <1>1 DEF NdefInv, DataInv, SectorSet, CacheSet
<1>3. filled.status \in {"ok", "buffer_full"}
  BY DEF try_extend
<1>4. filled.status = "ok" => filled.vec = Payload
  <2>1. Payload \in Seq(Byte)
    BY PayloadIs DEF NdefInv, DataInv
  <2>2. filled.status = "ok" => filled.vec = <<>> \o Payload
    BY DEF try_extend
  <2>3. QED
    BY <2>1, <2>2
<1>5. \/ Return(Reply("out_of_range"))
      \/ Return(Reply("invalid_tlv"))
      \/ filled.status # "ok" /\ Return(Reply(filled.status))
      \/ /\ ~(Len(msg) > MAX_TLV_LENGTH)
         /\ FirstNdef(tlvs) # None
         /\ ~(RequiredEnd(at) > data_area_size(cc))
         /\ NdefAddress(layout, at) # None /\ WriteLimit(layout) # None
         /\ filled.status = "ok"
         /\ pc' = "value" /\ offset' = at /\ limit' = WriteLimit(layout) + 1
         /\ addr' = NdefAddress(layout, at) /\ todo' = filled.vec /\ tlvs' = <<>>
         /\ UNCHANGED <<cc, layout, readVars, ret>>
  BY DEF Plan
<1> HIDE DEF filled, at
<1>6. /\ Reply("out_of_range").status \in Statuses /\ Reply("invalid_tlv").status \in Statuses
      /\ Reply(filled.status).status \in Statuses
  BY <1>3 DEF Reply, Statuses
<1>7. CASE /\ ~(Len(msg) > MAX_TLV_LENGTH)
           /\ FirstNdef(tlvs) # None
           /\ ~(RequiredEnd(at) > data_area_size(cc))
           /\ NdefAddress(layout, at) # None /\ WriteLimit(layout) # None
           /\ filled.status = "ok"
           /\ pc' = "value" /\ offset' = at /\ limit' = WriteLimit(layout) + 1
           /\ addr' = NdefAddress(layout, at) /\ todo' = filled.vec /\ tlvs' = <<>>
           /\ UNCHANGED <<cc, layout, readVars, ret>>
  <2>1. at \in Nat
    BY <1>7, FirstNdefIs DEF NdefInv, DataInv, at
  <2>2. /\ msg \in Seq(Byte) /\ Len(msg) \in Nat
        /\ size \in Nat /\ size = data_area_size(cc)
    BY <1>1 DEF NdefInv, DataInv, InCall, Layouts
  <2>3. LengthFieldSize(Len(msg)) \in {1, 3}
    BY DEF LengthFieldSize
  <2>4. /\ todo' \in Seq(Byte) /\ todo' # <<>>
        /\ Len(todo') = 1 + LengthFieldSize(Len(msg)) + Len(msg) + 1
    BY <1>4, <1>7, <2>2, PayloadIs
  <2>5. RequiredEnd(at) = at + 1 + LengthFieldSize(Len(msg)) + Len(msg) + 1
    BY DEF RequiredEnd
  <2> HIDE DEF size
  <2>6. RequiredEnd(at) <= size /\ at < size /\ size # 0
    BY <1>7, <2>1, <2>2, <2>3, <2>5
  <2>7. /\ limit' \in Nat
        /\ Cardinality(UsableBetween(layout, DATA_START, limit')) = size
    <3>1. WriteLimit(layout) = usable_offset_to_address(layout, size - 1)
      BY DEF WriteLimit, size
    <3>2. size \in Nat \ {0}
      BY <2>2, <2>6
    <3>3. QED
      BY <1>7, <3>1, <3>2, LimitEnds
  <2>8. /\ addr' \in Nat
        /\ Cardinality(UsableBetween(layout, addr', limit')) = size - at
    BY <1>7, <2>1, <2>2, <2>6, <2>7, RoomFrom DEF NdefAddress
  <2>9. Len(todo') <= Cardinality(UsableBetween(layout, addr', limit'))
    <3> DEFINE n == 1 + LengthFieldSize(Len(msg)) + Len(msg) + 1
    <3>1. n \in Nat
      BY <2>2, <2>3
    <3>2. at + n <= size
      BY <2>1, <2>2, <2>3, <2>5, <2>6
    <3> HIDE DEF n
    <3>3. n <= size - at
      BY <2>1, <2>2, <3>1, <3>2
    <3>4. Len(todo') = n
      BY <2>4 DEF n
    <3>5. QED
      BY Zenon, <2>8, <3>3, <3>4
  <2>10. DataInv'
    BY <1>1, <1>2, <1>7, <2>1, <2>4, <2>7, <2>8
    DEF NdefInv, DataInv, SectorSet, CacheSet, histVars, readVars
  <2>11. InCall' /\ Writing'
    BY <1>1, <1>7 DEF NdefInv, InCall, Writing, Writable
  <2>12. Len(msg) <= MAX_TLV_LENGTH
    BY <1>7, <2>2, TlvAssumption DEF MAX_TLV_LENGTH
  <2>13. RoomLeft'
    BY <1>1, <1>7, <2>4, <2>6, <2>7, <2>9, <2>12 DEF RoomLeft, RequiredEnd, size
  <2>14. QED
    BY <2>10, <2>11, <2>13 DEF NdefInv
<1>8. QED
  BY <1>1, <1>2, <1>5, <1>6, <1>7, ReturnKeeps

\* The WRITE of a page, done or not, leaves bytes, and a sector and a cache there are.
LEMMA PageEffects ==
    ASSUME NdefInv, pc \in {"value", "length"}
    PROVE  /\ WithinLimit /\ Place # None
           /\ PageWritten \in [Address -> Byte]
           /\ Place[1] \in 0..MAX_SECTOR
           /\ CacheAfterRead \in CacheSet
<1>1. WithinLimit /\ Place # None
  BY PageFits DEF WithinLimit
<1>2. PageWritten \in [Address -> Byte]
  BY <1>1, PageWrittenType
<1>3. /\ Place \in (0..MAX_SECTOR) \X (0..(BLOCKS_PER_SECTOR - 1)) \X (0..(BLOCK_SIZE - 1))
      /\ Place[1] \in 0..MAX_SECTOR
  BY <1>1, PageIs
<1>4. <<Place[1], Place[2]>> \in CacheSet
  BY <1>3 DEF CacheSet
<1>5. CacheAfterRead \in CacheSet
  BY <1>4, SelectedType DEF CacheAfterRead
<1>6. QED
  BY <1>1, <1>2, <1>3, <1>5

\* An iteration of write_usable_bytes (reader.rs:580-640).
LEMMA WritePageKeeps ==
    ASSUME NdefInv, WritePage
    PROVE  NdefInv'
<1> DEFINE left == SubSeq(todo, Cardinality(Taken) + 1, Len(todo))
           a    == usable_offset_to_address(layout, offset + 1)
<1>1. pc \in {"value", "length"} /\ UNCHANGED <<call, msg, histVars>>
  BY DEF WritePage
<1>2. WithinLimit /\ PageWritten \in [Address -> Byte] /\ Place[1] \in 0..MAX_SECTOR
      /\ CacheAfterRead \in CacheSet
  BY <1>1, PageEffects
<1>3. /\ memory' = PageWritten /\ sector' = Place[1]
      /\ cache' = IF Taken = {} THEN CacheAfterRead ELSE None
      /\ Proceed
  BY <1>2 DEF WritePage
<1>4. memory' \in [Address -> Byte] /\ sector' \in SectorSet /\ cache' \in CacheSet
  BY <1>2, <1>3 DEF SectorSet, CacheSet
<1>5. a # None
  BY <1>1, RoomForLength
<1>6. \/ /\ left # <<>> /\ todo' = left /\ addr' = NextPage
         /\ UNCHANGED <<pc, cc, layout, readVars, tlvs, offset, limit, ret>>
      \/ /\ pc' = "length" /\ addr' = a /\ todo' = encode_tlv_length(Len(msg))
         /\ UNCHANGED <<cc, layout, readVars, tlvs, offset, limit, ret>>
      \/ Return(ReplyOk(<<>>))
  BY <1>3, <1>5 DEF Proceed, BeginLength
<1>7. CASE /\ pc' \in {"value", "length"} /\ todo' \in Seq(Byte) /\ todo' # <<>> /\ addr' \in Nat
           /\ Len(todo') <= Cardinality(UsableBetween(layout, addr', limit))
           /\ UNCHANGED <<cc, layout, readVars, tlvs, offset, limit, ret>>
  <2>1. DataInv'
    BY <1>1, <1>4, <1>7 DEF NdefInv, DataInv, SectorSet, CacheSet, histVars, readVars
  <2>2. InCall' /\ Writing'
    BY <1>1, <1>7 DEF NdefInv, InCall, Writing, Writable
  <2>3. RoomLeft'
    BY <1>1, <1>7 DEF NdefInv, RoomLeft, RequiredEnd
  <2>4. QED
    BY <2>1, <2>2, <2>3 DEF NdefInv
<1>8. CASE /\ left # <<>> /\ todo' = left /\ addr' = NextPage
           /\ UNCHANGED <<pc, cc, layout, readVars, tlvs, offset, limit, ret>>
  <2>1. /\ left \in Seq(Byte) /\ NextPage \in Nat
        /\ Len(left) <= Cardinality(UsableBetween(layout, NextPage, limit))
    BY <1>1, <1>8, RoomBehind
  <2> HIDE DEF left
  <2>2. QED
    BY <1>1, <1>7, <1>8, <2>1
<1>9. CASE /\ pc' = "length" /\ addr' = a /\ todo' = encode_tlv_length(Len(msg))
           /\ UNCHANGED <<cc, layout, readVars, tlvs, offset, limit, ret>>
  <2>1. /\ a \in Nat
        /\ encode_tlv_length(Len(msg)) \in Seq(Byte) /\ encode_tlv_length(Len(msg)) # <<>>
        /\ Len(encode_tlv_length(Len(msg))) <= Cardinality(UsableBetween(layout, a, limit))
    BY <1>1, RoomForLength
  <2> HIDE DEF a
  <2>2. QED
    BY <1>7, <1>9, <2>1
<1>10. CASE Return(ReplyOk(<<>>))
  <2>1. ReplyOk(<<>>).status \in Statuses
    BY DEF ReplyOk, Statuses
  <2>2. QED
    BY <1>1, <1>4, <1>10, <2>1, ReturnKeeps
<1>11. QED
  BY <1>6, <1>8, <1>9, <1>10

\* A page that was perhaps written leaves bytes behind either way.
LEMMA MaybeWrittenType ==
    ASSUME NdefInv, MaybeWritten
    PROVE  memory' \in [Address -> Byte]
<1>1. CASE UNCHANGED memory
  BY <1>1 DEF NdefInv, DataInv
<1>2. CASE pc \in {"value", "length"} /\ memory' = PageWritten
  BY <1>2, PageEffects
<1>3. QED
  BY <1>1, <1>2 DEF MaybeWritten

\* The command layer reports a failure.
LEMMA AccessFailsKeeps ==
    ASSUME NdefInv, AccessFails
    PROVE  NdefInv'
<1>1. Return(Reply("link")) /\ UNCHANGED <<call, msg, histVars>> /\ AccessDue
  BY DEF AccessFails
<1>2. Reply("link").status \in Statuses
  BY DEF Reply, Statuses
<1>3. NextPlace[1] \in 0..MAX_SECTOR
  <2>1. CASE pc = "cc"
    <3>1. NextPlace = <<0, CC_BLOCK, 0>>
      BY Zenon, <2>1 DEF NextPlace
    <3>2. QED
      BY <3>1, AddressAssumption
  <2>2. CASE pc = "area"
    <3>1. NextPlace = address_to_sector_block(byte_addr)
      BY Zenon, <2>2 DEF NextPlace
    <3>2. NextPlace # None
      BY <1>1, <2>2 DEF AccessDue
    <3>3. QED
      BY <3>1, <3>2, ReadPlace
  <2>3. CASE pc \in {"value", "length"}
    <3>1. NextPlace = Place
      BY Zenon, <2>3 DEF NextPlace
    <3>2. QED
      BY <2>3, <3>1, PageEffects
  <2>4. QED
    BY <1>1, <2>1, <2>2, <2>3 DEF AccessDue
<1>4. memory' \in [Address -> Byte]
  <2>1. MaybeWritten \/ UNCHANGED memory
    BY DEF AccessFails
  <2>2. QED
    BY <2>1, MaybeWrittenType DEF NdefInv, DataInv
<1>5. sector' \in {Unknown, NextPlace[1]} /\ cache' \in {None, Selected(NextPlace[1])}
  BY DEF AccessFails
<1>6. sector' \in SectorSet /\ cache' \in CacheSet
  <2>1. Selected(NextPlace[1]) \in CacheSet /\ None \in CacheSet
    BY SelectedType DEF CacheSet
  <2>2. QED
    BY <1>3, <1>5, <2>1 DEF SectorSet
<1>7. QED
  BY <1>1, <1>2, <1>4, <1>6, ReturnKeeps

\* The reader is interrupted.
LEMMA CrashKeeps ==
    ASSUME NdefInv, Crash
    PROVE  NdefInv'
<1>1. /\ Return(Reply("crashed")) /\ UNCHANGED <<call, msg, histVars>>
      /\ MaybeWritten /\ sector' = 0 /\ cache' = None
  BY DEF Crash
<1>2. Reply("crashed").status \in Statuses
  BY DEF Reply, Statuses
<1>3. sector' \in SectorSet /\ cache' \in CacheSet
  BY <1>1, AddressAssumption DEF SectorSet, CacheSet
<1>4. memory' \in [Address -> Byte]
  BY <1>1, MaybeWrittenType
<1>5. QED
  BY <1>1, <1>2, <1>3, <1>4, ReturnKeeps

\* The invariant holds when the reader is created.
LEMMA InitNdefInv == Init => NdefInv
<1> SUFFICES ASSUME Init PROVE NdefInv
  OBVIOUS
<1>1. memory \in [Address -> Byte]
  BY NdefAssumption DEF Init
<1>2. DATA_CAPACITY \in Nat /\ 0 \in 0..MAX_SECTOR
  BY TlvAssumption, AddressAssumption
<1>3. Reply("none").status \in Statuses /\ Reply("none").data = <<>>
  BY DEF Reply, Statuses
<1>4. DataInv
  <2>1. /\ <<>> \in Seq(Byte) /\ <<>> \in Seq(TlvBlocks)
        /\ Len(<<>>) = 0 /\ 0 <= DATA_CAPACITY
    BY <1>2
  <2>2. before.data = <<>> /\ ret.status \in Statuses
    BY <1>3 DEF Init
  <2>3. /\ stream = <<>> /\ tlvs = <<>> /\ todo = <<>> /\ msg = <<>> /\ sector = 0
        /\ cache = None /\ pc = "idle" /\ byte_addr = 0 /\ offset = 0 /\ limit = 0 /\ addr = 0
    BY DEF Init
  <2>4. QED
    BY <1>1, <1>2, <2>1, <2>2, <2>3 DEF DataInv
<1>5. InCall /\ Writing /\ RoomLeft
  BY DEF Init, InCall, Writing, RoomLeft
<1>6. QED
  BY <1>4, <1>5 DEF NdefInv

\* It is kept by every step.
LEMMA NextKeeps == NdefInv /\ [Next]_vars => NdefInv'
<1> SUFFICES ASSUME NdefInv, [Next]_vars PROVE NdefInv'
  OBVIOUS
<1>1. CASE read_ndef
  <2>1. <<>> \in Seq(Byte)
    OBVIOUS
  <2>2. QED
    BY <1>1, <2>1, BeginKeeps DEF read_ndef
<1>2. ASSUME NEW m \in Messages, write_ndef(m) PROVE NdefInv'
  <2>1. m \in Seq(Byte)
    BY NdefAssumption
  <2>2. QED
    BY <1>2, <2>1, BeginKeeps DEF write_ndef
<1>3. ASSUME NEW s \in 0..MAX_SECTOR \cup {Unknown},
             NEW c \in {None} \cup ({s} \ {Unknown}) \X (0..(BLOCKS_PER_SECTOR - 1)),
             OtherUse(s, c)
      PROVE  NdefInv'
  <2>1. s \in SectorSet
    BY DEF SectorSet
  <2>2. QED
    BY <1>3, <2>1, OtherUseKeeps
<1>4. CASE Progress
  BY <1>4, ReadCcKeeps, ReadByteKeeps, ParseKeeps, PlanKeeps, WritePageKeeps DEF Progress
<1>5. CASE AccessFails \/ Crash
  BY <1>5, AccessFailsKeeps, CrashKeeps
<1>6. CASE UNCHANGED vars
  BY <1>6 DEF vars, NdefInv, DataInv, InCall, Writing, RoomLeft, Writable, RequiredEnd
<1>7. QED
  BY <1>1, <1>2, <1>3, <1>4, <1>5, <1>6 DEF Next, Application

\* What holds throughout read_ndef and write_ndef.
THEOREM SpecNdefInv == Spec => []NdefInv
  BY InitNdefInv, NextKeeps, PTL DEF Spec

\* The state of the NDEF operations is well typed: no sector, block or buffer out of
\* its range, on whatever tag.
THEOREM NdefTypeCorrect == Spec => []TypeOK
<1>1. NdefInv => TypeOK
  BY DEF NdefInv, DataInv, TypeOK
<1>2. QED
  BY <1>1, SpecNdefInv, PTL

\* write_ndef writes only to a tag that is INITIALIZED or READ/WRITE
\* (reader.rs:436-442).
THEOREM WritesNeedAccess == Spec => []WritesOnlyWritable
<1>1. NdefInv => WritesOnlyWritable
  <2> SUFFICES ASSUME NdefInv, pc \in {"value", "length"}
               PROVE  tag_state(cc, Len(before.data)) \in {"initialized", "read_write"}
    BY DEF WritesOnlyWritable
  <2> DEFINE k == Len(before.data)
  <2>1. /\ is_valid(cc) /\ cc.write_access = Granted
    BY DEF NdefInv, InCall, Writing, Writable
  <2>2. k \in Nat
    BY DEF NdefInv, DataInv
  <2> HIDE DEF k
  <2>3. CASE k = 0
    <3>1. ~(k > 0)
      BY <2>3
    <3>2. tag_state(cc, k) = "initialized"
      BY Zenon, <2>1, <2>3, <3>1 DEF tag_state
    <3>3. QED
      BY <3>2 DEF k
  <2>4. CASE k # 0
    <3>1. k > 0
      BY <2>2, <2>4
    <3>2. Granted # Denied
      BY DEF Granted, Denied, Access
    <3>3. tag_state(cc, k) = "read_write"
      BY Zenon, <2>1, <2>4, <3>1, <3>2 DEF tag_state
    <3>4. QED
      BY <3>3 DEF k
  <2>5. QED
    BY <2>3, <2>4
<1>2. QED
  BY <1>1, SpecNdefInv, PTL

\* Once write_ndef has begun to write it is not refused: the capacity it has proved
\* is enough for every page and for the L field (reader.rs:491-507, 522-528).
THEOREM CapacityIsProved == Spec => NeverRefusedHalfway
<1>1. NdefInv /\ [Next]_vars =>
         [(pc = "value" \/ pc = "length") /\ pc' = "idle"
             => ret'.status \in {"ok", "link", "crashed"}]_vars
  <2> SUFFICES ASSUME NdefInv, Next, pc \in {"value", "length"}, pc' = "idle"
               PROVE  ret'.status \in {"ok", "link", "crashed"}
    OBVIOUS
  <2>1. CASE WritePage
    <3>1. WithinLimit
      BY PageFits
    <3>2. Proceed
      BY <2>1, <3>1 DEF WritePage
    <3>3. usable_offset_to_address(layout, offset + 1) # None
      BY RoomForLength
    <3>4. Return(ReplyOk(<<>>))
      BY <3>2, <3>3 DEF Proceed, BeginLength
    <3>5. QED
      BY <3>4 DEF Return, ReplyOk
  <2>2. CASE AccessFails
    BY <2>2 DEF AccessFails, Return, Reply
  <2>3. CASE Crash
    BY <2>3 DEF Crash, Return, Reply
  <2>4. ~Application /\ ~ReadCc /\ ~ReadByte /\ ~Parse /\ ~Plan
    BY DEF Application, read_ndef, write_ndef, Begin, OtherUse, ReadCc, ReadByte, Parse, Plan
  <2>5. QED
    BY <2>1, <2>2, <2>3, <2>4 DEF Next, Progress
<1>2. QED
  BY <1>1, SpecNdefInv, PTL DEF Spec, NeverRefusedHalfway

-----------------------------------------------------------------------------
(* What read_ndef returns. *)

\* The cached READ is one of the sector the reader believes in.
CacheHere == cache # None => cache[1] = sector

\* The container of a tag, and what the first pass over its data area finds.
CcOf(mem) ==
    LET b == BlockData(mem, 0, CC_BLOCK) IN ParseCc(<<b[0], b[1], b[2], b[3]>>)
FirstOf(mem) == parse_tlvs(DataArea(mem, from_cc_and_tlvs(CcOf(mem), <<>>)))

\* The layout is the one this pass is to be made with.
PassLayout ==
    \/ pass = 1 /\ layout = from_cc_and_tlvs(cc, <<>>)
    \/ /\ pass = 2
       /\ FirstOf(memory).status = "ok"
       /\ is_dynamic(cc)
       /\ HasControl(FirstOf(memory).tlvs)
       /\ layout = from_cc_and_tlvs(cc, FirstOf(memory).tlvs)

\* While the data area is read: what has been read is the data area up to byte_addr,
\* the scanner has followed it, and where it has stopped the parse is settled.
ReadSoFar ==
    pc \in {"area", "parse"} =>
        /\ cc = CcOf(memory) /\ cc.status = "ok"
        /\ PassLayout
        /\ byte_addr \in DATA_START..ADDRESS_SPACE_END
        /\ stream = DataUpTo(memory, layout)[byte_addr - DATA_START]
        /\ pc = "area" => Following(stream, scan)
        /\ pc = "parse" => \E r : Settled(stream, r)

\* The part of the inductive invariant that says what read_ndef returns.
HeldInv == CacheHere /\ ReadSoFar /\ ReadsWhatIsHeld

\* The block at which a cached READ and the distance to a block lead is that block.
LEMMA AheadLeads ==
    ASSUME NEW n \in Nat \ {0}, NEW b \in 0..(n - 1), NEW k \in 0..(n - 1)
    PROVE  (k + ((b - k) % n)) % n = b
<1>1. ASSUME NEW x \in 0..(n - 1) PROVE x % n = x /\ (x + n) % n = x /\ (x - n) % n = x
  <2>1. ASSUME NEW y \in Int, NEW q \in Int, y = n * q + x PROVE y % n = x
    <3> DEFINE r == y % n
               p == y \div n
    <3>1. r \in 0..(n - 1) /\ p \in Int /\ y = n * p + r
      <4>1. y \in Int /\ n \in Nat \ {0}
        OBVIOUS
      <4>2. QED
        BY <4>1
    <3> HIDE DEF r, p
    <3>2. n * (p - q) = x - r /\ p - q \in Int
      BY <2>1, <3>1
    <3>3. x - r < n /\ x - r > -n
      BY <3>1
    <3>4. p - q = 0
      <4> DEFINE z == p - q
      <4>1. z \in Int /\ n * z < n /\ n * z > -n
        BY <3>2, <3>3
      <4> HIDE DEF z
      <4>2. ~(z >= 1)
        BY <4>1
      <4>3. ~(z <= -1)
        BY <4>1
      <4>4. QED
        BY <4>1, <4>2, <4>3 DEF z
    <3>5. n * (p - q) = 0
      BY <3>4
    <3>6. QED
      BY <3>1, <3>2, <3>5 DEF r
  <2>2. x = n * 0 + x /\ x + n = n * 1 + x /\ x - n = n * (-1) + x
    OBVIOUS
  <2>3. QED
    BY <2>1, <2>2
<1>2. CASE b >= k
  <2>1. b - k \in 0..(n - 1)
    BY <1>2
  <2>2. (b - k) % n = b - k
    BY <1>1, <2>1
  <2>3. k + (b - k) = b
    OBVIOUS
  <2>4. QED
    BY <1>1, <2>2, <2>3
<1>3. CASE ~(b >= k)
  <2>1. (b - k) + n \in 0..(n - 1) /\ ((b - k) + n) - n = b - k
    BY <1>3
  <2>2. (b - k) % n = (b - k) + n
    BY <1>1, <2>1
  <2>3. k + ((b - k) + n) = b + n
    OBVIOUS
  <2>4. QED
    BY <1>1, <2>2, <2>3
<1>4. QED
  BY <1>2, <1>3

\* A byte is the same from the cache as from the tag (reader.rs:309-346).
LEMMA CachedIsHeld ==
    ASSUME NdefInv, CacheHere, address_to_sector_block(byte_addr) # None,
           LET p == address_to_sector_block(byte_addr) IN Cached(Selected(p[1]), p[2])
    PROVE  LET p == address_to_sector_block(byte_addr)
           IN CachedData(Selected(p[1]), p[2])[p[3]] = memory[byte_addr]
<1> DEFINE p == address_to_sector_block(byte_addr)
           c == Selected(p[1])
<1>1. /\ byte_addr \in Address
      /\ p[1] \in 0..MAX_SECTOR
      /\ p[2] \in 0..(BLOCKS_PER_SECTOR - 1)
      /\ p[3] \in 0..(BLOCK_SIZE - 1)
  BY ReadPlace
<1>2. sector_block_to_address(p[1], p[2], p[3]) = byte_addr
  BY <1>1, AddressConverts
<1>3. c # None
  BY DEF Cached
<1>4. c = cache /\ c[1] = p[1]
  BY <1>3 DEF Selected, CacheHere
<1>5. c[2] \in 0..(BLOCKS_PER_SECTOR - 1)
  BY <1>3, SelectedType DEF CacheSet
<1> HIDE DEF p, c
<1>6. (c[2] + ((p[2] - c[2]) % BLOCKS_PER_SECTOR)) % BLOCKS_PER_SECTOR = p[2]
  BY <1>1, <1>5, AheadLeads, AddressAssumption
<1>7. CachedData(c, p[2]) = BlockData(memory, p[1], p[2])
  <2>1. (c[2] + Ahead(c, p[2])) % BLOCKS_PER_SECTOR = p[2]
    BY <1>1, <1>5, <1>6, AddressAssumption DEF Ahead
  <2>2. QED
    BY <1>4, <2>1 DEF CachedData
<1>8. BlockData(memory, p[1], p[2])[p[3]] = memory[p[1] * SECTOR_SIZE + p[2] * BLOCK_SIZE + p[3]]
  BY <1>1 DEF BlockData
<1>9. p[1] * SECTOR_SIZE + p[2] * BLOCK_SIZE + p[3] = byte_addr
  BY <1>1, <1>2, AddressAssumption DEF sector_block_to_address
<1>10. QED
  BY <1>7, <1>8, <1>9 DEF c, p

\* The next byte of the data area (reader.rs:347-357).
LEMMA DataNext ==
    ASSUME NEW mem \in [Address -> Byte], NEW l, NEW a \in Address, a >= DATA_START
    PROVE  LET D == DataUpTo(mem, l)
           IN D[a + 1 - DATA_START] =
                  IF is_skip_area(l, a) \/ Len(D[a - DATA_START]) >= l.data_area_size
                      THEN D[a - DATA_START] ELSE Append(D[a - DATA_START], mem[a])
<1> DEFINE i == a + 1 - DATA_START
<1>1. i \in 1..(ADDRESS_SPACE_END - DATA_START) /\ i - 1 = a - DATA_START
      /\ DATA_START + i - 1 = a
  BY AddressSizes DEF Address
<1> HIDE DEF i
<1>2. QED
  BY <1>1, DataUpToUnfold DEF i

\* A byte taken is the next one of the data area, and the scanner has followed it.
LEMMA TakeByteReads ==
    ASSUME NdefInv, HeldInv, pc = "area", Len(stream) < layout.data_area_size,
           byte_addr \in Address, TakeByte(memory[byte_addr]),
           UNCHANGED <<memory, call>>
    PROVE  ReadSoFar' /\ ReadsWhatIsHeld'
<1> DEFINE b == memory[byte_addr]
           D == DataUpTo(memory, layout)
           pushed == try_push(stream, b, DATA_CAPACITY)
<1>0. memory \in [Address -> Byte] /\ stream \in Seq(Byte) /\ b \in Byte
  BY DEF NdefInv, DataInv
<1>1. /\ cc = CcOf(memory) /\ cc.status = "ok" /\ PassLayout
      /\ byte_addr \in DATA_START..ADDRESS_SPACE_END
      /\ stream = D[byte_addr - DATA_START]
      /\ Following(stream, scan)
  BY DEF HeldInv, ReadSoFar
<1>2. D[byte_addr + 1 - DATA_START] =
          IF is_skip_area(layout, byte_addr) THEN stream ELSE Append(stream, b)
  <2>1. byte_addr >= DATA_START /\ ~(Len(stream) >= layout.data_area_size)
    <3>1. layout.data_area_size \in Nat /\ Len(stream) \in Nat
      BY <1>0 DEF NdefInv, InCall, Layouts
    <3>2. QED
      BY <1>1, <3>1, AddressSizes
  <2>2. QED
    BY <1>0, <1>1, <2>1, DataNext
<1>3. byte_addr + 1 \in DATA_START..ADDRESS_SPACE_END
  BY <1>1, AddressSizes DEF Address
<1>8. ASSUME byte_addr' = byte_addr + 1
       PROVE  byte_addr' - DATA_START = byte_addr + 1 - DATA_START
  <2>1. byte_addr \in Nat /\ DATA_START \in Nat
    BY <1>1, AddressSizes
  <2> QED
    BY <1>8, <2>1
<1> HIDE DEF D, b
<1>4. CASE is_skip_area(layout, byte_addr)
  <2>1. /\ byte_addr' = byte_addr + 1
        /\ UNCHANGED <<pc, stream, scan, cc, layout, pass, ret>>
    BY <1>4 DEF TakeByte
  <2>2. stream' = DataUpTo(memory', layout')[byte_addr' - DATA_START]
    <3>1. DataUpTo(memory', layout') = D /\ D[byte_addr + 1 - DATA_START] = stream
      BY <1>2, <1>4, <2>1 DEF D
    <3>2. byte_addr' - DATA_START = byte_addr + 1 - DATA_START
      BY <1>8, <2>1
    <3>3. QED
      BY <2>1, <3>1, <3>2
  <2>3. ReadSoFar'
    BY <1>1, <1>3, <2>1, <2>2 DEF ReadSoFar, PassLayout
  <2>4. QED
    BY <2>1, <2>3 DEF ReadsWhatIsHeld
<1>5. CASE ~is_skip_area(layout, byte_addr) /\ pushed.status # "ok"
  <2>1. Return(Reply(pushed.status))
    BY <1>5 DEF TakeByte, b
  <2>2. pc' = "idle" /\ ret' = Reply(pushed.status)
    BY <2>1 DEF Return
  <2> HIDE DEF pushed
  <2>3. QED
    BY <1>5, <2>2 DEF ReadSoFar, ReadsWhatIsHeld, Reply
<1>6. CASE ~is_skip_area(layout, byte_addr) /\ pushed.status = "ok"
  <2>1. /\ byte_addr' = byte_addr + 1
        /\ stream' = pushed.vec
        /\ IF Terminates(scan, b)
             THEN pc' = "parse" /\ UNCHANGED scan
             ELSE scan' = feed(scan, b) /\ UNCHANGED pc
        /\ UNCHANGED <<cc, layout, pass, ret>>
    BY <1>6 DEF TakeByte, b
  <2>2. pushed.vec = stream \o <<b>>
    BY <1>6 DEF try_push, try_extend
  <2> HIDE DEF pushed
  <2>3. stream' = stream \o <<b>> /\ stream \o <<b>> = Append(stream, b)
    BY <1>0, <2>1, <2>2
  <2>4. stream' = DataUpTo(memory', layout')[byte_addr' - DATA_START]
    <3>1. DataUpTo(memory', layout') = D /\ D[byte_addr + 1 - DATA_START] = stream'
      BY <1>2, <1>6, <2>1, <2>3 DEF D
    <3>2. byte_addr' - DATA_START = byte_addr + 1 - DATA_START
      BY <1>8, <2>1
    <3>3. QED
      BY <3>1, <3>2
  <2>5. pc' \in {"area", "parse"}
    BY <2>1
  <2>6. pc' = "area" => Following(stream', scan')
    BY <1>0, <1>1, <2>1, <2>3, FollowingGoesOn
  <2>7. pc' = "parse" => \E r : Settled(stream', r)
    BY <1>0, <1>1, <2>1, <2>3, StopSettles
  <2>8. ReadSoFar'
    BY <1>1, <1>3, <2>1, <2>4, <2>6, <2>7 DEF ReadSoFar, PassLayout
  <2>9. QED
    BY <2>5, <2>8 DEF ReadsWhatIsHeld
<1>7. QED
  BY <1>4, <1>5, <1>6

\* What has been read parses as the whole data area does.
LEMMA ParsesAsHeld ==
    ASSUME NdefInv, HeldInv,
           pc = "parse" \/ (pc = "area" /\ Len(stream) >= layout.data_area_size)
    PROVE  parse_tlvs(stream) = parse_tlvs(DataArea(memory, layout))
<1> DEFINE i == byte_addr - DATA_START
<1>0. memory \in [Address -> Byte] /\ stream \in Seq(Byte)
  BY DEF NdefInv, DataInv
<1>1. /\ byte_addr \in DATA_START..ADDRESS_SPACE_END
      /\ stream = DataUpTo(memory, layout)[i]
  BY DEF HeldInv, ReadSoFar
<1>2. i \in 0..(ADDRESS_SPACE_END - DATA_START)
  BY <1>1, AddressSizes
<1> HIDE DEF i
<1>3. /\ \E x \in Seq(Byte) : DataArea(memory, layout) = stream \o x
      /\ Len(stream) >= layout.data_area_size => DataArea(memory, layout) = stream
  BY <1>0, <1>1, <1>2, DataGoesOn
<1>4. CASE pc = "parse"
  <2>1. PICK r : Settled(stream, r)
    BY <1>4 DEF HeldInv, ReadSoFar
  <2>2. <<>> \in Seq(Byte) /\ stream \o <<>> = stream
    BY <1>0
  <2>3. ParseFrom(stream, 0) = r
    BY <2>1, <2>2 DEF Settled
  <2>4. ParseFrom(DataArea(memory, layout), 0) = r
    BY <1>3, <2>1 DEF Settled
  <2>5. QED
    BY <2>3, <2>4 DEF parse_tlvs
<1>5. CASE pc = "area" /\ Len(stream) >= layout.data_area_size
  BY <1>3, <1>5
<1>6. QED
  BY <1>4, <1>5

\* read_data_area begins.
LEMMA BeginReadReads ==
    ASSUME NdefInv, NEW k, NEW c, NEW l, BeginRead(k, c, l), UNCHANGED memory,
           c = CcOf(memory), c.status = "ok",
           \/ k = 1 /\ l = from_cc_and_tlvs(c, <<>>)
           \/ /\ k = 2 /\ FirstOf(memory).status = "ok" /\ is_dynamic(c)
              /\ HasControl(FirstOf(memory).tlvs)
              /\ l = from_cc_and_tlvs(c, FirstOf(memory).tlvs)
    PROVE  ReadSoFar' /\ ReadsWhatIsHeld'
<1>1. /\ pc' = "area" /\ pass' = k /\ cc' = c /\ layout' = l /\ byte_addr' = DATA_START
      /\ stream' = <<>> /\ scan' = TlvScanner
  BY DEF BeginRead
<1>2. DATA_START \in DATA_START..ADDRESS_SPACE_END /\ DATA_START - DATA_START = 0
  BY AddressSizes
<1>3. DataUpTo(memory, l)[0] = <<>>
  BY DataUpToUnfold DEF NdefInv, DataInv
<1>4. Following(stream', scan')
  BY <1>1, FollowingStarts
<1>5. PassLayout'
  BY <1>1 DEF PassLayout
<1>6. stream' = DataUpTo(memory', layout')[byte_addr' - DATA_START]
  BY <1>1, <1>2, <1>3
<1>7. ReadSoFar'
  BY <1>1, <1>2, <1>4, <1>5, <1>6 DEF ReadSoFar
<1>8. QED
  BY <1>1, <1>7 DEF ReadsWhatIsHeld

\* A call that returns an error says nothing of the tag.
LEMMA ErrorSaysNothing ==
    ASSUME NEW s, s # "ok", Return(Reply(s))
    PROVE  ReadSoFar' /\ ReadsWhatIsHeld'
  BY DEF Return, Reply, ReadSoFar, ReadsWhatIsHeld

\* What is held, by the passes over the data area.
LEMMA HeldBy ==
    ASSUME NEW mem, CcOf(mem).status = "ok", is_valid(CcOf(mem))
    PROVE  Held(mem) =
               IF /\ FirstOf(mem).status = "ok" /\ is_dynamic(CcOf(mem))
                  /\ HasControl(FirstOf(mem).tlvs)
               THEN Message(parse_tlvs(DataArea(mem,
                                from_cc_and_tlvs(CcOf(mem), FirstOf(mem).tlvs))))
               ELSE Message(FirstOf(mem))
  BY DEF Held, CcOf, FirstOf

\* The parsed blocks give the message, or the layout of the second pass
\* (reader.rs:371-391, 404-422).
LEMMA ParseReads ==
    ASSUME NdefInv, HeldInv, Parse
    PROVE  ReadSoFar' /\ ReadsWhatIsHeld'
<1> DEFINE p == parse_tlvs(stream)
<1>1. /\ pc \in {"parse", "area"} /\ UNCHANGED <<memory, call>>
      /\ pc = "parse" \/ (pc = "area" /\ Len(stream) >= layout.data_area_size)
  BY DEF Parse
<1>2. p = parse_tlvs(DataArea(memory, layout))
  BY <1>1, ParsesAsHeld
<1>3. cc = CcOf(memory) /\ cc.status = "ok" /\ PassLayout /\ is_valid(cc)
  BY <1>1 DEF HeldInv, ReadSoFar, NdefInv, InCall
<1>4. pass = 1 => p = FirstOf(memory)
  BY <1>2, <1>3 DEF PassLayout, FirstOf
<1>5. \/ p.status # "ok" /\ Return(Reply(p.status))
      \/ /\ p.status = "ok" /\ pass = 1 /\ is_dynamic(cc) /\ HasControl(p.tlvs)
         /\ BeginRead(2, cc, from_cc_and_tlvs(cc, p.tlvs))
      \/ /\ p.status = "ok" /\ ~(pass = 1 /\ is_dynamic(cc) /\ HasControl(p.tlvs))
         /\ Return(Message(p))
      \/ pc' = "plan"
  BY DEF Parse
<1>6. CASE p.status # "ok" /\ Return(Reply(p.status))
  BY <1>6, ErrorSaysNothing
<1>7. CASE /\ p.status = "ok" /\ pass = 1 /\ is_dynamic(cc) /\ HasControl(p.tlvs)
           /\ BeginRead(2, cc, from_cc_and_tlvs(cc, p.tlvs))
  BY <1>1, <1>3, <1>4, <1>7, BeginReadReads
<1>8. CASE /\ p.status = "ok" /\ ~(pass = 1 /\ is_dynamic(cc) /\ HasControl(p.tlvs))
           /\ Return(Message(p))
  <2>1. pc' = "idle" /\ ret' = Message(p)
    BY <1>8 DEF Return
  <2>2. Message(p) = Held(memory)
    <3>1. CASE pass = 1
      BY <1>3, <1>4, <1>8, <3>1, HeldBy
    <3>2. CASE pass # 1
      BY <1>2, <1>3, <3>2, HeldBy DEF PassLayout
    <3>3. QED
      BY <3>1, <3>2
  <2> HIDE DEF p
  <2>3. QED
    BY <1>1, <2>1, <2>2 DEF ReadSoFar, ReadsWhatIsHeld
<1>9. CASE pc' = "plan"
  BY <1>9 DEF ReadSoFar, ReadsWhatIsHeld
<1>10. QED
  BY <1>5, <1>6, <1>7, <1>8, <1>9

\* The container is read (reader.rs:271-281).
LEMMA ReadCcReads ==
    ASSUME NdefInv, HeldInv, ReadCc
    PROVE  ReadSoFar' /\ ReadsWhatIsHeld'
<1> DEFINE c == CcOf(memory)
<1>1. UNCHANGED memory
  BY DEF ReadCc
<1>2. \/ c.status # "ok" /\ Return(Reply(c.status))
      \/ Return(Reply("invalid_magic"))
      \/ Return(Reply("read_only"))
      \/ c.status = "ok" /\ BeginRead(1, c, from_cc_and_tlvs(c, <<>>))
  BY DEF ReadCc, CheckCc, CcOf
<1>3. QED
  BY <1>1, <1>2, ErrorSaysNothing, BeginReadReads

\* A byte is read (reader.rs:300-360).
LEMMA ReadByteReads ==
    ASSUME NdefInv, HeldInv, ReadByte
    PROVE  ReadSoFar' /\ ReadsWhatIsHeld'
<1> DEFINE p == address_to_sector_block(byte_addr)
           c == Selected(p[1])
           v == IF Cached(c, p[2]) THEN CachedData(c, p[2])[p[3]] ELSE memory[byte_addr]
<1>1. /\ pc = "area" /\ Len(stream) < layout.data_area_size
      /\ UNCHANGED <<memory, call>>
  BY DEF ReadByte
<1>2. CASE p = None
  <2>1. Return(Reply("out_of_range"))
    BY <1>2 DEF ReadByte
  <2>2. QED
    BY <2>1, ErrorSaysNothing
<1>3. CASE p # None
  <2>1. byte_addr \in Address
    BY <1>3, ReadPlace
  <2>2. TakeByte(v)
    BY <1>3 DEF ReadByte
  <2>3. v = memory[byte_addr]
    BY <1>3, CachedIsHeld DEF HeldInv
  <2> HIDE DEF v
  <2>4. TakeByte(memory[byte_addr])
    BY <2>2, <2>3
  <2>5. QED
    BY <1>1, <2>1, <2>4, TakeByteReads
<1>4. QED
  BY <1>2, <1>3

\* The steps of write_ndef return nothing that was read.
LEMMA WriteReads ==
    ASSUME NdefInv, Plan \/ WritePage
    PROVE  ReadSoFar' /\ ReadsWhatIsHeld'
<1>1. call' = "write_ndef"
  BY DEF NdefInv, Writing, Plan, WritePage
<1>2. pc' \in {"idle", "value", "length"}
  <2>1. \A r : Return(r) => pc' = "idle"
    BY DEF Return
  <2>2. CASE Plan
    BY <2>1, <2>2 DEF Plan
  <2>3. CASE WritePage
    BY <2>1, <2>3 DEF WritePage, Proceed, BeginLength
  <2>4. QED
    BY <2>2, <2>3
<1>3. QED
  BY <1>1, <1>2 DEF ReadSoFar, ReadsWhatIsHeld

\* Whatever is selected, read, dropped or forgotten, the cached READ is one of the
\* sector the reader believes in.
LEMMA NextCacheHere ==
    ASSUME NdefInv, CacheHere, Next
    PROVE  CacheHere'
<1>0. \A s, b : <<s, b>>[1] = s
  OBVIOUS
<1>1. ASSUME NEW s, sector' = s, cache' \in {None, Selected(s)} PROVE CacheHere'
  BY <1>1 DEF CacheHere, Selected
<1>2. ASSUME NEW s, NEW b, sector' = s, cache' = <<s, b>> PROVE CacheHere'
  BY <1>0, <1>2 DEF CacheHere
<1>3. CASE UNCHANGED <<sector, cache>>
  BY <1>3 DEF CacheHere
<1>4. CASE Application
  <2>1. CASE read_ndef \/ \E m \in Messages : write_ndef(m)
    BY <1>3, <2>1 DEF read_ndef, write_ndef, Begin
  <2>2. ASSUME NEW s, NEW c \in {None} \cup ({s} \ {Unknown}) \X (0..(BLOCKS_PER_SECTOR - 1)),
               OtherUse(s, c)
        PROVE  CacheHere'
    BY <2>2 DEF OtherUse, CacheHere
  <2>3. QED
    BY <1>4, <2>1, <2>2 DEF Application
<1>5. CASE ReadCc
  BY <1>2, <1>5 DEF ReadCc
<1>6. CASE ReadByte
  <2> DEFINE p == address_to_sector_block(byte_addr)
             c == Selected(p[1])
  <2>1. \/ UNCHANGED <<sector, cache>>
        \/ sector' = p[1] /\ cache' = IF Cached(c, p[2]) THEN c ELSE <<p[1], p[2]>>
    BY <1>6 DEF ReadByte
  <2>2. QED
    BY <1>1, <1>2, <1>3, <2>1
<1>7. CASE Parse \/ Plan
  BY <1>3, <1>7 DEF Parse, Plan
<1>8. CASE WritePage
  <2>1. \/ UNCHANGED <<sector, cache>>
        \/ sector' = Place[1] /\ cache' \in {None, CacheAfterRead}
    BY <1>8 DEF WritePage
  <2>2. CacheAfterRead \in {Selected(Place[1]), <<Place[1], Place[2]>>}
    BY DEF CacheAfterRead
  <2>3. QED
    BY <1>1, <1>2, <1>3, <2>1, <2>2
<1>9. CASE AccessFails
  <2>1. \/ cache' = None
        \/ sector' = NextPlace[1] /\ cache' = Selected(NextPlace[1])
    BY <1>9 DEF AccessFails
  <2>2. QED
    BY <1>1, <2>1
<1>10. CASE Crash
  BY <1>1, <1>10 DEF Crash
<1>11. QED
  BY <1>4, <1>5, <1>6, <1>7, <1>8, <1>9, <1>10 DEF Next, Progress

\* Nothing has been read yet.
LEMMA InitHeldInv == Init => HeldInv
  BY DEF Init, HeldInv, CacheHere, ReadSoFar, ReadsWhatIsHeld

\* Every step keeps it.
LEMMA NextHeldInv == NdefInv /\ HeldInv /\ [Next]_vars => HeldInv'
<1> SUFFICES ASSUME NdefInv, HeldInv, [Next]_vars PROVE HeldInv'
  OBVIOUS
<1>1. CASE UNCHANGED vars
  BY <1>1 DEF vars, HeldInv, CacheHere, ReadSoFar, PassLayout, ReadsWhatIsHeld
<1>2. CASE Next
  <2>1. CacheHere'
    BY <1>2, NextCacheHere DEF HeldInv
  <2>2. ReadSoFar' /\ ReadsWhatIsHeld'
    <3>1. CASE read_ndef \/ \E m \in Messages : write_ndef(m)
      BY <3>1 DEF read_ndef, write_ndef, Begin, ReadSoFar, ReadsWhatIsHeld
    <3>2. ASSUME NEW s, NEW c, OtherUse(s, c) PROVE ReadSoFar' /\ ReadsWhatIsHeld'
      <4>1. pc = "idle" /\ UNCHANGED <<memory, pc, call, ret>>
        BY <3>2 DEF OtherUse
      <4>2. ReadsWhatIsHeld
        BY DEF HeldInv
      <4>3. QED
        BY <4>1, <4>2 DEF ReadSoFar, ReadsWhatIsHeld
    <3>3. CASE Progress
      BY <3>3, ReadCcReads, ReadByteReads, ParseReads, WriteReads DEF Progress
    <3>4. CASE AccessFails \/ Crash
      BY <3>4, ErrorSaysNothing DEF AccessFails, Crash
    <3>5. QED
      BY <1>2, <3>1, <3>2, <3>3, <3>4 DEF Next, Application
  <2>3. QED
    BY <2>1, <2>2 DEF HeldInv
<1>3. QED
  BY <1>1, <1>2

\* read_ndef that succeeds returns the message the tag holds, on every tag, in one
\* pass or two, from whatever sector and cache it started (reader.rs:404-422).
THEOREM ReadNdefReturnsWhatIsHeld == Spec => []ReadsWhatIsHeld
<1>1. HeldInv => ReadsWhatIsHeld
  BY DEF HeldInv
<1>2. Spec => []HeldInv
  BY InitHeldInv, NextHeldInv, SpecNdefInv, PTL DEF Spec
<1>3. QED
  BY <1>1, <1>2, PTL

-----------------------------------------------------------------------------
(* Where write_ndef writes. *)

\* The usable bytes of the data area before address a: the offset of a.
Before(L, a) == Cardinality(UsableBetween(L, DATA_START, a))

\* What write_usable_bytes is called with, and the offset it begins at.
Whole == IF pc = "value" THEN Payload ELSE encode_tlv_length(Len(msg))
First == IF pc = "value" THEN offset ELSE offset + 1

\* The bytes not yet written are the last ones, addr is where they belong, and the
\* ones before them are in their places.
Placed ==
    pc \in {"value", "length"} =>
        /\ addr >= DATA_START
        /\ Len(todo) <= Len(Whole)
        /\ \A i \in 1..Len(todo) : todo[i] = Whole[Len(Whole) - Len(todo) + i]
        /\ Before(layout, addr) = First + Len(Whole) - Len(todo)
        /\ \A a \in UsableFrom(layout, DATA_START) :
              Before(layout, a) \in First..(Before(layout, addr) - 1) =>
                  memory[a] = Whole[Before(layout, a) - First + 1]

\* Behind the L field, when it is written, the message and the Terminator are.
MessagePlaced ==
    pc = "length" =>
        \A a \in UsableFrom(layout, DATA_START) :
            Before(layout, a)
                \in (offset + 1 + LengthFieldSize(Len(msg)))..(RequiredEnd(offset) - 1) =>
                memory[a] = Payload[Before(layout, a) - offset + 1]

PlacedInv == Placed /\ MessagePlaced

\* Offsets are numbers.
LEMMA BeforeNat ==
    ASSUME NEW L, NEW a
    PROVE  Before(L, a) \in Nat
<1>1. DATA_START \in Nat
  BY AddressSizes
<1>2. \A v : Cardinality(UsableBetween(L, DATA_START, v)) \in Nat
  BY <1>1, UsableFinite
<1>3. QED
  BY <1>2 DEF Before

\* Offsets grow with every usable byte.
LEMMA BeforeGrows ==
    ASSUME NEW L, NEW a \in UsableFrom(L, DATA_START), NEW v \in Nat, a < v
    PROVE  Before(L, a) < Before(L, v)
<1> DEFINE A == UsableBetween(L, DATA_START, a)
           V == UsableBetween(L, DATA_START, v)
<1>1. a \in Nat
  BY AddressSizes DEF UsableFrom
<1>2. a \notin A /\ A \cup {a} \in SUBSET V
  BY <1>1, AddressSizes DEF UsableBetween, UsableFrom
<1>3. IsFiniteSet(A) /\ IsFiniteSet(V) /\ Cardinality(A) \in Nat /\ Cardinality(V) \in Nat
  BY AddressSizes, UsableFinite
<1> HIDE DEF A, V
<1>4. Cardinality(A \cup {a}) = Cardinality(A) + 1
  BY <1>2, <1>3, FS_AddElement
<1>5. Cardinality(A \cup {a}) <= Cardinality(V)
  BY <1>2, <1>3, FS_Subset
<1>6. QED
  BY <1>3, <1>4, <1>5 DEF Before, A, V

\* usable_offset_to_address finds the byte with that offset, if there is one
\* (memory.rs:239-251).
LEMMA OffsetFinds ==
    ASSUME NEW L, NEW k \in Nat
    PROVE  LET x == usable_offset_to_address(L, k)
           IN x # None => x \in UsableFrom(L, DATA_START) /\ Before(L, x) = k
<1> DEFINE x == usable_offset_to_address(L, k)
<1>1. DATA_START \in 0..ADDRESS_SPACE_END
  BY AddressSizes
<1>2. Finds(L, DATA_START, k, x)
  BY <1>1, WalkFinds DEF usable_offset_to_address
<1> HIDE DEF x
<1>3. x # None => x \in UsableFrom(L, DATA_START) /\ Before(L, x) = k
  BY <1>2 DEF Finds, Before
<1>4. QED
  BY <1>3 DEF x

\* And every usable byte is found by its offset.
LEMMA OffsetIsFound ==
    ASSUME NEW L, NEW a \in UsableFrom(L, DATA_START)
    PROVE  usable_offset_to_address(L, Before(L, a)) = a
<1> DEFINE k == Before(L, a)
           D == DATA_START
           x == usable_offset_to_address(L, k)
<1>1. k \in Nat /\ D \in Nat /\ D \in 0..ADDRESS_SPACE_END /\ a \in Nat
  BY BeforeNat, AddressSizes DEF UsableFrom
<1>2. Finds(L, D, k, x)
  BY <1>1, WalkFinds DEF usable_offset_to_address
<1> HIDE DEF x
<1>3. x # None
  <2>1. SUFFICES ASSUME x = None PROVE FALSE
    OBVIOUS
  <2>2. Cardinality(UsableFrom(L, D)) <= k
    BY <1>2, <2>1 DEF Finds
  <2>3. k < Before(L, a + 1)
    BY <1>1, BeforeGrows
  <2>4. UsableBetween(L, D, a + 1) \in SUBSET UsableFrom(L, D)
    BY DEF UsableBetween
  <2>5. Before(L, a + 1) <= Cardinality(UsableFrom(L, D))
    BY <1>1, <2>4, UsableFinite, FS_Subset DEF Before
  <2>6. Cardinality(UsableFrom(L, D)) \in Nat /\ Before(L, a + 1) \in Nat
    BY <1>1, UsableFinite, BeforeNat
  <2> HIDE DEF k
  <2>7. QED
    BY <1>1, <2>2, <2>3, <2>5, <2>6
<1>4. x \in UsableFrom(L, D) /\ x \in Nat /\ Before(L, x) = k
  BY <1>1, <1>2, <1>3, AddressSizes DEF Finds, Before, UsableFrom
<1>5. ~(x < a)
  BY <1>1, <1>4, BeforeGrows
<1>6. ~(a < x)
  BY <1>1, <1>4, BeforeGrows
<1>7. QED
  BY <1>1, <1>4, <1>5, <1>6 DEF x

\* A byte of the page from addr on is as far behind addr as its rank says.
LEMMA PageOffsets ==
    ASSUME NdefInv, Place # None, addr >= DATA_START, NEW i \in Place[3]..BLOCK_SIZE
    PROVE  /\ PageBase + i \in Nat /\ PageBase + i >= addr
           /\ Before(layout, PageBase + i) = Before(layout, addr) + Rank(i)
<1>1. /\ PageBase \in Nat /\ i \in Nat /\ Place[3] \in Nat /\ PageBase + Place[3] = addr
      /\ addr \in Nat /\ i >= Place[3] /\ DATA_START \in Nat
  <2>1. /\ PageBase \in Nat /\ Place[3] \in 0..(BLOCK_SIZE - 1) /\ PageBase + Place[3] = addr
        /\ BLOCK_SIZE \in Nat
    BY PageIs
  <2>2. addr \in Nat
    BY DEF NdefInv, DataInv
  <2>3. DATA_START \in Nat
    BY AddressSizes
  <2>4. Place[3] \in Nat /\ i \in Nat /\ i >= Place[3]
    BY <2>1
  <2>5. QED
    BY <2>1, <2>2, <2>3, <2>4
<1>2. PageBase + i \in Nat /\ PageBase + i >= addr
  BY <1>1
<1>3. QED
  BY <1>1, <1>2, BetweenSplit, RankCounts DEF Before

\* The bytes of the page that are usable are the open positions.
LEMMA PageOpen ==
    ASSUME NdefInv, Place # None, addr >= DATA_START,
           NEW a \in UsableFrom(layout, DATA_START), a >= addr, a < NextPage
    PROVE  a - PageBase \in Open /\ a - PageBase \in Place[3]..BLOCK_SIZE
           /\ PageBase + (a - PageBase) = a
<1>1. /\ PageBase \in Nat /\ Place[3] \in Nat /\ PageBase + Place[3] = addr
      /\ BLOCK_SIZE \in Nat /\ NextPage = PageBase + BLOCK_SIZE
      /\ a \in Nat /\ ~is_skip_area(layout, a)
  BY PageIs, AddressSizes DEF NextPage, UsableFrom
<1>2. /\ a - PageBase \in Place[3]..(BLOCK_SIZE - 1)
      /\ a - PageBase \in Place[3]..BLOCK_SIZE
      /\ PageBase + (a - PageBase) = a
  BY <1>1
<1>3. QED
  BY <1>1, <1>2, OpenIs

\* What is written goes to bytes of the data area, at the offsets that come next.
LEMMA PageChanges ==
    ASSUME NdefInv, Placed, pc \in {"value", "length"}, Place # None,
           NEW a \in Address, a - PageBase \in Taken
    PROVE  /\ a \in UsableFrom(layout, DATA_START) /\ a >= addr
           /\ Before(layout, a) \in Before(layout, addr)..(First + Len(Whole) - 1)
           /\ PageWritten[a] = Whole[Before(layout, a) - First + 1]
<1> DEFINE i == a - PageBase
           w == Len(Whole)
           t == Len(todo)
           n == Before(layout, addr)
<1>1. /\ addr >= DATA_START /\ t <= w
      /\ \A j \in 1..t : todo[j] = Whole[w - t + j]
      /\ n = First + w - t
  BY DEF Placed
<1>2. i \in Open /\ Rank(i) < t
  BY DEF Taken
<1>3. /\ i \in Place[3]..(BLOCK_SIZE - 1) /\ ~is_skip_area(layout, PageBase + i)
      /\ Rank(i) \in Nat
  BY <1>2, OpenIs
<1>4. /\ PageBase \in Nat /\ BLOCK_SIZE \in Nat /\ Place[3] \in Nat
      /\ addr \in Nat /\ PageBase + Place[3] = addr
  BY PageIs DEF NdefInv, DataInv
<1>5. a \in Nat /\ PageBase + i = a /\ i \in Place[3]..BLOCK_SIZE
  BY <1>3, <1>4, AddressSizes DEF Address
<1>6. a >= addr /\ Before(layout, a) = n + Rank(i)
  BY <1>1, <1>5, PageOffsets
<1>7. a \in UsableFrom(layout, DATA_START)
  BY <1>1, <1>3, <1>4, <1>5, <1>6, AddressSizes DEF UsableFrom, Address
<1>8. t \in Nat /\ w \in Nat /\ First \in Nat /\ n \in Nat
  <2>1. t \in Nat /\ First \in Nat
    BY DEF NdefInv, DataInv, First
  <2>2. Whole \in Seq(Byte)
    BY PayloadIs, LengthBytes DEF NdefInv, DataInv, RoomLeft, Whole
  <2>3. QED
    BY <2>1, <2>2, BeforeNat
<1>9. PageWritten[a] = todo[Rank(i) + 1]
  BY DEF PageWritten
<1> HIDE DEF i, w, t, n
<1>10. /\ Rank(i) + 1 \in 1..t
       /\ w - t + (Rank(i) + 1) = (n + Rank(i)) - First + 1
       /\ n + Rank(i) \in n..(First + w - 1)
  BY <1>1, <1>2, <1>3, <1>8
<1>11. PageWritten[a] = Whole[(n + Rank(i)) - First + 1]
  BY <1>1, <1>9, <1>10
<1>12. QED
  BY <1>6, <1>7, <1>10, <1>11 DEF n, w

\* After the WRITE every byte up to the next page that is to be written is in its
\* place.
LEMMA PagePlaces ==
    ASSUME NdefInv, Placed, pc \in {"value", "length"}, Place # None,
           NEW a \in UsableFrom(layout, DATA_START), a < NextPage,
           Before(layout, a) \in First..(First + Len(Whole) - 1)
    PROVE  PageWritten[a] = Whole[Before(layout, a) - First + 1]
<1>1. a \in Address /\ a \in Nat /\ addr \in Nat /\ addr >= DATA_START
  BY AddressSizes DEF UsableFrom, Address, NdefInv, DataInv, Placed
<1>2. CASE a - PageBase \in Taken
  BY <1>1, <1>2, PageChanges
<1>3. CASE a - PageBase \notin Taken
  <2>1. PageWritten[a] = memory[a]
    BY <1>1, <1>3 DEF PageWritten
  <2>2. a < addr
    <3>1. SUFFICES ASSUME a >= addr PROVE FALSE
      BY <1>1
    <3> DEFINE i == a - PageBase
    <3>2. i \in Open /\ i \in Place[3]..BLOCK_SIZE /\ PageBase + i = a
      BY <1>1, <3>1, PageOpen
    <3>3. Before(layout, a) = Before(layout, addr) + Rank(i)
      BY <1>1, <3>2, PageOffsets
    <3>4. Before(layout, addr) = First + Len(Whole) - Len(todo)
      BY DEF Placed
    <3>5. Rank(i) \in Nat /\ ~(Rank(i) < Len(todo))
      BY <1>3, <3>2, OpenIs DEF Taken
    <3>6. First \in Nat /\ Len(Whole) \in Nat /\ Len(todo) \in Nat
      <4>1. Whole \in Seq(Byte)
        BY PayloadIs, LengthBytes DEF NdefInv, DataInv, RoomLeft, Whole
      <4>2. QED
        BY <4>1 DEF NdefInv, DataInv, First
    <3> HIDE DEF i
    <3>7. QED
      BY <3>3, <3>4, <3>5, <3>6
  <2>3. Before(layout, a) < Before(layout, addr)
    BY <1>1, <2>2, BeforeGrows
  <2>4. Before(layout, a) \in First..(Before(layout, addr) - 1)
    BY <2>3, BeforeNat
  <2>5. QED
    BY <2>1, <2>4 DEF Placed
<1>4. QED
  BY <1>2, <1>3

\* The sequences and the offset in question.
LEMMA WholeIs ==
    ASSUME NdefInv, pc \in {"value", "length"}
    PROVE  /\ Whole \in Seq(Byte) /\ Len(Whole) \in Nat /\ First \in Nat /\ Len(todo) \in Nat
           /\ offset \in Nat /\ LengthFieldSize(Len(msg)) \in {1, 3} /\ Len(msg) \in Nat
           /\ pc = "value" => First = offset /\ First + Len(Whole) = RequiredEnd(offset)
           /\ pc = "length" => /\ First = offset + 1
                               /\ First + Len(Whole) = offset + 1 + LengthFieldSize(Len(msg))
           /\ First >= offset /\ First + Len(Whole) <= RequiredEnd(offset)
<1>1. /\ offset \in Nat /\ msg \in Seq(Byte) /\ Len(msg) \in Nat /\ Len(todo) \in Nat
      /\ Len(msg) <= MAX_TLV_LENGTH
  BY DEF NdefInv, DataInv, RoomLeft
<1>2. LengthFieldSize(Len(msg)) \in {1, 3}
  BY DEF LengthFieldSize
<1>3. /\ Payload \in Seq(Byte)
      /\ Len(Payload) = 1 + LengthFieldSize(Len(msg)) + Len(msg) + 1
  BY <1>1, PayloadIs
<1>4. /\ encode_tlv_length(Len(msg)) \in Seq(Byte)
      /\ Len(encode_tlv_length(Len(msg))) = LengthFieldSize(Len(msg))
  BY <1>1, LengthBytes
<1>5. CASE pc = "value"
  <2>1. Whole = Payload /\ First = offset
    BY <1>5 DEF Whole, First
  <2>2. RequiredEnd(offset) = offset + 1 + LengthFieldSize(Len(msg)) + Len(msg) + 1
    BY DEF RequiredEnd
  <2> DEFINE f == LengthFieldSize(Len(msg))
             m == Len(msg)
             w == Len(Whole)
  <2>3. w = 1 + f + m + 1 /\ f \in Nat /\ m \in Nat /\ offset \in Nat /\ w \in Nat
    BY <1>1, <1>2, <1>3, <2>1
  <2> HIDE DEF f, m, w
  <2>4. offset + w = offset + 1 + f + m + 1
    BY <2>3
  <2>5. First + w = RequiredEnd(offset) /\ First + w <= RequiredEnd(offset) /\ First >= offset
    BY <2>1, <2>2, <2>3, <2>4 DEF f, m
  <2>6. QED
    BY <1>1, <1>2, <1>3, <1>5, <2>1, <2>3, <2>5 DEF w
<1>6. CASE pc = "length"
  <2>1. Whole = encode_tlv_length(Len(msg)) /\ First = offset + 1
    BY <1>6 DEF Whole, First
  <2>2. QED
    BY <1>1, <1>2, <1>4, <1>6, <2>1 DEF RequiredEnd
<1>7. QED
  BY <1>5, <1>6

\* More pages follow: what is left belongs behind this page.
LEMMA PlacedGoesOn ==
    ASSUME NdefInv, PlacedInv, pc \in {"value", "length"}, Place # None,
           memory' = PageWritten, UNCHANGED <<pc, msg, layout, offset>>,
           SubSeq(todo, Cardinality(Taken) + 1, Len(todo)) # <<>>,
           todo' = SubSeq(todo, Cardinality(Taken) + 1, Len(todo)),
           addr' = NextPage
    PROVE  PlacedInv'
<1> DEFINE c == Cardinality(Taken)
           w == Len(Whole)
           t == Len(todo)
<1>1. /\ addr >= DATA_START /\ t <= w
      /\ \A i \in 1..t : todo[i] = Whole[w - t + i]
      /\ Before(layout, addr) = First + w - t
  BY DEF PlacedInv, Placed
<1>2. /\ Whole \in Seq(Byte) /\ w \in Nat /\ First \in Nat /\ t \in Nat /\ todo \in Seq(Byte)
  BY WholeIs DEF NdefInv, DataInv
<1>3. c \in Nat
  BY TakenIs
<1>4. Whole' = Whole /\ First' = First
  BY DEF Whole, First, Payload, EmptyLength
<1>5. /\ t > c /\ Len(todo') = t - c
      /\ \A i \in 1..(t - c) : todo'[i] = todo[c + i]
  <2> HIDE DEF c
  <2>1. SubSeq(todo, c + 1, Len(todo)) # <<>> /\ todo' = SubSeq(todo, c + 1, Len(todo))
    BY DEF c
  <2>2. c < Len(todo)
    BY <1>2, <1>3, <2>1
  <2>3. c + 1 \in 1..(Len(todo) + 1)
    BY <1>2, <1>3, <2>2
  <2>4. /\ Len(SubSeq(todo, c + 1, Len(todo))) = Len(todo) - c
        /\ \A i \in 1..(Len(todo) - c) : SubSeq(todo, c + 1, Len(todo))[i] = todo[c + i]
    BY <1>2, <1>3, <2>3
  <2>5. /\ Len(todo') = Len(todo) - c
        /\ \A i \in 1..(Len(todo) - c) : todo'[i] = todo[c + i]
    <3> DEFINE l == SubSeq(todo, c + 1, Len(todo))
    <3>1. todo' = l
      BY <2>1
    <3>2. Len(l) = Len(todo) - c /\ \A i \in 1..(Len(todo) - c) : l[i] = todo[c + i]
      BY <2>4
    <3> HIDE DEF l
    <3>3. QED
      BY <3>1, <3>2
  <2>6. Len(todo) > c
    BY <1>2, <1>3, <2>2
  <2>7. QED
    BY <2>5, <2>6
<1>6. Taken = Open
  BY <1>5, TakenIs
<1>7. /\ PageBase \in Nat /\ BLOCK_SIZE \in Nat /\ Place[3] \in 0..(BLOCK_SIZE - 1)
      /\ PageBase + Place[3] = addr /\ BLOCK_SIZE \in Place[3]..BLOCK_SIZE
      /\ NextPage = PageBase + BLOCK_SIZE
  BY PageIs DEF NextPage
<1>8. c = Rank(BLOCK_SIZE)
  <2>1. \A j \in Open : j < BLOCK_SIZE
    BY <1>7, OpenIs
  <2>2. {j \in Open : j < BLOCK_SIZE} = Open
    BY <2>1
  <2>3. QED
    BY <1>6, <2>2 DEF Rank
<1>9. NextPage \in Nat /\ NextPage >= addr /\ Before(layout, NextPage) = First + w - t + c
  BY <1>1, <1>7, <1>8, PageOffsets
<1>a. t <= w /\ w \in Nat /\ First \in Nat /\ t \in Nat /\ c \in Nat
  BY <1>1, <1>2, <1>3
<1> HIDE DEF c, w, t
<1>10. addr' >= DATA_START /\ addr' \in Nat
  <2>1. addr \in Nat /\ DATA_START \in Nat
    BY AddressSizes DEF NdefInv, DataInv
  <2>2. QED
    BY <1>1, <1>9, <2>1
<1>11. Len(todo') <= w /\ Before(layout, addr') = First + w - Len(todo')
  <2> DEFINE d == Len(todo')
  <2>1. d = t - c /\ t > c
    BY <1>5
  <2> HIDE DEF d
  <2>2. d <= w /\ First + w - t + c = First + w - d
    BY <1>a, <2>1
  <2>3. Before(layout, addr') = First + w - d
    BY <1>9, <2>2
  <2>4. QED
    BY <2>2, <2>3 DEF d
<1>12. ASSUME NEW i \in 1..Len(todo') PROVE todo'[i] = Whole[w - Len(todo') + i]
  <2> DEFINE d == Len(todo')
  <2>0. d = t - c /\ t > c /\ i \in 1..d
    BY <1>5
  <2> HIDE DEF d
  <2>1. c + i \in 1..t /\ w - t + (c + i) = w - d + i /\ i \in 1..(t - c)
    BY <1>a, <2>0
  <2>2. QED
    BY <1>1, <1>5, <2>1 DEF d
<1>13. ASSUME NEW a \in UsableFrom(layout, DATA_START),
              Before(layout, a) \in First..(Before(layout, addr') - 1)
       PROVE  memory'[a] = Whole[Before(layout, a) - First + 1]
  <2>1. a \in Nat
    BY AddressSizes DEF UsableFrom
  <2>2. a < NextPage
    <3>1. SUFFICES ASSUME a >= NextPage PROVE FALSE
      BY <1>9, <2>1
    <3>2. Before(layout, NextPage) <= Before(layout, a)
      BY <1>9, <2>1, <3>1, BetweenGrows, AddressSizes DEF Before
    <3>3. QED
      BY <1>13, <3>2, BeforeNat
  <2>3. Before(layout, a) \in First..(First + w - 1)
    BY <1>2, <1>3, <1>5, <1>9, <1>13
  <2>4. QED
    BY <2>2, <2>3, PagePlaces DEF PlacedInv, w
<1>14. Placed'
  BY <1>4, <1>10, <1>11, <1>12, <1>13 DEF Placed, w
<1>15. MessagePlaced'
  <2>1. SUFFICES ASSUME pc = "length", NEW a \in UsableFrom(layout, DATA_START),
                        Before(layout, a)
                            \in (offset + 1 + LengthFieldSize(Len(msg)))..(RequiredEnd(offset) - 1)
                 PROVE  memory'[a] = Payload[Before(layout, a) - offset + 1]
    BY DEF MessagePlaced, RequiredEnd, Payload, EmptyLength
  <2>2. memory[a] = Payload[Before(layout, a) - offset + 1]
    BY <2>1 DEF PlacedInv, MessagePlaced
  <2>3. a \in Address
    BY AddressSizes DEF UsableFrom, Address
  <2>4. First + Len(Whole) = offset + 1 + LengthFieldSize(Len(msg)) /\ First \in Nat
        /\ Len(Whole) \in Nat
    BY <2>1, WholeIs
  <2>5. a - PageBase \notin Taken
    <3>1. SUFFICES ASSUME a - PageBase \in Taken PROVE FALSE
      OBVIOUS
    <3>2. Before(layout, a) \in Before(layout, addr)..(First + Len(Whole) - 1)
      BY <2>3, <3>1, PageChanges DEF PlacedInv
    <3>3. Before(layout, a) >= First + Len(Whole) /\ Before(layout, a) \in Nat
      BY <2>1, <2>4, BeforeNat
    <3>4. QED
      BY <2>4, <3>2, <3>3
  <2>6. QED
    BY <2>2, <2>3, <2>5 DEF PageWritten
<1>16. QED
  BY <1>14, <1>15 DEF PlacedInv

\* The value is in its place: the L field follows.
LEMMA PlacedLength ==
    ASSUME NdefInv, PlacedInv, pc = "value", Place # None,
           memory' = PageWritten, UNCHANGED <<msg, layout, offset>>,
           SubSeq(todo, Cardinality(Taken) + 1, Len(todo)) = <<>>,
           pc' = "length", todo' = encode_tlv_length(Len(msg)),
           addr' = usable_offset_to_address(layout, offset + 1)
    PROVE  PlacedInv'
<1> DEFINE c == Cardinality(Taken)
           w == Len(Whole)
           t == Len(todo)
<1>1. /\ addr >= DATA_START /\ t <= w
      /\ Before(layout, addr) = First + w - t
  BY DEF PlacedInv, Placed
<1>2. /\ Whole \in Seq(Byte) /\ w \in Nat /\ First \in Nat /\ t \in Nat /\ todo \in Seq(Byte)
      /\ First = offset /\ First + w = RequiredEnd(offset) /\ offset \in Nat
      /\ LengthFieldSize(Len(msg)) \in {1, 3}
  BY WholeIs DEF NdefInv, DataInv
<1>3. c \in Nat
  BY TakenIs
<1>4. c >= t
  <2> HIDE DEF c, t
  <2>1. SubSeq(todo, c + 1, t) = <<>>
    BY DEF c, t
  <2>2. SUFFICES ASSUME c < t PROVE FALSE
    BY <1>2, <1>3
  <2>3. Len(SubSeq(todo, c + 1, t)) = t - c
    BY <1>2, <1>3, <2>2 DEF t
  <2>4. Len(<<>>) = 0
    OBVIOUS
  <2>5. t - c = 0
    BY <2>1, <2>3, <2>4
  <2>6. QED
    BY <1>2, <1>3, <2>2, <2>5
<1>5. /\ PageBase \in Nat /\ BLOCK_SIZE \in Nat /\ Place[3] \in 0..(BLOCK_SIZE - 1)
      /\ PageBase + Place[3] = addr /\ BLOCK_SIZE \in Place[3]..BLOCK_SIZE
      /\ NextPage = PageBase + BLOCK_SIZE
  BY PageIs DEF NextPage
<1>6. Rank(BLOCK_SIZE) \in Nat /\ c <= Rank(BLOCK_SIZE)
  <2>1. Taken \in SUBSET {j \in Open : j < BLOCK_SIZE}
    BY <1>5, OpenIs DEF Taken
  <2>2. IsFiniteSet({j \in Open : j < BLOCK_SIZE}) /\ Rank(BLOCK_SIZE) \in Nat
    BY OpenIs
  <2>3. QED
    BY <2>1, <2>2, FS_Subset DEF Rank
<1>7. /\ NextPage \in Nat
      /\ Before(layout, NextPage) = First + w - t + Rank(BLOCK_SIZE)
  BY <1>1, <1>5, PageOffsets
<1> HIDE DEF c, t
<1>8. Before(layout, NextPage) >= First + w
  BY <1>2, <1>3, <1>4, <1>6, <1>7
<1>9. ASSUME NEW a \in UsableFrom(layout, DATA_START),
             Before(layout, a) \in offset..(RequiredEnd(offset) - 1)
      PROVE  memory'[a] = Payload[Before(layout, a) - offset + 1]
  <2>1. a \in Nat
    BY AddressSizes DEF UsableFrom
  <2>2. Before(layout, a) \in First..(First + w - 1)
    BY <1>2, <1>9
  <2>3. a < NextPage
    <3>1. SUFFICES ASSUME a >= NextPage PROVE FALSE
      BY <1>7, <2>1
    <3>2. Before(layout, NextPage) <= Before(layout, a)
      BY <1>7, <2>1, <3>1, BetweenGrows, AddressSizes DEF Before
    <3>3. Before(layout, NextPage) \in Nat /\ Before(layout, a) \in Nat
      BY BeforeNat
    <3>4. QED
      BY <1>2, <1>8, <2>2, <3>2, <3>3
  <2>4. PageWritten[a] = Whole[Before(layout, a) - First + 1]
    BY <2>2, <2>3, PagePlaces DEF PlacedInv
  <2>5. Whole = Payload
    BY DEF Whole
  <2>6. QED
    BY <1>2, <2>4, <2>5
<1>10. MessagePlaced'
  <2>1. SUFFICES ASSUME NEW a \in UsableFrom(layout, DATA_START),
                        Before(layout, a)
                            \in (offset + 1 + LengthFieldSize(Len(msg)))..(RequiredEnd(offset) - 1)
                 PROVE  memory'[a] = Payload[Before(layout, a) - offset + 1]
    BY DEF MessagePlaced, RequiredEnd, Payload, EmptyLength
  <2>2. Before(layout, a) \in offset..(RequiredEnd(offset) - 1)
    BY <1>2, <2>1
  <2>3. QED
    BY <1>9, <2>2
<1>11. /\ addr' \in UsableFrom(layout, DATA_START)
       /\ Before(layout, addr') = offset + 1
  BY <1>2, RoomForLength, OffsetFinds
<1>12. /\ Whole' = encode_tlv_length(Len(msg)) /\ First' = offset + 1
       /\ encode_tlv_length(Len(msg)) \in Seq(Byte)
  BY LengthBytes DEF Whole, First, NdefInv, DataInv, RoomLeft
<1>13. Placed'
  <2> DEFINE e == encode_tlv_length(Len(msg))
  <2> HIDE DEF e
  <2>1. todo' = e /\ Whole' = e /\ e \in Seq(Byte) /\ Len(e) \in Nat
    BY <1>12 DEF e
  <2>2. addr' >= DATA_START
    BY <1>11, AddressSizes DEF UsableFrom
  <2>3. /\ Len(e) - Len(e) = 0 /\ \A i \in 1..Len(e) : 0 + i = i
        /\ offset + 1 + Len(e) - Len(e) = offset + 1
        /\ (offset + 1)..((offset + 1) - 1) = {}
    BY <1>2, <2>1
  <2>4. QED
    BY <1>11, <1>12, <2>1, <2>2, <2>3 DEF Placed
<1>14. QED
  BY <1>10, <1>13 DEF PlacedInv

\* write_ndef has planned: the first byte belongs where addr is.
LEMMA PlanPlaces ==
    ASSUME NdefInv, Plan
    PROVE  PlacedInv'
<1> DEFINE at     == NdefOffset(tlvs)
           filled == try_extend(<<>>, Payload, DATA_CAPACITY)
<1>1. /\ msg \in Seq(Byte) /\ UNCHANGED msg
  BY DEF Plan, NdefInv, DataInv
<1>2. filled.status = "ok" => filled.vec = Payload
  <2>1. Payload \in Seq(Byte)
    BY <1>1, PayloadIs
  <2>2. filled.status = "ok" => filled.vec = <<>> \o Payload
    BY DEF try_extend
  <2>3. QED
    BY <2>1, <2>2
<1>3. \/ pc' = "idle"
      \/ /\ FirstNdef(tlvs) # None
         /\ NdefAddress(layout, at) # None
         /\ filled.status = "ok"
         /\ pc' = "value" /\ offset' = at
         /\ addr' = NdefAddress(layout, at) /\ todo' = filled.vec
         /\ UNCHANGED layout
  BY DEF Plan, Return
<1>4. CASE pc' = "idle"
  BY <1>4 DEF PlacedInv, Placed, MessagePlaced
<1>5. CASE /\ FirstNdef(tlvs) # None
           /\ NdefAddress(layout, at) # None
           /\ filled.status = "ok"
           /\ pc' = "value" /\ offset' = at
           /\ addr' = NdefAddress(layout, at) /\ todo' = filled.vec
           /\ UNCHANGED layout
  <2>1. at \in Nat
    BY <1>5, FirstNdefIs DEF NdefInv, DataInv
  <2> HIDE DEF at, filled
  <2>2. addr' \in UsableFrom(layout, DATA_START) /\ Before(layout, addr') = at
    BY <1>5, <2>1, OffsetFinds DEF NdefAddress
  <2>3. addr' >= DATA_START
    BY <2>2, AddressSizes DEF UsableFrom
  <2> DEFINE e == Payload
  <2>4. e \in Seq(Byte) /\ Len(e) \in Nat
    BY <1>1, PayloadIs
  <2>5. todo' = e /\ Whole' = e /\ First' = at
    BY <1>1, <1>2, <1>5 DEF Whole, First, Payload, EmptyLength
  <2> HIDE DEF e
  <2>6. /\ Len(e) - Len(e) = 0 /\ \A i \in 1..Len(e) : 0 + i = i
        /\ at + Len(e) - Len(e) = at /\ at..(at - 1) = {}
    BY <2>1, <2>4
  <2>7. Placed'
    BY <1>5, <2>2, <2>3, <2>4, <2>5, <2>6 DEF Placed
  <2>8. QED
    BY <1>5, <2>7 DEF PlacedInv, MessagePlaced
<1>6. QED
  BY <1>3, <1>4, <1>5

\* An iteration of write_usable_bytes (reader.rs:566-640).
LEMMA WritePagePlaces ==
    ASSUME NdefInv, PlacedInv, WritePage
    PROVE  PlacedInv'
<1> DEFINE left == SubSeq(todo, Cardinality(Taken) + 1, Len(todo))
<1>1. pc \in {"value", "length"} /\ UNCHANGED msg
  BY DEF WritePage
<1>2. WithinLimit /\ Place # None
  BY <1>1, PageFits DEF WithinLimit
<1>3. memory' = PageWritten /\ Proceed
  BY <1>2 DEF WritePage
<1>4. \/ pc' = "idle"
      \/ left # <<>> /\ todo' = left /\ addr' = NextPage /\ UNCHANGED <<pc, layout, offset>>
      \/ /\ left = <<>> /\ pc = "value" /\ pc' = "length"
         /\ addr' = usable_offset_to_address(layout, offset + 1)
         /\ todo' = encode_tlv_length(Len(msg)) /\ UNCHANGED <<layout, offset>>
  BY <1>3 DEF Proceed, BeginLength, Return
<1> HIDE DEF left
<1>5. CASE pc' = "idle"
  BY <1>5 DEF PlacedInv, Placed, MessagePlaced
<1>6. CASE left # <<>> /\ todo' = left /\ addr' = NextPage /\ UNCHANGED <<pc, layout, offset>>
  BY <1>1, <1>2, <1>3, <1>6, PlacedGoesOn DEF left
<1>7. CASE /\ left = <<>> /\ pc = "value" /\ pc' = "length"
           /\ addr' = usable_offset_to_address(layout, offset + 1)
           /\ todo' = encode_tlv_length(Len(msg)) /\ UNCHANGED <<layout, offset>>
  BY <1>1, <1>2, <1>3, <1>7, PlacedLength DEF left
<1>8. QED
  BY <1>4, <1>5, <1>6, <1>7

\* Nothing is to be placed yet.
LEMMA InitPlacedInv == Init => PlacedInv
  BY DEF Init, PlacedInv, Placed, MessagePlaced

\* Every step keeps it.
LEMMA NextPlacedInv == NdefInv /\ PlacedInv /\ [Next]_vars => PlacedInv'
<1> SUFFICES ASSUME NdefInv, PlacedInv, [Next]_vars PROVE PlacedInv'
  OBVIOUS
<1>1. CASE pc' \notin {"value", "length"}
  BY <1>1 DEF PlacedInv, Placed, MessagePlaced
<1>2. CASE UNCHANGED vars
  BY <1>2 DEF vars, PlacedInv, Placed, MessagePlaced, Whole, First, Payload,
              EmptyLength, RequiredEnd
<1>3. ASSUME NEW r, Return(r) PROVE PlacedInv'
  BY <1>1, <1>3 DEF Return
<1>4. ASSUME NEW k, NEW c, NEW l, BeginRead(k, c, l) PROVE PlacedInv'
  BY <1>1, <1>4 DEF BeginRead
<1>5. CASE Application
  BY <1>1, <1>5 DEF Application, read_ndef, write_ndef, Begin, OtherUse
<1>6. CASE ReadCc
  BY <1>3, <1>4, <1>6 DEF ReadCc, CheckCc
<1>7. CASE ReadByte
  BY <1>1, <1>3, <1>7 DEF ReadByte, TakeByte
<1>8. CASE Parse
  BY <1>1, <1>3, <1>4, <1>8 DEF Parse
<1>9. CASE AccessFails \/ Crash
  BY <1>3, <1>9 DEF AccessFails, Crash
<1>10. QED
  BY <1>2, <1>5, <1>6, <1>7, <1>8, <1>9, PlanPlaces, WritePagePlaces DEF Next, Progress

\* The inductive invariant holds in every state.
LEMMA SpecPlacedInv == Spec => []PlacedInv
  BY InitPlacedInv, NextPlacedInv, SpecNdefInv, PTL DEF Spec

\* The tag changes by the WRITE of write_usable_bytes alone, answered or not.
LEMMA NextWrites ==
    ASSUME Next, memory' # memory
    PROVE  pc \in {"value", "length"} /\ memory' = PageWritten
<1>1. CASE WritePage
  BY <1>1 DEF WritePage
<1>2. CASE AccessFails \/ Crash
  BY <1>2 DEF AccessFails, Crash, MaybeWritten
<1>3. CASE Application \/ ReadCc \/ ReadByte \/ Parse \/ Plan
  BY <1>3 DEF Application, read_ndef, write_ndef, Begin, OtherUse, ReadCc, ReadByte,
              Parse, Plan
<1>4. QED
  BY <1>1, <1>2, <1>3 DEF Next, Progress

\* A WRITE changes bytes of the new TLV alone, never one of an area the layout
\* declares, whatever page it is and whether or not it is answered
\* (reader.rs:566-640).
THEOREM WritesStayInTlv == Spec => WritesItsTlv
<1> DEFINE Kept == \A a \in Address : memory'[a] # memory[a] =>
                       \E k \in offset..(RequiredEnd(offset) - 1) :
                           a = usable_offset_to_address(layout, k)
<1>1. NdefInv /\ PlacedInv /\ [Next]_vars => [Kept]_vars
  <2> SUFFICES ASSUME NdefInv, PlacedInv, Next, NEW a \in Address, memory'[a] # memory[a]
               PROVE  \E k \in offset..(RequiredEnd(offset) - 1) :
                           a = usable_offset_to_address(layout, k)
    OBVIOUS
  <2>1. pc \in {"value", "length"} /\ memory' = PageWritten
    BY NextWrites
  <2>2. Place # None
    BY <2>1, PageFits DEF WithinLimit
  <2>3. a - PageBase \in Taken
    BY <2>1 DEF PageWritten
  <2>4. /\ a \in UsableFrom(layout, DATA_START)
        /\ Before(layout, a) \in Before(layout, addr)..(First + Len(Whole) - 1)
    BY <2>1, <2>2, <2>3, PageChanges DEF PlacedInv
  <2>5. /\ First \in Nat /\ Len(Whole) \in Nat /\ Len(todo) \in Nat /\ offset \in Nat
        /\ First >= offset /\ First + Len(Whole) <= RequiredEnd(offset)
        /\ RequiredEnd(offset) \in Nat
    BY <2>1, WholeIs DEF RequiredEnd
  <2>6. Before(layout, addr) = First + Len(Whole) - Len(todo) /\ Len(todo) <= Len(Whole)
    BY <2>1 DEF PlacedInv, Placed
  <2>7. Before(layout, a) \in offset..(RequiredEnd(offset) - 1)
    BY <2>4, <2>5, <2>6
  <2>8. a = usable_offset_to_address(layout, Before(layout, a))
    BY <2>4, OffsetIsFound
  <2>9. QED
    BY <2>7, <2>8
<1>2. QED
  BY <1>1, SpecNdefInv, SpecPlacedInv, PTL DEF Spec, WritesItsTlv

\* Behind its length field the value is the message and a Terminator.
LEMMA BehindLength ==
    ASSUME msg \in Seq(Byte), NEW i \in 1..(Len(msg) + 1)
    PROVE  Payload[LengthFieldSize(Len(msg)) + 1 + i] = (msg \o <<TLV_TERMINATOR>>)[i]
<1> DEFINE f == LengthFieldSize(Len(msg))
           z == EmptyLength
           T == <<TLV_NDEF_MESSAGE>>
           E == <<TLV_TERMINATOR>>
<1>1. f \in {1, 3}
  BY DEF LengthFieldSize
<1>2. /\ TLV_NDEF_MESSAGE \in Byte /\ TLV_TERMINATOR \in Byte /\ LONG_LENGTH \in Byte
      /\ 0 \in Byte
  BY TlvAssumption DEF TLV_NDEF_MESSAGE, TLV_TERMINATOR, LONG_LENGTH, Byte
<1>3. T \in Seq(Byte) /\ Len(T) = 1 /\ E \in Seq(Byte) /\ Len(E) = 1
  BY <1>2
<1>4. z \in Seq(Byte) /\ Len(z) = f
  BY <1>1, <1>2 DEF EmptyLength
<1>5. Payload = T \o z \o msg \o E
  BY DEF Payload
<1> HIDE DEF z, T, E, f
<1>6. PICK u \in Seq(Byte) : Len(u) = f + 1 /\ Payload = u \o msg \o E
  <2>1. \A x, y \in Seq(Byte) : x \o y \in Seq(Byte) /\ Len(x \o y) = Len(x) + Len(y)
    OBVIOUS
  <2>4. T \o z \in Seq(Byte) /\ Len(T \o z) = Len(T) + Len(z)
    BY Zenon, <1>3, <1>4, <2>1
  <2>2. Len(T) + Len(z) = f + 1
    BY <1>1, <1>3, <1>4
  <2>3. QED
    BY <1>5, <2>2, <2>4
<1>7. (u \o msg \o E)[f + 1 + i] = (msg \o E)[i]
  <2> DEFINE v == u \o msg
  <2>1. /\ v \in Seq(Byte) /\ Len(v) = f + 1 + Len(msg) /\ Len(msg) \in Nat
        /\ \A j \in 1..Len(msg) : v[f + 1 + j] = msg[j]
    BY <1>1, <1>6
  <2> HIDE DEF v
  <2>2. (v \o E)[f + 1 + i] = (msg \o E)[i]
    <3>1. CASE i <= Len(msg)
      <4>1. i \in 1..Len(msg) /\ f + 1 + i \in 1..Len(v)
        BY <1>1, <2>1, <3>1
      <4>2. QED
        BY <1>3, <2>1, <4>1
    <3>2. CASE i = Len(msg) + 1
      <4>1. f + 1 + i = Len(v) + 1
        BY <1>1, <2>1, <3>2
      <4>2. ASSUME NEW x \in Seq(Byte), NEW y \in Seq(Byte), Len(y) = 1
            PROVE  (x \o y)[Len(x) + 1] = y[1]
        <5> DEFINE k == Len(x) + 1
        <5>1. Len(x) \in Nat /\ k \in 1..(Len(x) + Len(y)) /\ ~(k <= Len(x))
              /\ k - Len(x) = 1
          BY <4>2
        <5> HIDE DEF k
        <5>2. (x \o y)[k] = y[k - Len(x)]
          BY <5>1
        <5>3. QED
          BY <5>1, <5>2 DEF k
      <4>4. (v \o E)[Len(v) + 1] = E[1] /\ (msg \o E)[Len(msg) + 1] = E[1]
        BY Zenon, <1>3, <2>1, <4>2
      <4>3. QED
        BY <3>2, <4>1, <4>4
    <3>3. i <= Len(msg) \/ i = Len(msg) + 1
      BY <2>1
    <3>4. QED
      BY <3>1, <3>2, <3>3
  <2>3. QED
    BY <2>2 DEF v
<1>8. QED
  BY <1>6, <1>7 DEF f, E

\* In front of the message the value has T and a length of 0.
LEMMA InFrontOfMessage ==
    ASSUME msg \in Seq(Byte), NEW i \in 1..LengthFieldSize(Len(msg))
    PROVE  Payload[i + 1] = EmptyLength[i]
<1> DEFINE f == LengthFieldSize(Len(msg))
           z == EmptyLength
           T == <<TLV_NDEF_MESSAGE>>
           E == <<TLV_TERMINATOR>>
<1>1. f \in {1, 3} /\ i \in 1..f
  BY DEF LengthFieldSize
<1>2. /\ TLV_NDEF_MESSAGE \in Byte /\ TLV_TERMINATOR \in Byte /\ LONG_LENGTH \in Byte
      /\ 0 \in Byte
  BY TlvAssumption DEF TLV_NDEF_MESSAGE, TLV_TERMINATOR, LONG_LENGTH, Byte
<1>3. T \in Seq(Byte) /\ Len(T) = 1 /\ E \in Seq(Byte)
  BY <1>2
<1>4. z \in Seq(Byte) /\ Len(z) = f
  BY <1>1, <1>2 DEF EmptyLength
<1>5. Payload = T \o z \o msg \o E
  BY DEF Payload
<1> HIDE DEF z, T, E, f
<1>6. \A x, y \in Seq(Byte) :
         /\ x \o y \in Seq(Byte) /\ Len(x \o y) = Len(x) + Len(y)
         /\ \A j \in 1..Len(x) : (x \o y)[j] = x[j]
         /\ \A j \in 1..Len(y) : (x \o y)[Len(x) + j] = y[j]
  OBVIOUS
<1>7. /\ T \o z \in Seq(Byte) /\ Len(T \o z) = 1 + f /\ i + 1 \in 1..(1 + f)
      /\ (T \o z)[i + 1] = z[i]
  <2>a. i \in 1..Len(z)
    BY <1>1, <1>4
  <2>b. /\ T \o z \in Seq(Byte) /\ Len(T \o z) = Len(T) + Len(z)
        /\ (T \o z)[Len(T) + i] = z[i]
    BY ZenonT(60), <1>3, <1>4, <1>6, <2>a
  <2>1. T \o z \in Seq(Byte) /\ Len(T \o z) = 1 + f /\ (T \o z)[1 + i] = z[i]
    BY Zenon, <1>3, <1>4, <2>b
  <2>2. 1 + i = i + 1 /\ i + 1 \in 1..(1 + f)
    BY <1>1
  <2>3. QED
    BY <2>1, <2>2
<1>8. /\ T \o z \o msg \in Seq(Byte) /\ (T \o z \o msg)[i + 1] = z[i]
      /\ i + 1 \in 1..Len(T \o z \o msg)
  <2> DEFINE u == T \o z
  <2> HIDE DEF u
  <2>1. u \in Seq(Byte) /\ Len(u) = 1 + f /\ i + 1 \in 1..(1 + f) /\ u[i + 1] = z[i]
    BY <1>7 DEF u
  <2>a. i + 1 \in 1..Len(u)
    BY <2>1
  <2>2. /\ u \o msg \in Seq(Byte) /\ Len(u \o msg) = Len(u) + Len(msg)
        /\ (u \o msg)[i + 1] = u[i + 1]
    BY Zenon, <1>6, <2>1, <2>a
  <2>3. i + 1 \in 1..(1 + f + Len(msg))
    BY <1>1, <2>1
  <2>4. QED
    BY <2>1, <2>2, <2>3 DEF u
<1>9. (T \o z \o msg \o E)[i + 1] = (T \o z \o msg)[i + 1]
  <2> DEFINE u == T \o z \o msg
  <2> HIDE DEF u
  <2>1. u \in Seq(Byte) /\ i + 1 \in 1..Len(u)
    BY <1>8 DEF u
  <2>2. (u \o E)[i + 1] = u[i + 1]
    BY ZenonT(60), <1>3, <1>6, <2>1
  <2>3. QED
    BY <2>2 DEF u
<1>10. QED
  BY <1>5, <1>8, <1>9 DEF z

\* Every offset of the new TLV is the offset of a byte of the data area.
LEMMA TlvOffsets ==
    ASSUME NdefInv, pc \in {"value", "length"},
           NEW k \in offset..(RequiredEnd(offset) - 1)
    PROVE  LET a == usable_offset_to_address(layout, k)
           IN /\ a \in UsableFrom(layout, DATA_START) /\ Before(layout, a) = k
              /\ a \in Address /\ a \in Nat
<1> DEFINE a == usable_offset_to_address(layout, k)
<1>1. /\ offset \in Nat /\ RequiredEnd(offset) \in Nat
      /\ limit \in Nat /\ layout.data_area_size \in Nat
      /\ Cardinality(UsableBetween(layout, DATA_START, limit)) = layout.data_area_size
      /\ RequiredEnd(offset) <= layout.data_area_size
  <2>1. RequiredEnd(offset) \in Nat /\ offset \in Nat
    BY WholeIs DEF RequiredEnd
  <2>2. QED
    BY <2>1 DEF NdefInv, DataInv, InCall, Layouts, RoomLeft
<1>2. k \in Nat /\ k < layout.data_area_size
  BY <1>1
<1>3. a \in Nat /\ a # None
  BY <1>1, <1>2, RoomFrom, AddressAssumption
<1>4. a \in UsableFrom(layout, DATA_START) /\ Before(layout, a) = k
  BY <1>2, <1>3, OffsetFinds
<1>5. a \in Address
  BY <1>4, AddressSizes DEF UsableFrom, Address
<1>6. QED
  BY <1>3, <1>4, <1>5

\* A byte of an earlier offset has a lower address.
LEMMA OffsetOrder ==
    ASSUME NEW L, NEW a \in UsableFrom(L, DATA_START), NEW b \in UsableFrom(L, DATA_START),
           Before(L, a) < Before(L, b)
    PROVE  a < b
<1>1. a \in Nat /\ b \in Nat
  BY AddressSizes DEF UsableFrom
<1>2. SUFFICES ASSUME b < a \/ b = a PROVE FALSE
  BY <1>1
<1>3. CASE b = a
  BY <1>3, BeforeNat
<1>4. CASE b < a
  BY <1>1, <1>4, BeforeGrows, BeforeNat
<1>5. QED
  BY <1>2, <1>3, <1>4

\* When L is written, the message and its Terminator are in place.
LEMMA MessageFirst ==
    ASSUME NdefInv, PlacedInv, pc = "length"
    PROVE  MessageInPlace(memory)
<1> DEFINE f == LengthFieldSize(Len(msg))
<1> SUFFICES ASSUME NEW i \in 1..(Len(msg) + 1)
             PROVE  memory[usable_offset_to_address(layout, offset + f + i)]
                        = (msg \o <<TLV_TERMINATOR>>)[i]
  BY DEF MessageInPlace, ByteAt
<1> DEFINE k == offset + f + i
           a == usable_offset_to_address(layout, k)
<1>1. /\ offset \in Nat /\ f \in {1, 3} /\ Len(msg) \in Nat /\ msg \in Seq(Byte)
      /\ RequiredEnd(offset) = offset + 1 + f + Len(msg) + 1
  BY WholeIs DEF NdefInv, DataInv, RequiredEnd
<1>2. Payload[f + 1 + i] = (msg \o <<TLV_TERMINATOR>>)[i]
  BY <1>1, BehindLength
<1> HIDE DEF f
<1>3. /\ k \in offset..(RequiredEnd(offset) - 1)
      /\ k \in (offset + 1 + f)..(RequiredEnd(offset) - 1)
      /\ k - offset + 1 = f + 1 + i
  BY <1>1
<1> HIDE DEF k
<1>4. a \in UsableFrom(layout, DATA_START) /\ Before(layout, a) = k
  BY <1>3, TlvOffsets
<1>5. memory[a] = Payload[k - offset + 1]
  BY <1>3, <1>4 DEF PlacedInv, MessagePlaced, f
<1>6. QED
  BY <1>2, <1>3, <1>5 DEF k, f

\* What a WRITE makes of the byte at an offset of the new TLV: it stays, or it
\* becomes the byte that belongs there.
LEMMA OffsetWritten ==
    ASSUME NdefInv, PlacedInv, pc \in {"value", "length"},
           NEW k \in offset..(RequiredEnd(offset) - 1)
    PROVE  \/ ByteAt(PageWritten, k) = ByteAt(memory, k)
           \/ /\ k \in First..(First + Len(Whole) - 1)
              /\ ByteAt(PageWritten, k) = Whole[k - First + 1]
              /\ usable_offset_to_address(layout, k) < NextPage
<1> DEFINE a == usable_offset_to_address(layout, k)
<1>1. /\ a \in UsableFrom(layout, DATA_START) /\ Before(layout, a) = k
      /\ a \in Address /\ a \in Nat
  BY TlvOffsets
<1> HIDE DEF a
<1>2. CASE a - PageBase \notin Taken
  BY <1>1, <1>2 DEF PageWritten, ByteAt, a
<1>3. CASE a - PageBase \in Taken
  <2>1. Place # None
    BY PageFits DEF WithinLimit
  <2>2. /\ k \in Before(layout, addr)..(First + Len(Whole) - 1)
        /\ PageWritten[a] = Whole[k - First + 1]
    BY <1>1, <1>3, <2>1, PageChanges DEF PlacedInv
  <2>3. /\ Before(layout, addr) = First + Len(Whole) - Len(todo) /\ Len(todo) <= Len(Whole)
        /\ First \in Nat /\ Len(Whole) \in Nat /\ Len(todo) \in Nat
    BY WholeIs DEF PlacedInv, Placed
  <2>4. k \in First..(First + Len(Whole) - 1)
    BY <2>2, <2>3
  <2>5. a < NextPage
    <3>1. a - PageBase \in Place[3]..(BLOCK_SIZE - 1)
      BY <1>3, <2>1, OpenIs DEF Taken
    <3>2. PageBase \in Nat /\ BLOCK_SIZE \in Nat /\ Place[3] \in Nat
      BY <2>1, PageIs
    <3>3. QED
      BY <1>1, <3>1, <3>2 DEF NextPage
  <2>6. QED
    BY <2>2, <2>4, <2>5 DEF ByteAt, a
<1>4. QED
  BY <1>2, <1>3

\* A WRITE of the value that touches the message leaves L at 0.
LEMMA ValueUnderEmptyLength ==
    ASSUME NdefInv, PlacedInv, pc = "value",
           NEW k \in (offset + LengthFieldSize(Len(msg)) + 1)..(RequiredEnd(offset) - 1),
           ByteAt(PageWritten, k) # ByteAt(memory, k),
           NEW i \in 1..LengthFieldSize(Len(msg))
    PROVE  ByteAt(PageWritten, offset + i) = EmptyLength[i]
<1> DEFINE f == LengthFieldSize(Len(msg))
           b == usable_offset_to_address(layout, k)
           a == usable_offset_to_address(layout, offset + i)
<1>1. /\ offset \in Nat /\ f \in {1, 3} /\ Len(msg) \in Nat /\ msg \in Seq(Byte)
      /\ RequiredEnd(offset) = offset + 1 + f + Len(msg) + 1
      /\ First = offset /\ First + Len(Whole) = RequiredEnd(offset) /\ Len(Whole) \in Nat
  BY WholeIs DEF NdefInv, DataInv, RequiredEnd
<1>2. Payload[i + 1] = EmptyLength[i]
  BY <1>1, InFrontOfMessage
<1>3. k \in (offset + f + 1)..(RequiredEnd(offset) - 1) /\ i \in 1..f
  OBVIOUS
<1> HIDE DEF f
<1>4. /\ k \in offset..(RequiredEnd(offset) - 1) /\ offset + i \in offset..(RequiredEnd(offset) - 1)
      /\ offset + i < k /\ (offset + i) - offset + 1 = i + 1
  BY <1>1, <1>3
<1>5. /\ a \in UsableFrom(layout, DATA_START) /\ Before(layout, a) = offset + i
      /\ a \in Nat
  BY <1>4, TlvOffsets
<1>6. b \in UsableFrom(layout, DATA_START) /\ Before(layout, b) = k /\ b \in Nat
  BY <1>4, TlvOffsets
<1>7. b < NextPage
  BY <1>4, OffsetWritten
<1>8. Place # None
  BY PageFits DEF WithinLimit
<1> HIDE DEF a, b
<1>9. a < b
  BY <1>4, <1>5, <1>6, OffsetOrder
<1>10. a < NextPage
  <2>1. NextPage \in Int
    BY <1>8, PageIs DEF NextPage
  <2>2. QED
    BY <1>5, <1>6, <1>7, <1>9, <2>1
<1>11. Before(layout, a) \in First..(First + Len(Whole) - 1)
  BY <1>1, <1>4, <1>5
<1>12. PageWritten[a] = Whole[Before(layout, a) - First + 1]
  BY <1>5, <1>8, <1>10, <1>11, PagePlaces DEF PlacedInv
<1>13. PageWritten[a] = Payload[i + 1]
  BY <1>1, <1>4, <1>5, <1>12 DEF Whole
<1>14. QED
  BY <1>2, <1>13 DEF ByteAt, a

\* A WRITE touches the message only with L = 0 afterwards, and L gets a byte of the
\* real length only when the whole message and the Terminator are on the tag, on every
\* path of write_usable_bytes and whether or not the WRITE is answered
\* (reader.rs:532-533, 554-555).
THEOREM LengthComesLast == Spec => LengthWrittenLast
<1> DEFINE f == LengthFieldSize(Len(msg))
           Value == (offset + f + 1)..(RequiredEnd(offset) - 1)
           Ordered ==
             memory' # memory =>
               /\ \/ \A k \in Value : ByteAt(memory', k) = ByteAt(memory, k)
                  \/ \A i \in 1..f : ByteAt(memory', offset + i) = EmptyLength[i]
               /\ \A i \in 1..f :
                    \/ ByteAt(memory', offset + i) \in {ByteAt(memory, offset + i), EmptyLength[i]}
                    \/ /\ MessageInPlace(memory)
                       /\ ByteAt(memory', offset + i) = encode_tlv_length(Len(msg))[i]
<1>1. NdefInv /\ PlacedInv /\ [Next]_vars => [Ordered]_vars
  <2> SUFFICES ASSUME NdefInv, PlacedInv, Next, memory' # memory PROVE Ordered
    OBVIOUS
  <2>1. pc \in {"value", "length"} /\ memory' = PageWritten
    BY NextWrites
  <2>2. /\ offset \in Nat /\ f \in {1, 3} /\ Len(msg) \in Nat /\ msg \in Seq(Byte)
        /\ RequiredEnd(offset) = offset + 1 + f + Len(msg) + 1
    BY <2>1, WholeIs DEF NdefInv, DataInv, RequiredEnd
  <2>3. /\ pc = "value" => First = offset /\ Whole = Payload
        /\ pc = "length" => /\ First = offset + 1 /\ First + Len(Whole) = offset + 1 + f
                            /\ Whole = encode_tlv_length(Len(msg))
    BY <2>1, WholeIs DEF First, Whole
  <2>4. \/ \A k \in Value : ByteAt(PageWritten, k) = ByteAt(memory, k)
        \/ \A i \in 1..f : ByteAt(PageWritten, offset + i) = EmptyLength[i]
    <3>1. CASE pc = "value"
      BY <3>1, ValueUnderEmptyLength
    <3>2. CASE pc = "length"
      <4>1. ASSUME NEW k \in Value PROVE ByteAt(PageWritten, k) = ByteAt(memory, k)
        <5> HIDE DEF f
        <5>1. k \in offset..(RequiredEnd(offset) - 1) /\ ~(k \in First..(First + Len(Whole) - 1))
          BY <2>2, <2>3, <3>2, <4>1
        <5>2. QED
          BY <2>1, <5>1, OffsetWritten
      <4>2. QED
        BY <4>1
    <3>3. QED
      BY <2>1, <3>1, <3>2
  <2>5. ASSUME NEW i \in 1..f
        PROVE  \/ ByteAt(PageWritten, offset + i) \in {ByteAt(memory, offset + i), EmptyLength[i]}
               \/ /\ MessageInPlace(memory)
                  /\ ByteAt(PageWritten, offset + i) = encode_tlv_length(Len(msg))[i]
    <3>0. (pc = "value" => Payload[i + 1] = EmptyLength[i])
      BY <2>2, InFrontOfMessage
    <3> HIDE DEF f
    <3>1. /\ offset + i \in offset..(RequiredEnd(offset) - 1)
          /\ (offset + i) - offset + 1 = i + 1 /\ (offset + i) - (offset + 1) + 1 = i
      BY <2>2
    <3>2. \/ ByteAt(PageWritten, offset + i) = ByteAt(memory, offset + i)
          \/ ByteAt(PageWritten, offset + i) = Whole[(offset + i) - First + 1]
      BY <2>1, <3>1, OffsetWritten
    <3>3. CASE pc = "value"
      BY <2>3, <3>0, <3>1, <3>2, <3>3
    <3>4. CASE pc = "length"
      BY <2>3, <3>1, <3>2, <3>4, MessageFirst
    <3>5. QED
      BY <2>1, <3>3, <3>4
  <2>6. QED
    BY <2>1, <2>4, <2>5
<1>2. QED
  BY <1>1, SpecNdefInv, SpecPlacedInv, PTL DEF Spec, LengthWrittenLast

=============================================================================
