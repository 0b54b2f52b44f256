---------------------------- MODULE CodecProofs ----------------------------
(***************************************************************************)
(* Decoding and encoding for every size of a byte, a nibble, a block and   *)
(* the buffers: what is encoded is decoded to the same, the bytes come     *)
(* back but for the bits that mean nothing, and a length field is true.    *)
(* The lemmas are about every byte string and every block, the theorems    *)
(* about the inputs of Codec.                                              *)
(***************************************************************************)
EXTENDS Codec, TlvProofs

-----------------------------------------------------------------------------
(* Bytes and nibbles. *)

\* Two digits to a base make one number, and the digits can be had back.
LEMMA TwoDigits ==
    ASSUME NEW m \in Nat \ {0}, NEW h \in Nat, NEW l \in 0..(m - 1)
    PROVE  (h * m + l) \div m = h /\ (h * m + l) % m = l
  OBVIOUS

\* A number below the square of the base has two digits.
LEMMA Digits ==
    ASSUME NEW m \in Nat \ {0}, NEW b \in 0..(m * m - 1)
    PROVE  /\ b \div m \in 0..(m - 1)
           /\ b % m \in 0..(m - 1)
           /\ (b \div m) * m + (b % m) = b
  OBVIOUS

\* Three and four bytes, one by one.
LEMMA ShortStrings ==
    ASSUME NEW w \in Seq(Byte)
    PROVE  /\ \A i \in 1..Len(w) : w[i] \in Byte
           /\ Len(w) = 3 => w = <<w[1], w[2], w[3]>>
           /\ Len(w) >= 4 => SubSeq(w, 1, 4) = <<w[1], w[2], w[3], w[4]>>
<1>1. \A i \in 1..Len(w) : w[i] \in Byte
  OBVIOUS
<1>2. Len(w) = 3 => w = <<w[1], w[2], w[3]>>
  OBVIOUS
<1>3. ASSUME Len(w) >= 4 PROVE SubSeq(w, 1, 4) = <<w[1], w[2], w[3], w[4]>>
  <2> DEFINE u == SubSeq(w, 1, 4)
             x == <<w[1], w[2], w[3], w[4]>>
  <2>1. u \in Seq(Byte) /\ Len(u) = 4 /\ \A i \in 1..4 : u[i] = w[i]
    BY <1>3
  <2>2. x \in Seq(Byte) /\ Len(x) = 4 /\ \A i \in 1..4 : x[i] = w[i]
    BY <1>1, <1>3
  <2> HIDE DEF u, x
  <2>3. u = x
    BY <2>1, <2>2
  <2>4. QED
    BY <2>3 DEF u, x
<1>4. QED
  BY <1>1, <1>2, <1>3

\* A byte is two nibbles (type2/tlv.rs:98-101, 118-129; cc.rs:75-82).
LEMMA Nibbles ==
    /\ \A b \in Byte : /\ b \div NIBBLE \in 0..(NIBBLE - 1)
                       /\ b % NIBBLE \in 0..(NIBBLE - 1)
                       /\ (b \div NIBBLE) * NIBBLE + (b % NIBBLE) = b
    /\ \A n \in 0..(NIBBLE - 1) : n \in Byte /\ n \div NIBBLE = 0 /\ n % NIBBLE = n
<1>1. NIBBLE \in Nat \ {0} /\ Byte = 0..(NIBBLE * NIBBLE - 1)
  BY TlvAssumption DEF Byte
<1>2. \A b \in Byte : /\ b \div NIBBLE \in 0..(NIBBLE - 1)
                      /\ b % NIBBLE \in 0..(NIBBLE - 1)
                      /\ (b \div NIBBLE) * NIBBLE + (b % NIBBLE) = b
  BY <1>1, Digits
<1>3. ASSUME NEW n \in 0..(NIBBLE - 1)
      PROVE  n \in Byte /\ n \div NIBBLE = 0 /\ n % NIBBLE = n
  <2>1. 0 * NIBBLE + n = n /\ NIBBLE - 1 <= NIBBLE * NIBBLE - 1 /\ n \in Int
    BY <1>1
  <2>2. QED
    BY <1>1, <2>1, TwoDigits
<1>4. QED
  BY <1>2, <1>3

-----------------------------------------------------------------------------
(* Control values. *)

\* A size byte survives, 0 for the largest size included.
LEMMA SizeByteSurvives ==
    ASSUME NEW b \in Byte
    PROVE  SizeToByte(SizeFromByte(b)) = b
<1>1. BYTE \in Nat /\ BYTE > 6 /\ b \in 0..(BYTE - 1)
  BY TlvAssumption DEF Byte
<1>2. b % BYTE = b
  BY <1>1
<1>3. QED
  BY <1>1, <1>2 DEF SizeToByte, SizeFromByte

\* A byte is put together again from its nibbles.
LEMMA NibblesSurvive ==
    ASSUME NEW b \in Byte
    PROVE  NibblesToByte(b \div NIBBLE, b % NIBBLE) = b
<1>1. /\ (b \div NIBBLE) % NIBBLE = b \div NIBBLE
      /\ (b % NIBBLE) % NIBBLE = b % NIBBLE
      /\ (b \div NIBBLE) * NIBBLE + (b % NIBBLE) = b
  BY Nibbles
<1>2. QED
  BY <1>1 DEF NibblesToByte

\* A Lock Control value is encoded as the bytes it was decoded from
\* (type2/tlv.rs:97-129).
LEMMA LockSurvives ==
    ASSUME NEW w \in Seq(Byte), Len(w) = 3, LockControlFromBytes(w) # None
    PROVE  LockControlToBytes(LockControlFromBytes(w)) = w
<1>1. w[1] \in Byte /\ w[2] \in Byte /\ w[3] \in Byte /\ w = <<w[1], w[2], w[3]>>
  BY ShortStrings
<1> DEFINE v == LockControlFromBytes(w)
<1>2. /\ v.page_addr = w[1] \div NIBBLE /\ v.byte_offset = w[1] % NIBBLE
      /\ v.size_in_bits = SizeFromByte(w[2])
      /\ v.bytes_per_page = w[3] % NIBBLE /\ v.bytes_locked_per_bit = w[3] \div NIBBLE
  BY DEF LockControlFromBytes
<1> HIDE DEF v
<1>3. LockControlToBytes(v) = <<w[1], w[2], w[3]>>
  BY <1>1, <1>2, NibblesSurvive, SizeByteSurvives DEF LockControlToBytes
<1>4. QED
  BY <1>1, <1>3 DEF v

\* A Memory Control value is encoded as the bytes it was decoded from, but for the
\* upper nibble of the third one, and means the same (type2/tlv.rs:159-193).
LEMMA MemorySurvives ==
    ASSUME NEW w \in Seq(Byte), Len(w) = 3, MemoryControlFromBytes(w) # None
    PROVE  LET u == MemoryControlToBytes(MemoryControlFromBytes(w))
           IN /\ u = <<w[1], w[2], w[3] % NIBBLE>>
              /\ u \in Seq(Byte) /\ Len(u) = 3
              /\ MemoryControlFromBytes(u) = MemoryControlFromBytes(w)
<1>1. w[1] \in Byte /\ w[2] \in Byte /\ w[3] \in Byte
  BY ShortStrings
<1> DEFINE v == MemoryControlFromBytes(w)
           u == <<w[1], w[2], w[3] % NIBBLE>>
<1>2. /\ v.page_addr = w[1] \div NIBBLE /\ v.byte_offset = w[1] % NIBBLE
      /\ v.size_in_bytes = SizeFromByte(w[2]) /\ v.bytes_per_page = w[3] % NIBBLE
  BY DEF MemoryControlFromBytes
<1>3. w[3] % NIBBLE \in Byte /\ (w[3] % NIBBLE) % NIBBLE = w[3] % NIBBLE
  BY <1>1, Nibbles
<1>4. MemoryControlFromBytes(u) = v
  BY <1>3 DEF MemoryControlFromBytes
<1> HIDE DEF v
<1>5. MemoryControlToBytes(v) = u
  BY <1>1, <1>2, <1>3, NibblesSurvive, SizeByteSurvives DEF MemoryControlToBytes
<1>6. u \in Seq(Byte) /\ Len(u) = 3
  BY <1>1, <1>3
<1>7. QED
  BY <1>4, <1>5, <1>6 DEF v

-----------------------------------------------------------------------------
(* Capability Containers. *)

\* Every access condition has its own nibble (tag.rs:13-37).
LEMMA AccessSurvives ==
    ASSUME NEW n \in 0..(NIBBLE - 1)
    PROVE  to_nibble(from_nibble(n)) = n
<1>1. NIBBLE \in Nat /\ NIBBLE >= 4
  BY TlvAssumption, CcAssumption
<1>2. \/ n = 0 /\ from_nibble(n) = Granted
      \/ n = NIBBLE - 1 /\ from_nibble(n) = Denied
      \/ from_nibble(n) = Access("proprietary", n)
      \/ from_nibble(n) = Access("rfu", n)
  BY <1>1 DEF from_nibble
<1>3. QED
  BY <1>2 DEF to_nibble, Granted, Denied, Access

\* A container is encoded as the four bytes it was decoded from, and they mean the
\* same without what followed them (cc.rs:43-82).
LEMMA ContainerSurvives ==
    ASSUME NEW b \in Seq(Byte), CcFromSlice(b).status = "ok"
    PROVE  /\ CcToBytes(CcFromSlice(b)) = SubSeq(b, 1, 4)
           /\ Len(CcToBytes(CcFromSlice(b))) = 4
           /\ CcFromSlice(SubSeq(b, 1, 4)) = CcFromSlice(b)
<1> DEFINE u == SubSeq(b, 1, 4)
           c == CcFromSlice(b)
<1>1. ~(Len(b) < 4) /\ c = ParseCc(b)
  BY DEF CcFromSlice
<1>2. /\ b[1] \in Byte /\ b[2] \in Byte /\ b[3] \in Byte /\ b[4] \in Byte
      /\ u = <<b[1], b[2], b[3], b[4]>>
  BY <1>1, ShortStrings
<1>3. /\ b[1] = CC_MAGIC
      /\ c = [status        |-> "ok",
              version_major |-> b[2] \div NIBBLE,
              version_minor |-> b[2] % NIBBLE,
              size_field    |-> b[3],
              read_access   |-> from_nibble(b[4] \div NIBBLE),
              write_access  |-> from_nibble(b[4] % NIBBLE)]
  BY <1>1 DEF ParseCc
<1>4. CcFromSlice(u) = ParseCc(b)
  BY <1>2 DEF CcFromSlice, ParseCc
<1> HIDE DEF c, u
<1>5. /\ to_nibble(c.read_access) = b[4] \div NIBBLE
      /\ to_nibble(c.write_access) = b[4] % NIBBLE
  BY <1>2, <1>3, Nibbles, AccessSurvives
<1>6. CcToBytes(c) = u
  BY <1>2, <1>3, <1>5, Nibbles DEF CcToBytes
<1>7. Len(u) = 4
  BY <1>2
<1>8. QED
  BY <1>1, <1>4, <1>6, <1>7 DEF c, u

-----------------------------------------------------------------------------
(* Commands and answers. *)

\* A command is encoded as the first bytes of the frame it was decoded from, and
\* they mean the same (type2/mod.rs:152-170, 226-263).
LEMMA CommandSurvives ==
    ASSUME NEW b \in Seq(Byte), ParseCommand(b).status = "ok"
    PROVE  LET u == CommandToBytes(ParseCommand(b).command)
           IN u = SubSeq(b, 1, Len(u)) /\ ParseCommand(u) = ParseCommand(b)
<1> DEFINE Ok(x) == [status |-> "ok", command |-> x]
           c == ParseCommand(b).command
           u == CommandToBytes(c)
<1>0. Len(b) \in Nat /\ \A i \in 1..Len(b) : b[i] \in Byte
  OBVIOUS
<1>1. /\ BLOCK_SIZE \in Nat \ {0} /\ BLOCK_SIZE + 2 <= 20
      /\ CMD_READ # CMD_WRITE /\ CMD_READ # CMD_SECTOR_SELECT
      /\ CMD_WRITE # CMD_SECTOR_SELECT
  BY AddressAssumption, CommandAssumption, CodecAssumption DEF FRAME_CAPACITY
<1>2. CASE Len(b) >= 2 /\ b[1] = CMD_READ
  <2>1. ParseCommand(b) = Ok(Read(b[2])) /\ c = Read(b[2])
    BY <1>1, <1>2 DEF ParseCommand
  <2>2. u = <<b[1], b[2]>>
    BY <1>2, <2>1 DEF CommandToBytes, Read, try_extend, FRAME_CAPACITY
  <2>3. u = SubSeq(b, 1, 2) /\ Len(u) = 2
    BY <1>0, <1>2, <2>2
  <2>4. ParseCommand(<<b[1], b[2]>>) = Ok(Read(b[2]))
    BY <1>1, <1>2 DEF ParseCommand
  <2>5. QED
    BY <2>1, <2>2, <2>3, <2>4
<1>3. CASE Len(b) >= 2 + BLOCK_SIZE /\ b[1] = CMD_WRITE
  <2> DEFINE data == Slice(b, 2, BLOCK_SIZE)
             head == <<b[1], b[2]>>
  <2>1. ParseCommand(b) = Ok(Write(b[2], data)) /\ c = Write(b[2], data)
    BY <1>0, <1>1, <1>3 DEF ParseCommand
  <2>2. data \in Seq(Byte) /\ Len(data) = BLOCK_SIZE
    BY <1>1, <1>3, SliceBytes
  <2>3. \A i \in 1..BLOCK_SIZE : data[i] = b[i + 2]
    BY <1>0, <1>1, <1>3 DEF Slice
  <2> HIDE DEF data
  <2>4. head \in Seq(Byte) /\ Len(head) = 2
    BY <1>0, <1>1, <1>3
  <2>5. u = head \o data
    <3>1. try_extend(<<>>, <<CMD_WRITE, b[2]>>, FRAME_CAPACITY).vec = head
      BY <1>3 DEF try_extend, FRAME_CAPACITY
    <3>2. try_extend(head, data, FRAME_CAPACITY).vec = head \o data
      BY <1>1, <2>2, <2>4 DEF try_extend, FRAME_CAPACITY
    <3>3. c.cmd = "write" /\ c.block_no = b[2] /\ c.data = data
      BY <2>1 DEF Write
    <3> HIDE DEF c
    <3>4. QED
      BY <3>1, <3>2, <3>3 DEF CommandToBytes
  <2> DEFINE w == head \o data
             z == SubSeq(b, 1, 2 + BLOCK_SIZE)
  <2>6. /\ w \in Seq(Byte) /\ Len(w) = 2 + BLOCK_SIZE
        /\ w[1] = b[1] /\ w[2] = b[2] /\ \A i \in 1..BLOCK_SIZE : w[i + 2] = data[i]
    BY <1>1, <2>2, <2>4
  <2>7. z \in Seq(Byte) /\ Len(z) = 2 + BLOCK_SIZE /\ \A i \in 1..(2 + BLOCK_SIZE) : z[i] = b[i]
    BY <1>0, <1>1, <1>3
  <2> HIDE DEF w, z
  <2>8. ASSUME NEW i \in 1..(2 + BLOCK_SIZE) PROVE w[i] = b[i]
    <3>1. i = 1 \/ i = 2 \/ (i - 2 \in 1..BLOCK_SIZE /\ (i - 2) + 2 = i)
      BY <1>1
    <3>2. QED
      BY <2>3, <2>6, <3>1
  <2>9. w = z
    BY <1>1, <2>6, <2>7, <2>8
  <2>10. Slice(w, 2, BLOCK_SIZE) = data
    <3> DEFINE y == Slice(w, 2, BLOCK_SIZE)
    <3>1. y \in Seq(Byte) /\ Len(y) = BLOCK_SIZE
      BY <1>1, <2>6, SliceBytes
    <3>2. \A i \in 1..BLOCK_SIZE : y[i] = w[i + 2]
      BY <1>1, <2>6 DEF Slice
    <3> HIDE DEF y
    <3>3. y = data
      BY <1>1, <2>2, <2>6, <3>1, <3>2
    <3>4. QED
      BY <3>3 DEF y
  <2>11. ParseCommand(w) = Ok(Write(b[2], data))
    BY <1>1, <1>3, <2>6, <2>10 DEF ParseCommand
  <2>12. u = w
    BY <2>5 DEF w
  <2>13. u = SubSeq(b, 1, Len(u))
    BY <2>6, <2>9, <2>12 DEF z
  <2>14. QED
    BY <2>1, <2>11, <2>12, <2>13
<1>4. CASE Len(b) >= 2 /\ b[1] = CMD_SECTOR_SELECT /\ b[2] = BYTE - 1
  <2>1. ParseCommand(b) = Ok(SectorSelectPart1) /\ c = SectorSelectPart1
    BY <1>1, <1>4 DEF ParseCommand
  <2>2. u = <<b[1], b[2]>>
    BY <1>4, <2>1 DEF CommandToBytes, SectorSelectPart1, try_extend, FRAME_CAPACITY
  <2>3. u = SubSeq(b, 1, 2) /\ Len(u) = 2
    BY <1>0, <1>4, <2>2
  <2>4. ParseCommand(<<b[1], b[2]>>) = Ok(SectorSelectPart1)
    BY <1>1, <1>4 DEF ParseCommand
  <2>5. QED
    BY <2>1, <2>2, <2>3, <2>4
<1>5. QED
  BY <1>2, <1>3, <1>4 DEF ParseCommand

\* An answer is encoded as the frame it was decoded from, but for the bits a four-bit
\* answer does not have and what follows, and means the same
\* (type2/mod.rs:178-214, 282-345).
LEMMA AnswerSurvives ==
    ASSUME NEW b \in Seq(Byte), NEW c \in Asked, parse_answer(c, b) # None
    PROVE  LET a == parse_answer(c, b)
               u == AnswerFrame(a)
           IN /\ u = IF a.answer \in {"ack", "nack"}
                         THEN <<b[1] % NIBBLE>> ELSE SubSeq(b, 1, Len(u))
              /\ parse_answer(c, u) = a
<1> DEFINE a == parse_answer(c, b)
           u == AnswerFrame(a)
<1>0. Len(b) \in Nat /\ READ_SIZE \in Nat /\ READ_SIZE > 0
  BY AddressAssumption DEF READ_SIZE
<1>1. CASE c.cmd = "read" /\ Len(b) >= READ_SIZE
  <2> DEFINE d == Slice(b, 0, READ_SIZE)
  <2>1. a = Answer("data", d) /\ u = d
    BY <1>1 DEF parse_answer, AnswerFrame, Answer
  <2>2. d \in Seq(Byte) /\ Len(d) = READ_SIZE /\ d = SubSeq(b, 1, READ_SIZE)
    BY <1>0, <1>1, SliceBytes DEF Slice
  <2> HIDE DEF d
  <2>3. Slice(d, 0, READ_SIZE) = d
    BY <1>0, <2>2 DEF Slice
  <2>4. parse_answer(c, d) = Answer("data", d)
    <3>1. Len(d) >= READ_SIZE
      BY <1>0, <2>2
    <3>2. QED
      BY <1>1, <2>3, <3>1 DEF parse_answer
  <2>5. a.answer = "data"
    BY <2>1 DEF Answer
  <2> HIDE DEF a, u
  <2>6. u = SubSeq(b, 1, Len(u)) /\ parse_answer(c, u) = a
    BY <2>1, <2>2, <2>4
  <2>7. QED
    BY <2>5, <2>6 DEF a, u
<1>2. CASE c.cmd \in {"write", "part1", "part2"} /\ b # <<>>
  <2> DEFINE n == b[1] % NIBBLE
  <2>1. b[1] \in Byte /\ n \in 0..(NIBBLE - 1) /\ n % NIBBLE = n
    <3>1. b[1] \in Byte
      BY <1>2
    <3>2. QED
      BY <3>1, Nibbles
  <2>2. ACK \in 0..(NIBBLE - 1) /\ ACK % NIBBLE = ACK
    BY CommandAssumption, Nibbles
  <2>3. CASE c.cmd \in {"write", "part1"} /\ n = ACK
    <3>1. a = Answer("ack", 0) /\ u = <<n>>
      BY <1>2, <2>3 DEF parse_answer, AckOrNack, Bits, AnswerFrame, Answer
    <3>2. parse_answer(c, <<n>>) = Answer("ack", 0)
      BY <2>1, <2>2, <2>3 DEF parse_answer, AckOrNack, Bits
    <3>3. QED
      BY <3>1, <3>2 DEF Answer
  <2>4. CASE ~(c.cmd \in {"write", "part1"} /\ n = ACK)
    <3>1. a = Answer("nack", n) /\ u = <<n>>
      BY <1>2, <2>4 DEF parse_answer, AckOrNack, Bits, AnswerFrame, Answer
    <3>2. parse_answer(c, <<n>>) = Answer("nack", n)
      BY <1>2, <2>1, <2>4 DEF parse_answer, AckOrNack, Bits
    <3>3. QED
      BY <3>1, <3>2 DEF Answer
  <2>5. QED
    BY <2>3, <2>4
<1>3. CASE c.cmd = "part2" /\ b = <<>>
  BY <1>3 DEF parse_answer, AnswerFrame, Answer
<1>4. QED
  BY <1>1, <1>2, <1>3 DEF parse_answer

-----------------------------------------------------------------------------
(* TLV blocks. *)

\* l is a length field for n bytes of value, in one of its two formats.
LengthOf(l, n) ==
    \/ n < LONG_LENGTH /\ l = <<n>>
    \/ n < BYTE * BYTE /\ l = LongForm(n)

\* A block on its own: its tag, its length field and its value.
OneBlock(t, l, v) == <<t>> \o l \o v

\* The length field of a length that can be encoded (src/tlv.rs:63-84).
LEMMA EncodedLength ==
    ASSUME NEW n \in Nat, n <= MAX_TLV_LENGTH
    PROVE  LengthOf(encode_tlv_length(n), n)
<1>1. /\ BYTE \in Nat /\ MAX_TLV_LENGTH = BYTE * BYTE - 2 /\ BYTE * BYTE \in Nat
      /\ ~(n > MAX_TLV_LENGTH)
  BY TlvAssumption DEF MAX_TLV_LENGTH
<1>2. QED
  BY <1>1 DEF LengthOf, LongForm, encode_tlv_length, LengthFieldSize

\* A length field is made of bytes, and says what it was made from
\* (src/tlv.rs:34-51).
LEMMA LengthFieldIs ==
    ASSUME NEW n \in Nat, NEW l, LengthOf(l, n)
    PROVE  /\ l \in Seq(Byte)
           /\ \/ l = <<n>> /\ Len(l) = 1 /\ l[1] < LONG_LENGTH
              \/ Len(l) = 3 /\ l[1] = LONG_LENGTH /\ l[2] * BYTE + l[3] = n
<1>1. BYTE \in Nat \ {0} /\ BYTE > 6 /\ LONG_LENGTH = BYTE - 1 /\ Byte = 0..(BYTE - 1)
  BY TlvAssumption DEF LONG_LENGTH, Byte
<1>2. CASE n < LONG_LENGTH /\ l = <<n>>
  <2>1. n \in Byte
    BY <1>1, <1>2
  <2>2. QED
    BY <1>2, <2>1
<1>3. CASE n < BYTE * BYTE /\ l = LongForm(n)
  <2>1. n \in 0..(BYTE * BYTE - 1)
    BY <1>1, <1>3
  <2>2. n \div BYTE \in Byte /\ n % BYTE \in Byte /\ (n \div BYTE) * BYTE + (n % BYTE) = n
    BY <1>1, <2>1, Digits
  <2>3. LONG_LENGTH \in Byte
    BY <1>1
  <2>4. QED
    BY <1>3, <2>2, <2>3 DEF LongForm
<1>4. QED
  BY <1>2, <1>3 DEF LengthOf

\* The bytes of a block, one part after the other.
LEMMA OneBlockBytes ==
    ASSUME NEW t \in Byte, NEW v \in Seq(Byte), NEW l, LengthOf(l, Len(v))
    PROVE  LET d == OneBlock(t, l, v)
           IN /\ d \in Seq(Byte)
              /\ Len(l) \in {1, 3}
              /\ Len(d) = 1 + Len(l) + Len(v)
              /\ d[1] = t
              /\ d[2] = l[1]
              /\ Len(l) = 3 => d[3] = l[2] /\ d[4] = l[3]
              /\ Slice(d, 1 + Len(l), Len(v)) = v
<1> DEFINE d == OneBlock(t, l, v)
<1>1. l \in Seq(Byte) /\ Len(l) \in {1, 3} /\ Len(v) \in Nat
  BY LengthFieldIs
<1>2. /\ d \in Seq(Byte) /\ Len(d) = 1 + Len(l) + Len(v) /\ d[1] = t
      /\ \A i \in 1..Len(l) : d[1 + i] = l[i]
      /\ \A i \in 1..Len(v) : d[1 + Len(l) + i] = v[i]
  <2> DEFINE h == <<t>> \o l
  <2>1. /\ h \in Seq(Byte) /\ Len(h) = 1 + Len(l) /\ h[1] = t
        /\ \A i \in 1..Len(l) : h[1 + i] = l[i]
    BY <1>1
  <2>2. d = h \o v
    BY DEF OneBlock
  <2> HIDE DEF h, d
  <2>3. /\ d \in Seq(Byte) /\ Len(d) = Len(h) + Len(v)
        /\ \A i \in 1..Len(h) : d[i] = h[i]
        /\ \A i \in 1..Len(v) : d[Len(h) + i] = v[i]
    <3>1. \A x, y \in Seq(Byte) :
             /\ x \o y \in Seq(Byte) /\ Len(x \o y) = Len(x) + Len(y)
             /\ \A i \in 1..Len(x) : (x \o y)[i] = x[i]
             /\ \A i \in 1..Len(y) : (x \o y)[Len(x) + i] = y[i]
      OBVIOUS
    <3>2. QED
      BY <2>1, <2>2, <3>1
  <2>4. 1 \in 1..Len(h) /\ \A i \in 1..Len(l) : 1 + i \in 1..Len(h)
    BY <1>1, <2>1
  <2>5. QED
    BY <1>1, <2>1, <2>3, <2>4
<1> HIDE DEF d
<1>3. d[2] = l[1]
  <2>1. 1 \in 1..Len(l) /\ 1 + 1 = 2
    <3>1. Len(l) = 1 \/ Len(l) = 3
      BY <1>1
    <3> HIDE DEF LengthOf
    <3>2. QED
      BY <3>1
  <2>2. QED
    BY <1>2, <2>1
<1>4. Len(l) = 3 => d[3] = l[2] /\ d[4] = l[3]
  <2>1. Len(l) = 3 => 2 \in 1..Len(l) /\ 3 \in 1..Len(l) /\ 1 + 2 = 3 /\ 1 + 3 = 4
    OBVIOUS
  <2>2. QED
    BY <1>2, <2>1
<1>5. Slice(d, 1 + Len(l), Len(v)) = v
  <2> DEFINE k == 1 + Len(l)
             w == Slice(d, k, Len(v))
  <2>1. k \in Nat /\ Len(d) = k + Len(v)
    BY <1>1, <1>2
  <2>2. \A i \in 1..Len(v) : d[k + i] = v[i]
    BY <1>2
  <2> HIDE DEF k
  <2>3. w \in Seq(Byte) /\ Len(w) = Len(v)
    <3>1. d \in Seq(Byte) /\ k + Len(v) <= Len(d)
      BY <1>1, <1>2, <2>1
    <3>2. QED
      BY <1>1, <2>1, <3>1, SliceBytes
  <2>4. \A i \in 1..Len(v) : w[i] = d[k + i]
    BY <1>1, <1>2, <2>1 DEF Slice
  <2> HIDE DEF w
  <2>5. w = v
    BY <2>2, <2>3, <2>4
  <2>6. QED
    BY <2>5 DEF w, k
<1>6. QED
  BY <1>1, <1>2, <1>3, <1>4, <1>5 DEF d

\* The length field of a block is read back.
LEMMA OneBlockLength ==
    ASSUME NEW t \in Byte, NEW v \in Seq(Byte), NEW l, LengthOf(l, Len(v))
    PROVE  parse_tlv_length(OneBlock(t, l, v), 1) = [len |-> Len(v), size |-> Len(l)]
<1> DEFINE d == OneBlock(t, l, v)
<1>1. /\ d \in Seq(Byte) /\ Len(l) \in {1, 3} /\ Len(d) = 1 + Len(l) + Len(v)
      /\ d[2] = l[1] /\ (Len(l) = 3 => d[3] = l[2] /\ d[4] = l[3])
  BY OneBlockBytes
<1>2. l \in Seq(Byte) /\ Len(v) \in Nat
  BY LengthFieldIs
<1>3. LONG_LENGTH \in Int
  BY TlvAssumption DEF LONG_LENGTH
<1> HIDE DEF d
<1>4. CASE l = <<Len(v)>> /\ Len(l) = 1 /\ l[1] < LONG_LENGTH
  <2>1. l[1] = Len(v)
    BY <1>4
  <2>2. parse_tlv_length(d, 1) = [len |-> d[2], size |-> 1]
    BY <1>1, <1>2, <1>4 DEF parse_tlv_length
  <2>3. QED
    BY <1>1, <1>4, <2>1, <2>2 DEF d
<1>5. CASE Len(l) = 3 /\ l[1] = LONG_LENGTH /\ l[2] * BYTE + l[3] = Len(v)
  <2>1. ~(d[2] < LONG_LENGTH) /\ ~(1 >= Len(d)) /\ ~(1 + 3 > Len(d))
    BY <1>1, <1>2, <1>3, <1>5
  <2>2. parse_tlv_length(d, 1) = [len |-> d[3] * BYTE + d[4], size |-> 3]
    BY <2>1 DEF parse_tlv_length
  <2>3. QED
    BY <1>1, <1>5, <2>2 DEF d
<1>6. QED
  BY <1>4, <1>5, LengthFieldIs

\* Bytes that are one block are parsed to that block, the first of its kind and the
\* only one (type2/tlv.rs:250-330).
LEMMA ParseOne ==
    ASSUME NEW d \in Seq(Byte), d # <<>>, NEW b, TlvAt(d, 0) = Goes(<<b>>, Len(d))
    PROVE  parse_tlvs(d) = [status |-> "ok", tlvs |-> <<b>>]
<1>1. Len(d) \in Nat /\ 0 \in 0..(Len(d) - 1) /\ 0 \in 0..Len(d) /\ 0 # Len(d) /\ Len(d) \in 0..Len(d)
  OBVIOUS
<1>2. /\ TlvAt(d, 0).status = "ok" /\ TlvAt(d, 0).tlvs = <<b>>
      /\ TlvAt(d, 0).next = Len(d)
  BY DEF Goes
<1>3. ParseFrom(d, Len(d)) = Nothing
  BY <1>1, ParseUnfold
<1>4. Nothing.status = "ok" /\ Nothing.tlvs = <<>>
  BY DEF Nothing
<1>5. ParseFrom(d, 0) = [status |-> "ok", tlvs |-> <<b>> \o <<>>]
  <2>1. Nothing \in [status : {"ok"} \cup ParseErrors, tlvs : Seq(TlvBlocks)]
    BY <1>1, <1>3, ParseType
  <2>2. QED
    BY <1>1, <1>2, <1>3, <1>4, <2>1, ThenForm
<1>6. <<b>> \o <<>> = <<b>> /\ Len(<<b>>) = 1
  OBVIOUS
<1>7. TLV_CAPACITY \in Nat /\ TLV_CAPACITY > 0
  BY TlvAssumption, CodecAssumption
<1> DEFINE p == [status |-> "ok", tlvs |-> <<b>>]
<1>8. p.tlvs = <<b>> /\ ParseFrom(d, 0) = p
  BY <1>5, <1>6
<1> HIDE DEF p
<1>9. ~(Len(p.tlvs) > TLV_CAPACITY)
  BY <1>6, <1>7, <1>8
<1>10. parse_tlvs(d) = p
  BY <1>8, <1>9 DEF parse_tlvs, WithinCapacity
<1>11. QED
  BY <1>10 DEF p

\* Bytes whose block is refused are refused.
LEMMA ParseRefused ==
    ASSUME NEW d \in Seq(Byte), d # <<>>, NEW e \in ParseErrors, TlvAt(d, 0) = Fails(e)
    PROVE  parse_tlvs(d).status # "ok"
<1>1. 0 \in 0..Len(d) /\ 0 # Len(d)
  OBVIOUS
<1>2. e # "ok" /\ Fails(e).status = e
  BY DEF Fails, ParseErrors
<1>3. ParseFrom(d, 0) = Then(Fails(e), RestOf(d))
  BY <1>1, ParseUnfold
<1>4. Then(Fails(e), RestOf(d)) = Fails(e)
  BY <1>2 DEF Then
<1>5. parse_tlvs(d) = WithinCapacity(Fails(e))
  BY <1>3, <1>4 DEF parse_tlvs
<1>6. QED
  BY <1>2, <1>5 DEF WithinCapacity

\* What the loop does with a block on its own.
LEMMA OneBlockTaken ==
    ASSUME NEW t \in ControlTags \cup ValueTags, NEW v \in Seq(Byte), NEW l,
           LengthOf(l, Len(v))
    PROVE  /\ t \in Byte
           /\ OneBlock(t, l, v) \in Seq(Byte) /\ OneBlock(t, l, v) # <<>>
           /\ TlvAt(OneBlock(t, l, v), 0) = TakeBlock(t, v, Len(OneBlock(t, l, v)))
<1> DEFINE d == OneBlock(t, l, v)
           n == parse_tlv_length(d, 1)
<1>1. t \in Byte
  BY TlvAssumption DEF ControlTags, ValueTags, TLV_LOCK_CONTROL, TLV_MEMORY_CONTROL,
     TLV_NDEF_MESSAGE, TLV_PROPRIETARY, Byte
<1>2. /\ d \in Seq(Byte) /\ Len(l) \in {1, 3} /\ Len(d) = 1 + Len(l) + Len(v) /\ d[1] = t
      /\ Slice(d, 1 + Len(l), Len(v)) = v
  BY <1>1, OneBlockBytes
<1>3. n = [len |-> Len(v), size |-> Len(l)]
  BY <1>1, OneBlockLength
<1>4. n # None /\ n.len = Len(v) /\ n.size = Len(l)
  <2>1. [len |-> Len(v), size |-> Len(l)] \in [len : Nat, size : {1, 3}]
    BY <1>2
  <2>2. None \notin [len : Nat, size : {1, 3}]
    BY TlvAssumption
  <2>3. n # None
    BY Zenon, <1>3, <2>1, <2>2
  <2>4. QED
    BY <1>3, <2>3
<1>5. t # TLV_NULL /\ t # TLV_TERMINATOR
  BY TagsDiffer
<1> HIDE DEF d, n
<1>6. TlvAt(d, 0) = BlockAt(d, t, 1 + Len(l), Len(v))
  <2>1. 0 + 1 = 1 /\ d[0 + 1] = t
    BY <1>2
  <2>2. QED
    BY <1>4, <1>5, <2>1 DEF TlvAt, n
<1>7. Len(v) \in Nat /\ Len(l) \in Nat
  BY <1>2
<1>8. ~(1 + Len(l) + Len(v) > Len(d))
  BY <1>2, <1>7
<1>9. BlockAt(d, t, 1 + Len(l), Len(v)) = TakeBlock(t, v, Len(d))
  BY <1>2, <1>8 DEF BlockAt
<1>10. d # <<>>
  BY <1>2, <1>7
<1>11. QED
  BY <1>1, <1>2, <1>6, <1>9, <1>10 DEF d

\* A block with value bytes, of a length the buffer has room for.
LEMMA ValueParsed ==
    ASSUME NEW t \in ValueTags, NEW v \in Seq(Byte), NEW l, LengthOf(l, Len(v)),
           Len(v) <= DATA_CAPACITY
    PROVE  parse_tlvs(OneBlock(t, l, v)) = [status |-> "ok", tlvs |-> <<Block(t, v)>>]
<1> DEFINE d == OneBlock(t, l, v)
<1>1. d \in Seq(Byte) /\ d # <<>> /\ TlvAt(d, 0) = TakeBlock(t, v, Len(d))
  BY OneBlockTaken
<1>2. t \notin ControlTags /\ t # TLV_LOCK_CONTROL /\ t # TLV_MEMORY_CONTROL
  BY TagsDiffer DEF ControlTags
<1>3. Len(v) \in Nat /\ DATA_CAPACITY \in Nat
  BY TlvAssumption
<1> HIDE DEF d
<1>4. TakeBlock(t, v, Len(d)) = Goes(<<Block(t, v)>>, Len(d))
  BY <1>2, <1>3 DEF TakeBlock
<1>5. QED
  BY <1>1, <1>4, ParseOne DEF d

\* What a block with value bytes was decoded from has a length the buffer has room
\* for, and is kept as it is.
LEMMA ValueDecoded ==
    ASSUME NEW t \in ValueTags, NEW v \in Seq(Byte), NEW l, LengthOf(l, Len(v)),
           parse_tlvs(OneBlock(t, l, v)).status = "ok"
    PROVE  parse_tlvs(OneBlock(t, l, v)) = [status |-> "ok", tlvs |-> <<Block(t, v)>>]
<1> DEFINE d == OneBlock(t, l, v)
<1>1. d \in Seq(Byte) /\ d # <<>> /\ TlvAt(d, 0) = TakeBlock(t, v, Len(d))
  BY OneBlockTaken
<1>2. t \notin ControlTags /\ t # TLV_LOCK_CONTROL /\ t # TLV_MEMORY_CONTROL
  BY TagsDiffer DEF ControlTags
<1>3. Len(v) \in Nat /\ DATA_CAPACITY \in Nat /\ Len(d) \in Nat /\ Len(d) # 0
  BY <1>1, TlvAssumption
<1> HIDE DEF d
<1>4. CASE Len(v) > DATA_CAPACITY
  <2>1. TakeBlock(t, v, Len(d)) = Fails("buffer_full")
    BY <1>2, <1>3, <1>4 DEF TakeBlock
  <2>2. parse_tlvs(d).status # "ok"
    BY <1>1, <2>1, ParseRefused DEF ParseErrors
  <2>3. QED
    BY <2>2 DEF d
<1>5. CASE Len(v) <= DATA_CAPACITY
  BY <1>5, ValueParsed
<1>6. QED
  BY <1>3, <1>4, <1>5

\* A control block is parsed to its value, or malformed.
LEMMA ControlParsed ==
    ASSUME NEW t \in ControlTags, NEW v \in Seq(Byte), Len(v) = 3, NEW l, LengthOf(l, 3)
    PROVE  LET p == parse_tlvs(OneBlock(t, l, v))
               x == IF t = TLV_LOCK_CONTROL THEN LockControlFromBytes(v)
                                            ELSE MemoryControlFromBytes(v)
           IN IF x = None THEN p.status # "ok"
              ELSE p = [status |-> "ok", tlvs |-> <<Block(t, x)>>]
<1> DEFINE d == OneBlock(t, l, v)
           x == IF t = TLV_LOCK_CONTROL THEN LockControlFromBytes(v)
                                        ELSE MemoryControlFromBytes(v)
<1>1. d \in Seq(Byte) /\ d # <<>> /\ TlvAt(d, 0) = TakeBlock(t, v, Len(d))
  BY OneBlockTaken
<1>2. t \notin ValueTags /\ TLV_LOCK_CONTROL # TLV_MEMORY_CONTROL
  BY TagsDiffer
<1>3. TakeBlock(t, v, Len(d)) = ControlBlock(t, x, Len(d))
  BY <1>2 DEF TakeBlock, ControlTags
<1>4. Len(d) \in Nat /\ Len(d) # 0
  BY <1>1
<1> HIDE DEF d, x
<1>5. CASE x = None
  <2>1. TlvAt(d, 0) = Fails("invalid_tlv")
    BY <1>1, <1>3, <1>5 DEF ControlBlock
  <2>2. parse_tlvs(d).status # "ok"
    BY <1>1, <2>1, ParseRefused DEF ParseErrors
  <2>3. QED
    BY <1>5, <2>2 DEF d, x
<1>6. CASE x # None
  <2>1. TlvAt(d, 0) = Goes(<<Block(t, x)>>, Len(d))
    BY <1>1, <1>3, <1>6 DEF ControlBlock
  <2>2. parse_tlvs(d) = [status |-> "ok", tlvs |-> <<Block(t, x)>>]
    BY <1>1, <2>1, ParseOne
  <2>3. QED
    BY <1>6, <2>2 DEF d, x
<1>7. QED
  BY <1>5, <1>6

\* NULL and the Terminator are blocks of one byte.
LEMMA SingleParsed ==
    ASSUME NEW t \in {TLV_NULL, TLV_TERMINATOR}
    PROVE  /\ <<t>> \in Seq(Byte)
           /\ parse_tlvs(<<t>>) = [status |-> "ok", tlvs |-> <<Block(t, <<>>)>>]
<1>1. t \in Byte
  BY TlvAssumption DEF TLV_NULL, TLV_TERMINATOR, Byte
<1>2. <<t>> \in Seq(Byte) /\ <<t>> # <<>> /\ Len(<<t>>) = 1 /\ <<t>>[0 + 1] = t
  BY <1>1
<1>3. TlvAt(<<t>>, 0) = Goes(<<Block(t, <<>>)>>, Len(<<t>>))
  <2>1. 0 + 1 = 1
    OBVIOUS
  <2>2. QED
    BY <1>2, <2>1, TagsDiffer DEF TlvAt, AfterTerminator
<1>4. QED
  BY <1>2, <1>3, ParseOne

\* What to_bytes makes of a block with value bytes (type2/tlv.rs:354-411).
LEMMA ValueEncoded ==
    ASSUME NEW t \in ValueTags, NEW v \in Seq(Byte), to_bytes(Block(t, v)).status = "ok"
    PROVE  /\ to_bytes(Block(t, v)).vec = OneBlock(t, encode_tlv_length(Len(v)), v)
           /\ value_length(Block(t, v)) = Len(v)
           /\ LengthOf(encode_tlv_length(Len(v)), Len(v))
           /\ Len(v) <= DATA_CAPACITY /\ ~(Len(v) > MAX_TLV_LENGTH)
<1> DEFINE b == Block(t, v)
           l == encode_tlv_length(Len(v))
           h == <<t>> \o l
<1>1. b.tag = t /\ b.value = v
  BY DEF Block
<1>2. /\ t \notin ControlTags /\ t # TLV_LOCK_CONTROL /\ t # TLV_MEMORY_CONTROL
      /\ t \notin {TLV_NULL, TLV_TERMINATOR}
  BY TagsDiffer DEF ControlTags
<1>3. Len(v) \in Nat /\ DATA_CAPACITY \in Nat /\ MAX_TLV_LENGTH \in Int
  BY TlvAssumption DEF MAX_TLV_LENGTH
<1> HIDE DEF b
<1>4. value_length(b) = checked_value_length(Len(v))
  BY <1>1, <1>2 DEF value_length
<1>5. value_length(b) # None
  <2>1. value_length(b) = None => to_bytes(b) = [status |-> "out_of_range", vec |-> <<>>]
    BY <1>1, <1>2 DEF to_bytes
  <2>2. to_bytes(b).status = "ok"
    BY DEF b
  <2>3. QED
    BY <2>1, <2>2
<1>6. value_length(b) = Len(v) /\ Len(v) <= MAX_TLV_LENGTH
  BY <1>3, <1>4, <1>5 DEF checked_value_length
<1>7. LengthOf(l, Len(v))
  BY <1>3, <1>6, EncodedLength
<1>8. to_bytes(b) = try_extend(h, v, DATA_CAPACITY)
  BY <1>1, <1>2, <1>5, <1>6 DEF to_bytes
<1>9. Len(h) \in Nat
  <2>1. l \in Seq(Byte)
    BY <1>3, <1>7, LengthFieldIs
  <2> HIDE DEF l
  <2>2. Len(<<t>> \o l) = Len(<<t>>) + Len(l) /\ Len(<<t>>) = 1 /\ Len(l) \in Nat
    BY <2>1
  <2>3. QED
    BY <2>2
<1> HIDE DEF h
<1>10. ~(Len(h) + Len(v) > DATA_CAPACITY) /\ to_bytes(b).vec = h \o v
  <2>1. to_bytes(b).status = "ok"
    BY DEF b
  <2>2. QED
    BY <1>8, <2>1 DEF try_extend
<1>11. Len(v) <= DATA_CAPACITY
  BY <1>3, <1>9, <1>10
<1>12. ~(Len(v) > MAX_TLV_LENGTH)
  BY <1>3, <1>6
<1>13. QED
  BY <1>6, <1>7, <1>10, <1>11, <1>12 DEF b, h, OneBlock

\* What to_bytes makes of a control block, w being the bytes of its value.
LEMMA ControlEncoded ==
    ASSUME NEW t \in ControlTags, NEW x, NEW w \in Seq(Byte), Len(w) = 3,
           w = IF t = TLV_LOCK_CONTROL THEN LockControlToBytes(x) ELSE MemoryControlToBytes(x),
           to_bytes(Block(t, x)).status = "ok"
    PROVE  /\ to_bytes(Block(t, x)).vec = OneBlock(t, <<3>>, w)
           /\ value_length(Block(t, x)) = 3
           /\ LengthOf(<<3>>, 3)
<1> DEFINE b == Block(t, x)
           h == <<t>> \o <<3>>
<1>1. b.tag = t /\ b.value = x
  BY DEF Block
<1>2. /\ t \in {TLV_LOCK_CONTROL, TLV_MEMORY_CONTROL}
      /\ TLV_LOCK_CONTROL # TLV_MEMORY_CONTROL
      /\ t \notin {TLV_NULL, TLV_TERMINATOR} /\ t \notin ValueTags
  BY TagsDiffer DEF ControlTags
<1>3. 3 < LONG_LENGTH /\ LONG_LENGTH \in Int
  BY TlvAssumption DEF LONG_LENGTH
<1>4. encode_tlv_length(3) = <<3>>
  <2>1. ~(3 > MAX_TLV_LENGTH)
    <3>1. BYTE \in Nat /\ BYTE > 6 /\ BYTE * BYTE >= BYTE * 1
      BY TlvAssumption
    <3>2. QED
      BY <3>1 DEF MAX_TLV_LENGTH
  <2>2. QED
    BY <1>3, <2>1 DEF encode_tlv_length, LengthFieldSize
<1> HIDE DEF b
<1>5. value_length(b) = 3
  BY <1>1, <1>2 DEF value_length
<1>6. 3 # None
  BY AddressAssumption
<1>7. (CASE b.tag = TLV_LOCK_CONTROL   -> LockControlToBytes(b.value)
         [] b.tag = TLV_MEMORY_CONTROL -> MemoryControlToBytes(b.value)
         [] OTHER                      -> b.value) = w
  BY <1>1, <1>2
<1>8. to_bytes(b) = try_extend(h, w, DATA_CAPACITY)
  BY <1>1, <1>2, <1>4, <1>5, <1>6, <1>7 DEF to_bytes
<1> HIDE DEF h
<1>9. to_bytes(b).vec = h \o w
  <2>1. to_bytes(b).status = "ok"
    BY DEF b
  <2>2. QED
    BY <1>8, <2>1 DEF try_extend
<1>10. QED
  BY <1>3, <1>5, <1>9 DEF b, h, OneBlock, LengthOf

\* NULL and the Terminator are encoded as their tag.
LEMMA SingleEncoded ==
    ASSUME NEW t \in {TLV_NULL, TLV_TERMINATOR}, to_bytes(Block(t, <<>>)).status = "ok"
    PROVE  to_bytes(Block(t, <<>>)).vec = <<t>>
<1> DEFINE b == Block(t, <<>>)
<1>1. b.tag = t
  BY DEF Block
<1> HIDE DEF b
<1>2. to_bytes(b) = try_extend(<<>>, <<t>>, DATA_CAPACITY)
  BY <1>1 DEF to_bytes, try_push
<1>3. to_bytes(b).vec = <<>> \o <<t>>
  <2>1. to_bytes(b).status = "ok"
    BY DEF b
  <2>2. QED
    BY <1>2, <2>1 DEF try_extend
<1>4. <<>> \o <<t>> = <<t>>
  OBVIOUS
<1>5. QED
  BY <1>3, <1>4 DEF b

\* Every block the parser can return, and every one an application can make, is
\* parsed from the bytes it is encoded as, and those bytes declare their length.
LEMMA BlockSurvives ==
    ASSUME NEW b \in TlvBlocks, to_bytes(b).status = "ok"
    PROVE  LET u == to_bytes(b).vec
               n == parse_tlv_length(u, 1)
           IN /\ parse_tlvs(u) = [status |-> "ok", tlvs |-> <<b>>]
              /\ b.tag \in ControlTags \cup ValueTags =>
                    n.len = value_length(b) /\ Len(u) = 1 + n.size + n.len
<1> DEFINE u == to_bytes(b).vec
           n == parse_tlv_length(u, 1)
<1>1. ASSUME NEW t \in ControlTags \cup ValueTags, NEW l, NEW v \in Seq(Byte),
             LengthOf(l, Len(v)), u = OneBlock(t, l, v)
      PROVE  n.len = Len(v) /\ Len(u) = 1 + n.size + n.len
  <2>1. t \in Byte
    BY <1>1, OneBlockTaken
  <2>2. n = [len |-> Len(v), size |-> Len(l)]
    BY <1>1, <2>1, OneBlockLength
  <2>3. Len(u) = 1 + Len(l) + Len(v)
    BY <1>1, <2>1, OneBlockBytes
  <2>4. QED
    BY <2>2, <2>3
<1> HIDE DEF n
<1>2. CASE \E t \in {TLV_NULL, TLV_TERMINATOR} : b = Block(t, <<>>)
  <2>1. PICK t \in {TLV_NULL, TLV_TERMINATOR} : b = Block(t, <<>>)
    BY <1>2
  <2>2. b.tag = t /\ t \notin ControlTags \cup ValueTags
    BY <2>1, TagsDiffer DEF Block
  <2>3. u = <<t>>
    BY <2>1, SingleEncoded
  <2>4. QED
    BY <2>1, <2>2, <2>3, SingleParsed
<1>3. CASE \E t \in ValueTags, v \in Seq(Byte) : b = Block(t, v)
  <2>1. PICK t \in ValueTags, v \in Seq(Byte) : b = Block(t, v)
    BY <1>3
  <2> DEFINE l == encode_tlv_length(Len(v))
  <2>2. /\ u = OneBlock(t, l, v) /\ value_length(b) = Len(v) /\ LengthOf(l, Len(v))
        /\ Len(v) <= DATA_CAPACITY
    BY <2>1, ValueEncoded
  <2> HIDE DEF l, u
  <2>3. parse_tlvs(u) = [status |-> "ok", tlvs |-> <<b>>]
    BY <2>1, <2>2, ValueParsed
  <2>4. n.len = value_length(b) /\ Len(u) = 1 + n.size + n.len
    BY <1>1, <2>2
  <2>5. QED
    BY <2>3, <2>4 DEF u, n
<1>4. CASE \E v \in Seq(Byte) : /\ Len(v) = 3 /\ LockControlFromBytes(v) # None
                                /\ b = Block(TLV_LOCK_CONTROL, LockControlFromBytes(v))
  <2>1. PICK v \in Seq(Byte) : /\ Len(v) = 3 /\ LockControlFromBytes(v) # None
                               /\ b = Block(TLV_LOCK_CONTROL, LockControlFromBytes(v))
    BY <1>4
  <2> DEFINE t == TLV_LOCK_CONTROL
             x == LockControlFromBytes(v)
  <2>2. t \in ControlTags /\ LockControlToBytes(x) = v
    BY <2>1, LockSurvives DEF ControlTags
  <2> HIDE DEF x
  <2>3. u = OneBlock(t, <<3>>, v) /\ value_length(b) = 3 /\ LengthOf(<<3>>, 3)
    BY <2>1, <2>2, ControlEncoded DEF x
  <2> HIDE DEF u
  <2>4. parse_tlvs(u) = [status |-> "ok", tlvs |-> <<b>>]
    BY <2>1, <2>2, <2>3, ControlParsed DEF x
  <2>5. n.len = value_length(b) /\ Len(u) = 1 + n.size + n.len
    BY <1>1, <2>1, <2>2, <2>3
  <2>6. QED
    BY <2>4, <2>5 DEF u, n
<1>5. CASE \E v \in Seq(Byte) : /\ Len(v) = 3 /\ MemoryControlFromBytes(v) # None
                                /\ b = Block(TLV_MEMORY_CONTROL, MemoryControlFromBytes(v))
  <2>1. PICK v \in Seq(Byte) : /\ Len(v) = 3 /\ MemoryControlFromBytes(v) # None
                               /\ b = Block(TLV_MEMORY_CONTROL, MemoryControlFromBytes(v))
    BY <1>5
  <2> DEFINE t == TLV_MEMORY_CONTROL
             x == MemoryControlFromBytes(v)
             w == MemoryControlToBytes(x)
  <2>2. t \in ControlTags /\ t # TLV_LOCK_CONTROL
    BY TagsDiffer DEF ControlTags
  <2>3. w \in Seq(Byte) /\ Len(w) = 3 /\ MemoryControlFromBytes(w) = x /\ x # None
    BY <2>1, MemorySurvives
  <2> HIDE DEF x, w
  <2>4. u = OneBlock(t, <<3>>, w) /\ value_length(b) = 3 /\ LengthOf(<<3>>, 3)
    BY <2>1, <2>2, <2>3, ControlEncoded DEF x, w
  <2> HIDE DEF u
  <2>5. parse_tlvs(u) = [status |-> "ok", tlvs |-> <<b>>]
    BY <2>1, <2>2, <2>3, <2>4, ControlParsed DEF x
  <2>6. n.len = value_length(b) /\ Len(u) = 1 + n.size + n.len
    BY <1>1, <2>2, <2>3, <2>4
  <2>7. QED
    BY <2>5, <2>6 DEF u, n
<1>6. QED
  BY <1>2, <1>3, <1>4, <1>5 DEF TlvBlocks, n

-----------------------------------------------------------------------------
(* The bytes that are decoded. *)

\* The value of an input is a byte string of the length it stands for.
LEMMA ValueIs ==
    ASSUME NEW n \in Nat
    PROVE  Value(n) \in Seq(Byte) /\ Len(Value(n)) = n
<1>1. BYTE \in Nat \ {0} /\ Byte = 0..(BYTE - 1)
  BY TlvAssumption DEF Byte
<1>2. \A i \in 1..n : i % BYTE \in Byte
  BY <1>1
<1>3. QED
  BY <1>2 DEF Value

\* An input is a single byte, or a block with its length in either format.
LEMMA TlvInputIs ==
    ASSUME NEW d \in TlvInputs
    PROVE  \/ \E t \in {TLV_NULL, TLV_TERMINATOR} : d = <<t>>
           \/ \E t \in ControlTags, v \in Seq(Byte) :
                 Len(v) = 3 /\ LengthOf(<<3>>, 3) /\ d = OneBlock(t, <<3>>, v)
           \/ \E t \in ValueTags, v \in Seq(Byte), l \in Seq(Byte) :
                 LengthOf(l, Len(v)) /\ d = OneBlock(t, l, v)
<1>1. CASE d \in ControlInputs
  <2>1. PICK t \in ControlTags, v \in Byte \X Byte \X Byte : d = <<t, 3>> \o v
    <3> DEFINE F(t, v) == <<t, 3>> \o v
               T == Byte \X Byte \X Byte
    <3>1. ControlInputs = {F(t, v) : t \in ControlTags, v \in T}
      BY DEF ControlInputs
    <3> HIDE DEF F, T
    <3>2. \E t \in ControlTags, v \in T : d = F(t, v)
      BY <1>1, <3>1
    <3>3. QED
      BY <3>2 DEF F, T
  <2> DEFINE x == v[1]
             y == v[2]
             z == v[3]
  <2>0. v = <<x, y, z>> /\ x \in Byte /\ y \in Byte /\ z \in Byte
    BY <2>1
  <2> HIDE DEF x, y, z
  <2>2. <<x, y, z>> \in Seq(Byte) /\ Len(<<x, y, z>>) = 3
    BY <2>0
  <2>3. <<t, 3>> \o <<x, y, z>> = OneBlock(t, <<3>>, <<x, y, z>>)
    BY DEF OneBlock
  <2>4. LengthOf(<<3>>, 3)
    BY TlvAssumption DEF LengthOf, LONG_LENGTH
  <2>5. QED
    BY <2>0, <2>1, <2>2, <2>3, <2>4
<1>2. CASE \E n \in {m \in Lengths : m < BYTE * BYTE} : d \in ValueInputs(n)
  <2>1. PICK n \in Lengths : n < BYTE * BYTE /\ d \in ValueInputs(n)
    BY <1>2
  <2>2. n \in Nat
    BY <2>1, CodecAssumption
  <2>3. Value(n) \in Seq(Byte) /\ Len(Value(n)) = n
    BY <2>2, ValueIs
  <2>4. PICK t \in ValueTags, l \in {<<n>>, LongForm(n)} :
                d = <<t>> \o l \o Value(n) /\ LengthOf(l, n)
    <3> DEFINE forms == IF n < LONG_LENGTH THEN {<<n>>, LongForm(n)} ELSE {LongForm(n)}
    <3>1. PICK t \in ValueTags, l \in forms : d = <<t>> \o l \o Value(n)
      <4> DEFINE F(t, l) == <<t>> \o l \o Value(n)
      <4>1. ValueInputs(n) = {F(t, l) : t \in ValueTags, l \in forms}
        BY DEF ValueInputs
      <4> HIDE DEF F, forms
      <4>2. \E t \in ValueTags, l \in forms : d = F(t, l)
        BY <2>1, <4>1
      <4>3. QED
        BY <4>2 DEF F
    <3>2. l \in {<<n>>, LongForm(n)} /\ LengthOf(l, n)
      BY <2>1, <3>1 DEF LengthOf
    <3>3. QED
      BY <3>1, <3>2
  <2>5. l \in Seq(Byte)
    BY <2>2, <2>4, LengthFieldIs
  <2>6. QED
    BY <2>3, <2>4, <2>5 DEF OneBlock
<1>3. QED
  BY <1>1, <1>2 DEF TlvInputs

\* The five bytes of a control block.
LEMMA ControlBytes ==
    ASSUME NEW t \in ControlTags, NEW y \in Seq(Byte), Len(y) = 3
    PROVE  LET z == OneBlock(t, <<3>>, y)
           IN SubSeq(z, 1, 4) = <<t, 3, y[1], y[2]>> /\ z[5] = y[3]
<1> DEFINE l == <<3>>
           z == OneBlock(t, l, y)
<1>0. Len(l) = 1 /\ l[1] = 3
  OBVIOUS
<1>1. LengthOf(l, Len(y))
  BY TlvAssumption DEF LengthOf, LONG_LENGTH
<1> HIDE DEF l
<1>2. t \in Byte
  BY <1>1, OneBlockTaken
<1>3. /\ z \in Seq(Byte) /\ Len(z) = 1 + Len(l) + Len(y)
      /\ z[1] = t /\ z[2] = l[1] /\ Slice(z, 1 + Len(l), Len(y)) = y
  <2>1. ASSUME NEW w \in Seq(Byte), LengthOf(l, Len(w))
        PROVE  LET x == OneBlock(t, l, w)
               IN /\ x \in Seq(Byte) /\ Len(x) = 1 + Len(l) + Len(w)
                  /\ x[1] = t /\ x[2] = l[1] /\ Slice(x, 1 + Len(l), Len(w)) = w
    BY <1>2, <2>1, OneBlockBytes
  <2>2. QED
    BY <1>1, <2>1
<1> HIDE DEF z
<1>4. 1 + 1 = 2 /\ 1 + 1 + 3 = 5 /\ 5 >= 4
  OBVIOUS
<1>5. Len(z) = 5 /\ Len(z) >= 4 /\ z[2] = 3 /\ Slice(z, 2, 3) = y
  BY Zenon, <1>0, <1>3, <1>4
<1>6. z[3] = y[1] /\ z[4] = y[2] /\ z[5] = y[3]
  BY <1>3, <1>5 DEF Slice
<1>7. SubSeq(z, 1, 4) = <<z[1], z[2], z[3], z[4]>>
  BY <1>3, <1>5, ShortStrings
<1>8. QED
  BY <1>3, <1>5, <1>6, <1>7 DEF z, l

\* What a block is decoded from survives its encoding, but for what the decoder does
\* not keep.
LEMMA TlvBytesSurvive ==
    ASSUME NEW d \in TlvInputs, parse_tlvs(d).status = "ok",
           NEW b, b = parse_tlvs(d).tlvs[1], to_bytes(b).status = "ok"
    PROVE  LET u == to_bytes(b).vec
           IN /\ b \in TlvBlocks
              /\ \/ u = d
                 \/ /\ b.tag \in ValueTags
                    /\ d[2] = LONG_LENGTH /\ Len(b.value) < LONG_LENGTH
                 \/ /\ b.tag = TLV_MEMORY_CONTROL
                    /\ SubSeq(u, 1, 4) = SubSeq(d, 1, 4) /\ u[5] = d[5] % NIBBLE
<1> DEFINE u == to_bytes(b).vec
<1>0. \A x : <<x>>[1] = x
  OBVIOUS
<1>1. CASE \E t \in {TLV_NULL, TLV_TERMINATOR} : d = <<t>>
  <2>1. PICK t \in {TLV_NULL, TLV_TERMINATOR} : d = <<t>>
    BY <1>1
  <2>2. b = Block(t, <<>>)
    BY <1>0, <2>1, SingleParsed
  <2>3. u = d
    BY <2>1, <2>2, SingleEncoded
  <2>4. QED
    BY <2>2, <2>3 DEF TlvBlocks
<1>2. CASE \E t \in ControlTags, v \in Seq(Byte) :
              Len(v) = 3 /\ LengthOf(<<3>>, 3) /\ d = OneBlock(t, <<3>>, v)
  <2>1. PICK t \in ControlTags, v \in Seq(Byte) :
                Len(v) = 3 /\ LengthOf(<<3>>, 3) /\ d = OneBlock(t, <<3>>, v)
    BY <1>2
  <2> DEFINE x == IF t = TLV_LOCK_CONTROL THEN LockControlFromBytes(v)
                                          ELSE MemoryControlFromBytes(v)
  <2>2. x # None /\ parse_tlvs(d) = [status |-> "ok", tlvs |-> <<Block(t, x)>>]
    BY <2>1, ControlParsed
  <2>3. b = Block(t, x)
    BY <1>0, <2>2
  <2>4. CASE t = TLV_LOCK_CONTROL
    <3>1. x # None /\ x = LockControlFromBytes(v)
      BY <2>2, <2>4
    <3>2. LockControlToBytes(x) = v
      BY <2>1, <3>1, LockSurvives
    <3> HIDE DEF x
    <3>3. u = d
      BY <2>1, <2>3, <2>4, <3>2, ControlEncoded
    <3>4. b \in TlvBlocks
      BY <2>1, <2>3, <2>4, <3>1 DEF TlvBlocks
    <3>5. QED
      BY <3>3, <3>4
  <2>5. CASE t # TLV_LOCK_CONTROL
    <3>1. t = TLV_MEMORY_CONTROL /\ b.tag = t
      BY <2>1, <2>3, <2>5 DEF ControlTags, Block
    <3>2. x # None /\ x = MemoryControlFromBytes(v)
      BY <2>2, <2>5
    <3> DEFINE w == MemoryControlToBytes(x)
    <3>3. w = <<v[1], v[2], v[3] % NIBBLE>> /\ w \in Seq(Byte) /\ Len(w) = 3
      BY <2>1, <3>2, MemorySurvives
    <3>4. b \in TlvBlocks
      BY <2>1, <2>3, <3>1, <3>2 DEF TlvBlocks
    <3> HIDE DEF x, w
    <3>5. u = OneBlock(t, <<3>>, w)
      BY <2>1, <2>3, <2>5, <3>3, ControlEncoded DEF w
    <3>6. w[1] = v[1] /\ w[2] = v[2] /\ w[3] = v[3] % NIBBLE
      BY <3>3
    <3>7. SubSeq(u, 1, 4) = SubSeq(d, 1, 4) /\ u[5] = d[5] % NIBBLE
      BY <2>1, <3>3, <3>5, <3>6, ControlBytes
    <3>8. QED
      BY <3>1, <3>4, <3>7
  <2>6. QED
    BY <2>4, <2>5
<1>3. CASE \E t \in ValueTags, v \in Seq(Byte), l \in Seq(Byte) :
              LengthOf(l, Len(v)) /\ d = OneBlock(t, l, v)
  <2>1. PICK t \in ValueTags, v \in Seq(Byte), l \in Seq(Byte) :
                LengthOf(l, Len(v)) /\ d = OneBlock(t, l, v)
    BY <1>3
  <2>2. parse_tlvs(d) = [status |-> "ok", tlvs |-> <<Block(t, v)>>]
    BY <2>1, ValueDecoded
  <2>3. b = Block(t, v) /\ b.tag = t /\ b.value = v /\ b \in TlvBlocks
    BY <1>0, <2>2 DEF Block, TlvBlocks
  <2>4. u = OneBlock(t, encode_tlv_length(Len(v)), v)
    BY <2>3, ValueEncoded
  <2>5. CASE l = encode_tlv_length(Len(v))
    BY <2>1, <2>3, <2>4, <2>5
  <2>6. CASE l # encode_tlv_length(Len(v))
    <3>1. Len(v) < LONG_LENGTH /\ l = LongForm(Len(v))
      BY <2>1, <2>3, <2>6, ValueEncoded
         DEF LengthOf, LongForm, encode_tlv_length, LengthFieldSize
    <3>2. l[1] = LONG_LENGTH
      BY <3>1 DEF LongForm
    <3>3. d[2] = l[1]
      <4>1. t \in Byte
        BY <2>1, OneBlockTaken
      <4>2. QED
        BY <2>1, <4>1, OneBlockBytes
    <3>4. QED
      BY <2>3, <3>1, <3>2, <3>3
  <2>7. QED
    BY <2>5, <2>6
<1>4. QED
  BY <1>1, <1>2, <1>3, TlvInputIs

\* Containers, commands and answers are decoded from byte strings.
LEMMA InputBytes == CcInputs \cup CommandInputs \cup AnswerInputs \subseteq Seq(Byte)
<1>1. /\ BYTE \in Nat /\ BYTE >= 16 /\ Byte = 0..(BYTE - 1)
      /\ NIBBLE \in Byte /\ CC_MAGIC \in Byte
  <2>1. NIBBLE \in Nat /\ NIBBLE >= 4 /\ BYTE = NIBBLE * NIBBLE
    BY TlvAssumption, CcAssumption
  <2>2. NIBBLE * NIBBLE >= 16 /\ NIBBLE < NIBBLE * NIBBLE /\ NIBBLE * NIBBLE \in Nat
    BY <2>1
  <2>3. QED
    BY <2>1, <2>2, CcAssumption DEF Byte
<1>2. \A d \in Seq(Byte) : \A n \in 0..Len(d) : SubSeq(d, 1, n) \in Seq(Byte)
  OBVIOUS
<1>3. ASSUME NEW d \in CcInputs PROVE d \in Seq(Byte)
  <2>1. CASE d \in {<<CC_MAGIC>> \o v : v \in Byte \X Byte \X Byte}
    <3>1. PICK v \in Byte \X Byte \X Byte : d = <<CC_MAGIC>> \o v
      BY <2>1
    <3>2. v[1] \in Byte /\ v[2] \in Byte /\ v[3] \in Byte /\ v = <<v[1], v[2], v[3]>>
      BY <3>1
    <3>3. <<CC_MAGIC>> \in Seq(Byte) /\ <<v[1], v[2], v[3]>> \in Seq(Byte)
      BY <1>1, <3>2
    <3>4. v \in Seq(Byte)
      BY Zenon, <3>2, <3>3
    <3>5. QED
      BY <3>1, <3>3, <3>4
  <2>2. CASE d = <<0, NIBBLE, 1, 0>>
    BY <1>1, <2>2
  <2>3. CASE d \in {SubSeq(<<CC_MAGIC, NIBBLE, 1, 0, 7>>, 1, n) : n \in 0..5}
    <3> DEFINE x == <<CC_MAGIC, NIBBLE, 1, 0, 7>>
    <3>1. x \in Seq(Byte) /\ Len(x) = 5
      BY <1>1
    <3> HIDE DEF x
    <3>2. PICK n \in 0..5 : d = SubSeq(x, 1, n)
      BY <2>3 DEF x
    <3>3. QED
      BY <1>2, <3>1, <3>2
  <2>4. QED
    BY <2>1, <2>2, <2>3 DEF CcInputs
<1>4. ASSUME NEW d \in CommandInputs PROVE d \in Seq(Byte)
  <2> DEFINE X(c, x) == <<c, x, 1, 2, 3, 4, 5>>
  <2>1. \A c, x \in Byte : X(c, x) \in Seq(Byte) /\ Len(X(c, x)) = 7
    BY <1>1
  <2>2. \E c \in Byte, x \in Byte, n \in 0..7 : d = SubSeq(X(c, x), 1, n)
    <3> DEFINE F(c, x, n) == SubSeq(X(c, x), 1, n)
    <3>1. CommandInputs = {F(c, x, n) : c \in Byte, x \in Byte, n \in 0..7}
      BY DEF CommandInputs
    <3> HIDE DEF F
    <3>2. \E c \in Byte, x \in Byte, n \in 0..7 : d = F(c, x, n)
      BY <1>4, <3>1
    <3>3. QED
      BY <3>2 DEF F
  <2> HIDE DEF X
  <2>3. QED
    BY <1>2, <2>1, <2>2
<1>5. ASSUME NEW d \in AnswerInputs PROVE d \in Seq(Byte)
  <2>1. READ_SIZE \in Nat /\ READ_SIZE - 1 \in Nat
    BY AddressAssumption DEF READ_SIZE
  <2>2. CASE d \in {<<b>> : b \in Byte}
    <3>1. PICK b \in Byte : d = <<b>>
      BY <2>2
    <3>2. <<b>> \in Seq(Byte)
      OBVIOUS
    <3>3. QED
      BY <3>1, <3>2
  <2>3. CASE d \in {Value(n) : n \in {0, 2, READ_SIZE - 1, READ_SIZE, READ_SIZE + 1}}
    <3>1. PICK n \in {0, 2, READ_SIZE - 1, READ_SIZE, READ_SIZE + 1} : d = Value(n)
      BY <2>3
    <3>2. n \in Nat
      BY <2>1, <3>1
    <3>3. QED
      BY <3>1, <3>2, ValueIs
  <2>4. QED
    BY <2>2, <2>3 DEF AnswerInputs
<1>6. QED
  BY <1>3, <1>4, <1>5

-----------------------------------------------------------------------------
(* The specification. *)

\* The bytes are an input of their kind.
Given ==
    \/ kind = "tlv" /\ bytes \in TlvInputs
    \/ kind = "cc" /\ bytes \in CcInputs
    \/ kind = "command" /\ bytes \in CommandInputs
    \/ kind = "answer" /\ bytes \in AnswerInputs /\ asked \in Asked

\* There are no bytes: the application made the block.
Made ==
    /\ kind = "tlv"
    /\ bytes = None
    /\ \E t \in ValueTags, n \in Lengths : decoded = Block(t, Value(n))

\* What has been decoded came from the input, and what has been encoded from that.
CodecInv ==
    /\ pc \in {"bytes", "decoded", "encoded", "refused"}
    /\ pc = "bytes" => Given
    /\ pc \in {"decoded", "encoded"} =>
          Made \/ (Given /\ decoded = Decoded(kind, bytes) /\ decoded # None)
    /\ pc = "encoded" => encoded = Encoded(kind, decoded) /\ encoded # None

\* A step of the decoder or of the encoder keeps it.
LEMMA NextCodecInv == CodecInv /\ [Next]_codecVars => CodecInv'
<1> SUFFICES ASSUME CodecInv, [Next]_codecVars PROVE CodecInv'
  OBVIOUS
<1>1. CASE Decode
  <2>1. Given' /\ decoded' = Decoded(kind, bytes)'
    BY <1>1 DEF Decode, CodecInv, Given, Decoded
  <2>2. QED
    BY <1>1, <2>1 DEF Decode, CodecInv
<1>2. CASE Encode
  <2>1. /\ Made' \/ (Given' /\ decoded' = Decoded(kind, bytes)' /\ (decoded # None)')
        /\ encoded' = Encoded(kind, decoded)'
    BY <1>2 DEF Encode, CodecInv, Given, Made, Decoded, Encoded
  <2>2. QED
    BY <1>2, <2>1 DEF Encode, CodecInv
<1>3. CASE UNCHANGED codecVars
  BY <1>3 DEF codecVars, CodecInv, Given, Made, Decoded, Encoded
<1>4. QED
  BY <1>1, <1>2, <1>3 DEF Next

\* In every state the codec can be in.
LEMMA SpecCodecInv == Spec => []CodecInv
<1>1. Init => CodecInv
  <2>1. SUFFICES ASSUME Init PROVE CodecInv
    OBVIOUS
  <2>2. CASE pc = "bytes"
    BY <2>1, <2>2 DEF Init, CodecInv, Given
  <2>3. CASE pc = "decoded" /\ Made
    BY <2>3 DEF CodecInv
  <2>4. pc = "bytes" \/ (pc = "decoded" /\ Made)
    BY <2>1 DEF Init, Made
  <2>5. QED
    BY <2>2, <2>3, <2>4
<1>2. QED
  BY <1>1, NextCodecInv, PTL DEF Spec

\* What has been encoded as a block is the bytes of a block the parser can return.
LEMMA EncodedBlock ==
    ASSUME CodecInv, pc = "encoded", kind = "tlv"
    PROVE  /\ decoded \in TlvBlocks
           /\ to_bytes(decoded).status = "ok"
           /\ encoded = to_bytes(decoded).vec
<1>1. to_bytes(decoded).status = "ok" /\ encoded = to_bytes(decoded).vec
  BY DEF CodecInv, Encoded
<1>2. CASE Made
  <2>1. PICK t \in ValueTags, n \in Lengths : decoded = Block(t, Value(n))
    BY <1>2 DEF Made
  <2>2. n \in Nat
    BY <2>1, CodecAssumption
  <2>3. Value(n) \in Seq(Byte)
    BY <2>2, ValueIs
  <2>4. QED
    BY <1>1, <2>1, <2>3 DEF TlvBlocks
<1>3. CASE Given /\ decoded = Decoded(kind, bytes) /\ decoded # None
  <2>1. /\ bytes \in TlvInputs /\ parse_tlvs(bytes).status = "ok"
        /\ decoded = parse_tlvs(bytes).tlvs[1]
    BY <1>3 DEF Given, Decoded
  <2>2. QED
    BY <1>1, <2>1, TlvBytesSurvive
<1>4. QED
  BY <1>2, <1>3 DEF CodecInv

\* What anything else was decoded from.
LEMMA EncodedOther ==
    ASSUME CodecInv, pc = "encoded", kind # "tlv"
    PROVE  /\ bytes \in Seq(Byte)
           /\ encoded = Encoded(kind, decoded) /\ decoded # None
           /\ \/ /\ kind = "cc" /\ CcFromSlice(bytes).status = "ok"
                 /\ decoded = CcFromSlice(bytes)
              \/ /\ kind = "command" /\ ParseCommand(bytes).status = "ok"
                 /\ decoded = ParseCommand(bytes).command
              \/ kind = "answer" /\ asked \in Asked /\ decoded = parse_answer(asked, bytes)
<1>1. /\ Given /\ decoded = Decoded(kind, bytes) /\ decoded # None
      /\ encoded = Encoded(kind, decoded)
  BY DEF CodecInv, Made
<1>2. bytes \in Seq(Byte)
  BY <1>1, InputBytes DEF Given
<1>3. QED
  BY <1>1, <1>2 DEF Given, Decoded

\* Whatever has been encoded is decoded to what it was encoded from, for every size
\* of a byte and of the buffers (DecodedSurvives).
THEOREM DecodingInvertsEncoding == Spec => []DecodedSurvives
<1>1. ASSUME CodecInv, pc = "encoded", kind = "tlv" PROVE Decoded(kind, encoded) = decoded
  <2>1. /\ decoded \in TlvBlocks /\ to_bytes(decoded).status = "ok"
        /\ encoded = to_bytes(decoded).vec
    BY <1>1, EncodedBlock
  <2>2. parse_tlvs(encoded) = [status |-> "ok", tlvs |-> <<decoded>>]
    BY <2>1, BlockSurvives
  <2>3. <<decoded>>[1] = decoded
    OBVIOUS
  <2>4. QED
    BY <1>1, <2>2, <2>3 DEF Decoded
<1>2. ASSUME CodecInv, pc = "encoded", kind # "tlv" PROVE Decoded(kind, encoded) = decoded
  <2>1. /\ bytes \in Seq(Byte) /\ encoded = Encoded(kind, decoded) /\ decoded # None
        /\ \/ /\ kind = "cc" /\ CcFromSlice(bytes).status = "ok"
              /\ decoded = CcFromSlice(bytes)
           \/ /\ kind = "command" /\ ParseCommand(bytes).status = "ok"
              /\ decoded = ParseCommand(bytes).command
           \/ kind = "answer" /\ asked \in Asked /\ decoded = parse_answer(asked, bytes)
    BY <1>2, EncodedOther
  <2>2. CASE kind = "cc"
    <3>1. encoded = CcToBytes(decoded) /\ CcFromSlice(bytes).status = "ok"
          /\ decoded = CcFromSlice(bytes)
      BY <2>1, <2>2 DEF Encoded
    <3>2. CcFromSlice(encoded) = decoded
      BY <2>1, <3>1, ContainerSurvives
    <3>3. QED
      BY <2>2, <3>1, <3>2 DEF Decoded
  <2>3. CASE kind = "command"
    <3>1. /\ encoded = CommandToBytes(decoded) /\ ParseCommand(bytes).status = "ok"
          /\ decoded = ParseCommand(bytes).command
      BY <2>1, <2>3 DEF Encoded
    <3>2. ParseCommand(encoded) = ParseCommand(bytes)
      BY <2>1, <3>1, CommandSurvives
    <3>3. QED
      BY <2>3, <3>1, <3>2 DEF Decoded
  <2>4. CASE kind = "answer"
    <3>1. /\ encoded = AnswerFrame(decoded) /\ asked \in Asked
          /\ decoded = parse_answer(asked, bytes)
      BY <2>1, <2>4 DEF Encoded
    <3>2. parse_answer(asked, encoded) = decoded
      BY <2>1, <3>1, AnswerSurvives
    <3>3. QED
      BY <2>4, <3>2 DEF Decoded
  <2>5. QED
    BY <2>1, <2>2, <2>3, <2>4
<1>3. CodecInv => DecodedSurvives
  BY <1>1, <1>2 DEF DecodedSurvives
<1>4. QED
  BY <1>3, SpecCodecInv, PTL

\* The bytes something was decoded from come back, but for the bits that mean nothing,
\* for every size of a byte and of the buffers (BytesSurvive).
THEOREM EncodingInvertsDecoding == Spec => []BytesSurvive
<1>1. ASSUME CodecInv, pc = "encoded", bytes # None, kind = "tlv"
      PROVE  \/ encoded = bytes
             \/ /\ decoded.tag \in ValueTags
                /\ bytes[2] = LONG_LENGTH /\ Len(decoded.value) < LONG_LENGTH
             \/ /\ decoded.tag = TLV_MEMORY_CONTROL
                /\ SubSeq(encoded, 1, 4) = SubSeq(bytes, 1, 4)
                /\ encoded[5] = bytes[5] % NIBBLE
  <2>1. to_bytes(decoded).status = "ok" /\ encoded = to_bytes(decoded).vec
    BY <1>1, EncodedBlock
  <2>2. /\ bytes \in TlvInputs /\ parse_tlvs(bytes).status = "ok"
        /\ decoded = parse_tlvs(bytes).tlvs[1]
    BY <1>1 DEF CodecInv, Made, Given, Decoded
  <2>3. QED
    BY <2>1, <2>2, TlvBytesSurvive
<1>2. ASSUME CodecInv, pc = "encoded", bytes # None, kind # "tlv"
      PROVE  \/ kind \in {"cc", "command"} /\ encoded = SubSeq(bytes, 1, Len(encoded))
             \/ /\ kind = "answer"
                /\ encoded = IF decoded.answer \in {"ack", "nack"}
                                 THEN <<bytes[1] % NIBBLE>> ELSE SubSeq(bytes, 1, Len(encoded))
  <2>1. /\ bytes \in Seq(Byte) /\ encoded = Encoded(kind, decoded) /\ decoded # None
        /\ \/ /\ kind = "cc" /\ CcFromSlice(bytes).status = "ok"
              /\ decoded = CcFromSlice(bytes)
           \/ /\ kind = "command" /\ ParseCommand(bytes).status = "ok"
              /\ decoded = ParseCommand(bytes).command
           \/ kind = "answer" /\ asked \in Asked /\ decoded = parse_answer(asked, bytes)
    BY <1>2, EncodedOther
  <2>2. CASE kind = "cc"
    <3>1. encoded = CcToBytes(decoded) /\ CcFromSlice(bytes).status = "ok"
          /\ decoded = CcFromSlice(bytes)
      BY <2>1, <2>2 DEF Encoded
    <3>2. encoded = SubSeq(bytes, 1, 4) /\ Len(encoded) = 4
      BY <2>1, <3>1, ContainerSurvives
    <3>3. QED
      BY <2>2, <3>2
  <2>3. CASE kind = "command"
    <3>1. /\ encoded = CommandToBytes(decoded) /\ ParseCommand(bytes).status = "ok"
          /\ decoded = ParseCommand(bytes).command
      BY <2>1, <2>3 DEF Encoded
    <3>2. encoded = SubSeq(bytes, 1, Len(encoded))
      BY <2>1, <3>1, CommandSurvives
    <3>3. QED
      BY <2>3, <3>2
  <2>4. CASE kind = "answer"
    <3>1. /\ encoded = AnswerFrame(decoded) /\ asked \in Asked
          /\ decoded = parse_answer(asked, bytes)
      BY <2>1, <2>4 DEF Encoded
    <3>2. encoded = IF decoded.answer \in {"ack", "nack"}
                        THEN <<bytes[1] % NIBBLE>> ELSE SubSeq(bytes, 1, Len(encoded))
      BY <2>1, <3>1, AnswerSurvives
    <3>3. QED
      BY <2>4, <3>2
  <2>5. QED
    BY <2>1, <2>2, <2>3, <2>4
<1>3. CodecInv => BytesSurvive
  BY <1>1, <1>2 DEF BytesSurvive
<1>4. QED
  BY <1>3, SpecCodecInv, PTL

\* The length field of an encoded block is true, for every length, every size of a
\* byte and every buffer (LengthDeclared).
THEOREM LengthsAreTrue == Spec => []LengthDeclared
<1>1. ASSUME CodecInv, pc = "encoded", kind = "tlv",
             decoded.tag \in ControlTags \cup ValueTags
      PROVE  LET l == parse_tlv_length(encoded, 1)
             IN l.len = value_length(decoded) /\ Len(encoded) = 1 + l.size + l.len
  <2>1. /\ decoded \in TlvBlocks /\ to_bytes(decoded).status = "ok"
        /\ encoded = to_bytes(decoded).vec
    BY <1>1, EncodedBlock
  <2>2. QED
    BY <1>1, <2>1, BlockSurvives
<1>2. CodecInv => LengthDeclared
  BY <1>1 DEF LengthDeclared
<1>3. QED
  BY <1>2, SpecCodecInv, PTL

=============================================================================
