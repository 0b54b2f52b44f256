-------------------------------- MODULE Tlv --------------------------------
(***************************************************************************)
(* TLV blocks of the data area: the length field shared by all tag types   *)
(* (src/tlv.rs) and the blocks of a Type 2 Tag (src/type2/tlv.rs).         *)
(*                                                                         *)
(* A byte is a number below BYTE (256) and a nibble one below NIBBLE (16). *)
(* The special byte values are counted from the top, as 0xFF, 0xFE and     *)
(* 0xFD are, so that lengths of both formats fit a small instance.  Byte   *)
(* strings are sequences and offsets count from 0, as in the code.         *)
(***************************************************************************)
EXTENDS AddressSpace, Buffers

CONSTANTS
    BYTE,          \* 256
    NIBBLE,        \* 16
    TLV_CAPACITY,  \* TLV blocks parse_tlvs can return (4 without alloc)
    DATA_CAPACITY  \* bytes a DataVec can hold (1024 without alloc)

ASSUME TlvAssumption ==
    /\ NIBBLE \in Nat \ {0}
    /\ BYTE = NIBBLE * NIBBLE
    /\ BYTE > 6
    /\ TLV_CAPACITY \in Nat
    /\ DATA_CAPACITY \in Nat
    /\ None \notin [len : Nat, size : {1, 3}]

Byte == 0..(BYTE - 1)

TLV_NULL           == 0
TLV_LOCK_CONTROL   == 1
TLV_MEMORY_CONTROL == 2
TLV_NDEF_MESSAGE   == 3
TLV_PROPRIETARY    == BYTE - 3
TLV_TERMINATOR     == BYTE - 2
LONG_LENGTH        == BYTE - 1       \* 0xFF announces a length of two bytes
MAX_TLV_LENGTH     == BYTE * BYTE - 2

\* Bytes o .. o+n-1 of d.
Slice(d, o, n) == SubSeq(d, o + 1, o + n)

-----------------------------------------------------------------------------
(* The length field. *)

parse_tlv_length(d, o) ==
    IF o >= Len(d) THEN None
    ELSE IF d[o + 1] < LONG_LENGTH THEN [len |-> d[o + 1], size |-> 1]
    ELSE IF o + 3 > Len(d) THEN None
    ELSE [len |-> d[o + 2] * BYTE + d[o + 3], size |-> 3]

LengthFieldSize_OffByOne(n)   == IF n <= LONG_LENGTH THEN 1 ELSE 3
LengthFieldSize(n)            == IF n < LONG_LENGTH THEN 1 ELSE 3

\* The bytes of a length, or None for the reserved one.
encode_tlv_length(n) ==
    IF n > MAX_TLV_LENGTH THEN None
    ELSE IF LengthFieldSize(n) = 1 THEN <<n>>
    ELSE <<LONG_LENGTH, n \div BYTE, n % BYTE>>

\* The length of n bytes of value, or OutOfRange.
checked_value_length_Truncated(n) == n % (BYTE * BYTE)
checked_value_length(n)           == IF n > MAX_TLV_LENGTH THEN None ELSE n

-----------------------------------------------------------------------------
(* Lock Control and Memory Control values. *)

\* The byte address a position byte and a page-size exponent describe.
byte_address(v) == v.page_addr * 2^v.bytes_per_page + v.byte_offset

lock_byte_count(v) == (v.size_in_bits + 7) \div 8

check_area_in_address_space_EndOpen(start, size) == start < ADDRESS_SPACE_END
check_area_in_address_space(start, size) ==
    start < ADDRESS_SPACE_END /\ start + size <= ADDRESS_SPACE_END

\* A size byte of 0 stands for the largest size.
SizeFromByte(b) == IF b = 0 THEN BYTE ELSE b
SizeToByte(n)   == IF n = BYTE THEN 0 ELSE n % BYTE

\* The byte with upper nibble h and lower nibble l, cut to four bits each.
NibblesToByte(h, l) == (h % NIBBLE) * NIBBLE + (l % NIBBLE)

LockControlFromBytes(b) ==
    LET v == [page_addr            |-> b[1] \div NIBBLE,
              byte_offset          |-> b[1] % NIBBLE,
              size_in_bits         |-> SizeFromByte(b[2]),
              bytes_per_page       |-> b[3] % NIBBLE,
              bytes_locked_per_bit |-> b[3] \div NIBBLE]
    IN IF /\ v.bytes_per_page # 0
          /\ v.bytes_locked_per_bit # 0
          /\ check_area_in_address_space(byte_address(v), lock_byte_count(v))
       THEN v ELSE None

LockControlToBytes(v) ==
    <<NibblesToByte(v.page_addr, v.byte_offset), SizeToByte(v.size_in_bits),
      NibblesToByte(v.bytes_locked_per_bit, v.bytes_per_page)>>

MemoryControlFromBytes(b) ==
    LET v == [page_addr      |-> b[1] \div NIBBLE,
              byte_offset    |-> b[1] % NIBBLE,
              size_in_bytes  |-> SizeFromByte(b[2]),
              bytes_per_page |-> b[3] % NIBBLE]
    IN IF /\ v.bytes_per_page # 0
          /\ check_area_in_address_space(byte_address(v), v.size_in_bytes)
       THEN v ELSE None

MemoryControlToBytes(v) ==
    <<NibblesToByte(v.page_addr, v.byte_offset), SizeToByte(v.size_in_bytes),
      v.bytes_per_page % NIBBLE>>

-----------------------------------------------------------------------------
(* Blocks. *)

\* A block: NULL and Terminator have an empty value, a control block its parsed
\* value, the others bytes.
Block(t, v) == [tag |-> t, value |-> v]

ControlTags == {TLV_LOCK_CONTROL, TLV_MEMORY_CONTROL}
ValueTags   == {TLV_NDEF_MESSAGE, TLV_PROPRIETARY}

\* What the loop of parse_tlvs does with one block: it pushes the blocks bs (one or
\* none) and goes on at offset n, or it returns an error.
Goes(bs, n) == [status |-> "ok", tlvs |-> bs, next |-> n]
Fails(e)    == [status |-> e, tlvs |-> <<>>]

\* A control block whose value is v, or malformed.
ControlBlock(t, v, n) == IF v = None THEN Fails("invalid_tlv") ELSE Goes(<<Block(t, v)>>, n)

\* A block with value bytes v; one with a reserved tag is skipped.
TakeBlock(t, v, n) ==
    CASE t \in ControlTags /\ Len(v) # 3 -> Fails("invalid_tlv")
      [] t = TLV_LOCK_CONTROL /\ Len(v) = 3 -> ControlBlock(t, LockControlFromBytes(v), n)
      [] t = TLV_MEMORY_CONTROL /\ Len(v) = 3 -> ControlBlock(t, MemoryControlFromBytes(v), n)
      [] t \in ValueTags /\ Len(v) > DATA_CAPACITY -> Fails("buffer_full")
      [] t \in ValueTags /\ Len(v) <= DATA_CAPACITY -> Goes(<<Block(t, v)>>, n)
      [] OTHER -> Goes(<<>>, n)

\* A block with tag t whose value of l bytes begins at offset o.
BlockAt(d, t, o, l) ==
    IF o + l > Len(d) THEN Fails("invalid_tlv") ELSE TakeBlock(t, Slice(d, o, l), o + l)

\* A Terminator at offset o ends the loop.
AfterTerminator_ReadsOn(d, o) == o + 1
AfterTerminator(d, o)         == Len(d)

\* The loop at offset o < Len(d).
TlvAt(d, o) ==
    LET t == d[o + 1]
        l == parse_tlv_length(d, o + 1)
    IN CASE t = TLV_NULL -> Goes(<<Block(t, <<>>)>>, o + 1)
         [] t = TLV_TERMINATOR -> Goes(<<Block(t, <<>>)>>, AfterTerminator(d, o))
         [] OTHER -> IF l = None THEN Fails("invalid_tlv")
                                 ELSE BlockAt(d, t, o + 1 + l.size, l.len)

\* What the loop makes of block t, rest[o] being what it makes of the bytes from o on.
Then(t, rest) ==
    IF t.status = "ok" THEN [rest[t.next] EXCEPT !.tlvs = t.tlvs \o @] ELSE t

\* Every block pushed before the loop ends, and how it ends, from each offset.
RestOf(d) ==
    LET rest[o \in 0..Len(d)] ==
            IF o = Len(d) THEN [status |-> "ok", tlvs |-> <<>>] ELSE Then(TlvAt(d, o), rest)
    IN rest
ParseFrom(d, start) == RestOf(d)[start]

\* The blocks, or the error, which is BufferFull when one push too many comes first.
\* With an error the blocks in front of it are not used.
WithinCapacity(p) ==
    IF Len(p.tlvs) > TLV_CAPACITY THEN [status |-> "buffer_full", tlvs |-> <<>>] ELSE p
parse_tlvs(d) == WithinCapacity(ParseFrom(d, 0))

\* The length of the V field, or OutOfRange.
value_length(b) ==
    CASE b.tag \in {TLV_NULL, TLV_TERMINATOR} -> 0
      [] b.tag \in ControlTags -> 3
      [] b.tag \in ValueTags -> checked_value_length(Len(b.value))

\* The bytes of a block, or the error: OutOfRange for a length that cannot be
\* encoded, which leaves encode_tlv_length nothing to refuse, BufferFull for bytes
\* that do not fit.
to_bytes(b) ==
    LET value == CASE b.tag = TLV_LOCK_CONTROL   -> LockControlToBytes(b.value)
                   [] b.tag = TLV_MEMORY_CONTROL -> MemoryControlToBytes(b.value)
                   [] OTHER                      -> b.value
    IN IF b.tag \in {TLV_NULL, TLV_TERMINATOR} THEN try_push(<<>>, b.tag, DATA_CAPACITY)
       ELSE IF value_length(b) = None THEN [status |-> "out_of_range", vec |-> <<>>]
       ELSE try_extend(<<b.tag>> \o encode_tlv_length(value_length(b)), value, DATA_CAPACITY)

=============================================================================
