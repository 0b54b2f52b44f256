----------------------------- MODULE NdefAccess -----------------------------
(***************************************************************************)
(* read_ndef and write_ndef of T2TReader (src/type2/reader.rs), on a tag   *)
(* whose link may fail at any access and whose reader may die at any       *)
(* point.  One step is one byte of the data area read, one page written or *)
(* the parsing between the two, with the access to the tag and the sector  *)
(* selection it needs.                                                     *)
(*                                                                         *)
(* The command layer is taken at its word (T2TReaderProofs): an access     *)
(* that succeeds is made in the sector it was meant for, the cache is      *)
(* coherent, so it is represented by the place of the cached READ alone,   *)
(* and an access that fails returns an error and may or may not have       *)
(* written.                                                                *)
(***************************************************************************)
EXTENDS MemoryLayout, TlvScanner, FiniteSets

CONSTANTS
    READ_BLOCKS,    \* blocks in one READ (4)
    Tags,           \* the tags: their initial bytes, the addresses a message may use,
                    \* and whether all declared areas lie before these
    Messages,       \* the messages the application writes
    MaxCalls,       \* bound: calls the application makes
    Unknown         \* SectorState::Unknown

ASSUME NdefAssumption ==
    /\ READ_BLOCKS \in Nat \ {0}
    /\ BLOCK_SIZE >= 4
    /\ DATA_START_BLOCK > 0
    /\ \A t \in Tags :
          /\ t.bytes \in [Address -> Byte]
          /\ t.free \subseteq Address
          /\ t.plain \in BOOLEAN
    /\ Messages \subseteq Seq(Byte)
    /\ MaxCalls \in Nat
    /\ Unknown \notin 0..MAX_SECTOR
    /\ None \notin Nat \X Nat

VARIABLES
    tag,        \* the tag: never changes
    memory,     \* its bytes, by linear address
    sector,     \* SectorState
    cache,      \* <<sector, block>> of the cached READ, or None
    pc,         \* "idle", or what comes next: "cc", "area" (read_data_area),
                \* "parse", "plan" (of write_ndef), "value", "length"
    call,       \* "none", "read_ndef" or "write_ndef"
    msg,        \* the argument of write_ndef
    cc,         \* the parsed Capability Container
    layout,     \* the layout read_data_area or write_usable_bytes works with
    pass,       \* which read of read_data_area_with_layout this is
    byte_addr,  \* read_data_area: address of the next block
    stream,     \* read_data_area: the bytes so far
    scan,       \* read_data_area: the TLV scanner
    tlvs,       \* write_ndef: the blocks found
    offset,     \* write_ndef: offset of the NDEF TLV
    limit,      \* write_ndef: write_limit_addr
    addr,       \* write_usable_bytes: where to go on
    todo,       \* write_usable_bytes: the bytes not yet written
    ret,        \* what the last call returned
    before,     \* history: what read_ndef would have found when the call began
    written,    \* history: the message of the last write_ndef, if it returned Ok
    calls       \* calls made so far

histVars  == <<before, written>>
readVars  == <<pass, byte_addr, stream, scan>>
writeVars == <<tlvs, offset, limit, addr, todo>>
vars      == <<tag, memory, sector, cache, pc, call, msg, cc, layout, pass, byte_addr,
               stream, scan, tlvs, offset, limit, addr, todo, ret, before, written, calls>>

Reply(s)   == [status |-> s, data |-> <<>>]
ReplyOk(d) == [status |-> "ok", data |-> d]

\* The locals of write_ndef before they are used and after it has returned.
NoWrite ==
    /\ tlvs' = <<>>
    /\ offset' = 0
    /\ limit' = 0
    /\ addr' = 0
    /\ todo' = <<>>

Return(r) ==
    /\ pc' = "idle"
    /\ ret' = r
    /\ cc' = None
    /\ layout' = None
    /\ pass' = 0
    /\ byte_addr' = 0
    /\ stream' = <<>>
    /\ scan' = TlvScanner
    /\ NoWrite

-----------------------------------------------------------------------------
(* Accesses to the tag. *)

BlockData(mem, s, b) ==
    [i \in 0..(BLOCK_SIZE - 1) |-> mem[s * SECTOR_SIZE + b * BLOCK_SIZE + i]]

\* sector_select: a change of sector drops the cache.
Selected_CacheKept(s) == cache
Selected(s) == IF sector = s THEN cache ELSE None

\* The cached READ covers block b: block.wrapping_sub(cb) < 4.
Ahead(c, b)    == (b - c[2]) % BLOCKS_PER_SECTOR
Cached(c, b)   == c # None /\ Ahead(c, b) < READ_BLOCKS

\* The block a hit returns: the tag's READ rolls over at the end of the sector.
CachedData(c, b) == BlockData(memory, c[1], (c[2] + Ahead(c, b)) % BLOCKS_PER_SECTOR)

-----------------------------------------------------------------------------
(* What the bytes of a tag say, without reading them block by block.         *)

FirstNdef(bs) ==
    LET at == {i \in 1..Len(bs) : bs[i].tag = TLV_NDEF_MESSAGE}
    IN IF at = {} THEN None ELSE CHOOSE i \in at : \A j \in at : i <= j

\* The data area without the areas of l, up to each address and whole.
DataUpTo(mem, l) ==
    LET below[i \in 0..(ADDRESS_SPACE_END - DATA_START)] ==
            IF i = 0 THEN <<>>
            ELSE LET d == below[i - 1]
                     a == DATA_START + i - 1
                 IN IF is_skip_area(l, a) \/ Len(d) >= l.data_area_size
                        THEN d ELSE Append(d, mem[a])
    IN below
DataArea(mem, l) == DataUpTo(mem, l)[ADDRESS_SPACE_END - DATA_START]

HasControl(bs) == \E i \in 1..Len(bs) : bs[i].tag \in ControlTags

Message(p) ==
    IF p.status # "ok" THEN Reply(p.status)
    ELSE IF FirstNdef(p.tlvs) = None THEN ReplyOk(<<>>)
    ELSE ReplyOk(p.tlvs[FirstNdef(p.tlvs)].value)

\* The message read_ndef is to find on a tag with content mem.
Held(mem) ==
    LET b     == BlockData(mem, 0, CC_BLOCK)
        c     == ParseCc(<<b[0], b[1], b[2], b[3]>>)
        first == parse_tlvs(DataArea(mem, from_cc_and_tlvs(c, <<>>)))
    IN IF c.status # "ok" THEN Reply(c.status)
       ELSE IF ~is_valid(c) THEN Reply("invalid_magic")
       ELSE IF first.status = "ok" /\ is_dynamic(c) /\ HasControl(first.tlvs)
           THEN Message(parse_tlvs(DataArea(mem, from_cc_and_tlvs(c, first.tlvs))))
       ELSE Message(first)

-----------------------------------------------------------------------------
(* Calls. *)

Begin(op, m) ==
    /\ pc = "idle"
    /\ calls < MaxCalls
    /\ calls' = calls + 1
    /\ pc' = "cc"
    /\ call' = op
    /\ msg' = m
    /\ ret' = Reply("none")
    /\ before' = Held(memory)
    /\ written' = IF op = "write_ndef" THEN None
                  ELSE IF call = "write_ndef" /\ ret.status = "ok" THEN msg
                  ELSE written
    /\ UNCHANGED <<tag, memory, sector, cache, cc, layout, readVars, writeVars>>

read_ndef     == Begin("read_ndef", <<>>)
write_ndef(m) == Begin("write_ndef", m)

\* Between two calls the application selects sector s and reads a block of it or
\* none, with or without success, or starts over with a new reader.
OtherUse(s, c) ==
    /\ pc = "idle"
    /\ calls < MaxCalls
    /\ sector' = s
    /\ cache' = c
    /\ UNCHANGED <<tag, memory, pc, call, msg, cc, layout, readVars, writeVars, ret,
                   histVars, calls>>

\* read_data_area up to its first access.
BeginRead(n, c, l) ==
    /\ pc' = "area"
    /\ pass' = n
    /\ cc' = c
    /\ layout' = l
    /\ byte_addr' = DATA_START
    /\ stream' = <<>>
    /\ scan' = TlvScanner
    /\ NoWrite
    /\ UNCHANGED ret

-----------------------------------------------------------------------------
(* read_cc and read_data_area. *)

Writable_Always(c) == TRUE
Writable(c)        == c.write_access = Granted

\* The checks of read_ndef and write_ndef on the container in block b.
CheckCc(b) ==
    LET c == ParseCc(<<b[0], b[1], b[2], b[3]>>)
    IN IF c.status # "ok" THEN Return(Reply(c.status))
       ELSE IF ~is_valid(c) THEN Return(Reply("invalid_magic"))
       ELSE IF call = "write_ndef" /\ ~Writable(c) THEN Return(Reply("read_only"))
       ELSE BeginRead(1, c, from_cc_and_tlvs(c, <<>>))

\* read_cc, and what its caller does with the container.
ReadCc ==
    /\ pc = "cc"
    /\ sector' = 0
    /\ cache' = <<0, CC_BLOCK>>
    /\ CheckCc(BlockData(memory, 0, CC_BLOCK))
    /\ UNCHANGED <<tag, memory, call, msg, histVars, calls>>

\* The byte at byte_addr ends the data area, goes to the buffer, or is left out.
TakeByte(b) ==
    LET pushed == try_push(stream, b, DATA_CAPACITY)
    IN IF is_skip_area(layout, byte_addr)
       THEN /\ byte_addr' = byte_addr + 1
            /\ UNCHANGED <<pc, stream, scan, cc, layout, pass, writeVars, ret>>
       ELSE IF pushed.status # "ok" THEN Return(Reply(pushed.status))
       ELSE /\ byte_addr' = byte_addr + 1
            /\ stream' = pushed.vec
            /\ IF Terminates(scan, b)
                 THEN pc' = "parse" /\ UNCHANGED scan
                 ELSE scan' = feed(scan, b) /\ UNCHANGED pc
            /\ UNCHANGED <<cc, layout, pass, writeVars, ret>>

\* One byte of the loops of read_data_area; the first byte of a block is where the
\* block is fetched, from the cache or from the tag.
ReadByte ==
    /\ pc = "area"
    /\ Len(stream) < layout.data_area_size
    /\ LET p == address_to_sector_block(byte_addr)
           c == Selected(p[1])
       IN IF p = None
          THEN /\ Return(Reply("out_of_range"))
               /\ UNCHANGED <<sector, cache>>
          ELSE /\ sector' = p[1]
               /\ cache' = IF Cached(c, p[2]) THEN c ELSE <<p[1], p[2]>>
               /\ TakeByte(IF Cached(c, p[2]) THEN CachedData(c, p[2])[p[3]]
                                              ELSE memory[byte_addr])
    /\ UNCHANGED <<tag, memory, call, msg, histVars, calls>>

-----------------------------------------------------------------------------
(* write_ndef between its last READ and its first WRITE. *)

\* The bytes write_ndef counts for a block in front of the NDEF Message TLV, which
\* ends the count, as a Terminator does.
BlockLength(b) ==
    CASE b.tag = TLV_NULL -> 1
      [] b.tag \in ControlTags -> 5
      [] b.tag = TLV_PROPRIETARY -> 1 + LengthFieldSize(Len(b.value)) + Len(b.value)
      [] b.tag \in {TLV_NDEF_MESSAGE, TLV_TERMINATOR} -> 0

\* The bytes of the first i blocks, and of those in front of the NDEF Message TLV.
LengthsUpTo(bs) ==
    LET sum[i \in 0..Len(bs)] == IF i = 0 THEN 0 ELSE sum[i - 1] + BlockLength(bs[i])
    IN sum
NdefOffset(bs) == LengthsUpTo(bs)[FirstNdef(bs) - 1]

\* A length of 0 in the format of the real one.
EmptyLength == IF LengthFieldSize(Len(msg)) = 1 THEN <<0>> ELSE <<LONG_LENGTH, 0, 0>>

\* T, L = 0, the message, a Terminator.
Payload_LengthFirst ==
    <<TLV_NDEF_MESSAGE>> \o encode_tlv_length(Len(msg)) \o msg \o <<TLV_TERMINATOR>>
Payload ==
    <<TLV_NDEF_MESSAGE>> \o EmptyLength \o msg \o <<TLV_TERMINATOR>>

RequiredEnd_NoTerminator(at) == at + 1 + LengthFieldSize(Len(msg)) + Len(msg)
RequiredEnd(at)              == at + 1 + LengthFieldSize(Len(msg)) + Len(msg) + 1

NdefAddress(l, at) == usable_offset_to_address(l, at)

WriteLimit(l) == usable_offset_to_address(l, l.data_area_size - 1)

\* The data area has been read: read_data_area_with_layout reads it again when
\* control blocks of a dynamic tag have turned up, or the caller goes on.
Parse ==
    /\ \/ pc = "parse"
       \/ pc = "area" /\ Len(stream) >= layout.data_area_size
    /\ LET p == parse_tlvs(stream)
       IN IF p.status # "ok" THEN Return(Reply(p.status))
          ELSE IF pass = 1 /\ is_dynamic(cc) /\ HasControl(p.tlvs)
              THEN BeginRead(2, cc, from_cc_and_tlvs(cc, p.tlvs))
          ELSE IF call = "read_ndef" THEN Return(Message(p))
          ELSE /\ pc' = "plan"
               /\ tlvs' = p.tlvs
               /\ layout' = from_cc_and_tlvs(cc, p.tlvs)
               /\ pass' = 0
               /\ byte_addr' = 0
               /\ stream' = <<>>
               /\ scan' = TlvScanner
               /\ UNCHANGED <<cc, offset, limit, addr, todo, ret>>
    /\ UNCHANGED <<tag, memory, sector, cache, call, msg, histVars, calls>>

\* The checks of write_ndef, and what it is going to write where.
Plan ==
    /\ pc = "plan"
    /\ LET at     == NdefOffset(tlvs)
           filled == try_extend(<<>>, Payload, DATA_CAPACITY)
       IN IF Len(msg) > MAX_TLV_LENGTH THEN Return(Reply("out_of_range"))
          ELSE IF FirstNdef(tlvs) = None THEN Return(Reply("invalid_tlv"))
          ELSE IF RequiredEnd(at) > data_area_size(cc) THEN Return(Reply("out_of_range"))
          ELSE IF NdefAddress(layout, at) = None \/ WriteLimit(layout) = None
              THEN Return(Reply("out_of_range"))
          ELSE IF filled.status # "ok" THEN Return(Reply(filled.status))
          ELSE /\ pc' = "value"
               /\ offset' = at
               /\ limit' = WriteLimit(layout) + 1
               /\ addr' = NdefAddress(layout, at)
               /\ todo' = filled.vec
               /\ tlvs' = <<>>
               /\ UNCHANGED <<cc, layout, readVars, ret>>
    /\ UNCHANGED <<tag, memory, sector, cache, call, msg, histVars, calls>>

-----------------------------------------------------------------------------
(* write_usable_bytes: one iteration writes to one block. *)

Place    == address_to_sector_block(addr)
PageBase == addr - Place[3]

\* Fast path: the remaining bytes cover a page without a skipped byte.
WholePage_SkipsIgnored == Place[3] = 0 /\ Len(todo) >= BLOCK_SIZE
WholePage ==
    /\ Place[3] = 0
    /\ Len(todo) >= BLOCK_SIZE
    /\ \A i \in 0..(BLOCK_SIZE - 1) : ~is_skip_area(layout, PageBase + i)

\* The positions of the page open to a byte, how many of them come before i, and
\* the ones the remaining bytes fill.
Open_FromPageStart ==
    IF WholePage THEN 0..(BLOCK_SIZE - 1)
    ELSE {i \in 0..(BLOCK_SIZE - 1) : ~is_skip_area(layout, PageBase + i)}
Open ==
    IF WholePage THEN 0..(BLOCK_SIZE - 1)
    ELSE {i \in Place[3]..(BLOCK_SIZE - 1) : ~is_skip_area(layout, PageBase + i)}
Rank(i) == Cardinality({j \in Open : j < i})
Taken   == {i \in Open : Rank(i) < Len(todo)}

\* There are bytes left to place where the page crosses the limit.
LimitInPage ==
    \E i \in Place[3]..(BLOCK_SIZE - 1) : PageBase + i >= limit /\ Rank(i) < Len(todo)

\* The cache after the READ of the slow path.
CacheAfterRead == IF WholePage THEN Selected(Place[1]) ELSE <<Place[1], Place[2]>>

\* The checks in front of the WRITE of this page hold.
WithinLimit == Place # None /\ addr < limit /\ ~LimitInPage

\* The tag after the WRITE of this page.
PageWritten ==
    [a \in Address |->
        IF a - PageBase \in Taken THEN todo[Rank(a - PageBase) + 1] ELSE memory[a]]

\* The L field, written last.
BeginLength ==
    LET a == usable_offset_to_address(layout, offset + 1)
    IN IF a = None THEN Return(Reply("out_of_range"))
       ELSE /\ pc' = "length"
            /\ addr' = a
            /\ todo' = encode_tlv_length(Len(msg))
            /\ UNCHANGED <<cc, layout, readVars, tlvs, offset, limit, ret>>

NextPage_OnlyIfTouched == IF Taken = {} THEN addr ELSE PageBase + BLOCK_SIZE
NextPage               == PageBase + BLOCK_SIZE

\* The bytes behind this page: more pages, the L field, or the end of the call.
Proceed ==
    LET left == SubSeq(todo, Cardinality(Taken) + 1, Len(todo))
    IN IF left # <<>>
       THEN /\ todo' = left
            /\ addr' = NextPage
            /\ UNCHANGED <<pc, cc, layout, readVars, tlvs, offset, limit, ret>>
       ELSE IF pc = "value" THEN BeginLength
       ELSE Return(ReplyOk(<<>>))

\* One iteration.  Without the room for the page it returns OutOfRange, before or
\* after the READ of the slow path.
WritePage ==
    /\ pc \in {"value", "length"}
    /\ IF WithinLimit
       THEN /\ memory' = PageWritten
            /\ sector' = Place[1]
            /\ cache' = IF Taken = {} THEN CacheAfterRead ELSE None
            /\ Proceed
       ELSE /\ Return(Reply("out_of_range"))
            /\ IF Place = None \/ addr >= limit
                 THEN UNCHANGED <<sector, cache>>
                 ELSE sector' = Place[1] /\ cache' = CacheAfterRead
            /\ UNCHANGED memory
    /\ UNCHANGED <<tag, call, msg, histVars, calls>>

-----------------------------------------------------------------------------
(* Failures. *)

\* The block the next access is for.
NextPlace ==
    CASE pc = "cc" -> <<0, CC_BLOCK, 0>>
      [] pc = "area" -> address_to_sector_block(byte_addr)
      [] pc \in {"value", "length"} -> Place

\* The step that comes next uses the radio.
AccessDue ==
    \/ pc = "cc" /\ Selected(0) # <<0, CC_BLOCK>>
    \/ /\ pc = "area"
       /\ Len(stream) < layout.data_area_size
       /\ byte_addr % BLOCK_SIZE = 0
       /\ NextPlace # None
       /\ ~Cached(Selected(NextPlace[1]), NextPlace[2])
    \/ pc \in {"value", "length"} /\ Place # None /\ addr < limit

\* The failing access was a WRITE that the tag applied, or it changed nothing.
MaybeWritten ==
    \/ UNCHANGED memory
    \/ /\ pc \in {"value", "length"}
       /\ WithinLimit
       /\ memory' = PageWritten

\* The access fails and the call returns the error.  A failure in transport leaves
\* the sector unknown; a refusal and an answer that says nothing do not.
AccessFails ==
    /\ AccessDue
    /\ \/ /\ MaybeWritten
          /\ sector' \in {Unknown, NextPlace[1]}
          /\ cache' = None
       \/ /\ UNCHANGED memory
          /\ sector' = NextPlace[1]
          /\ cache' = Selected(NextPlace[1])
    /\ Return(Reply("link"))
    /\ UNCHANGED <<tag, call, msg, histVars, calls>>

\* The reader dies; a new one starts on the reactivated tag.
Crash ==
    /\ pc # "idle"
    /\ MaybeWritten
    /\ sector' = 0
    /\ cache' = None
    /\ Return(Reply("crashed"))
    /\ UNCHANGED <<tag, call, msg, histVars, calls>>

-----------------------------------------------------------------------------

Init ==
    /\ tag \in Tags
    /\ memory = tag.bytes
    /\ sector = 0
    /\ cache = None
    /\ pc = "idle"
    /\ call = "none"
    /\ msg = <<>>
    /\ cc = None
    /\ layout = None
    /\ pass = 0
    /\ byte_addr = 0
    /\ stream = <<>>
    /\ scan = TlvScanner
    /\ tlvs = <<>>
    /\ offset = 0
    /\ limit = 0
    /\ addr = 0
    /\ todo = <<>>
    /\ ret = Reply("none")
    /\ before = Reply("none")
    /\ written = None
    /\ calls = 0

Application ==
    \/ read_ndef
    \/ \E m \in Messages : write_ndef(m)
    \/ \E s \in 0..MAX_SECTOR \cup {Unknown} :
          \E c \in {None} \cup ({s} \ {Unknown}) \X (0..(BLOCKS_PER_SECTOR - 1)) :
              OtherUse(s, c)

\* The rest of a call.
Progress == ReadCc \/ ReadByte \/ Parse \/ Plan \/ WritePage

Next == Application \/ Progress \/ AccessFails \/ Crash

Spec == Init /\ [][Next]_vars

\* A call goes on to its end: every access returns, and nothing blocks between two.
FairSpec == Spec /\ WF_vars(Progress)

-----------------------------------------------------------------------------
(* Properties. *)

Statuses == {"none", "ok", "invalid_magic", "unsupported_version", "read_only",
             "invalid_tlv", "buffer_full", "out_of_range", "link", "crashed"}

TypeOK ==
    /\ memory \in [Address -> Byte]
    /\ sector \in 0..MAX_SECTOR \cup {Unknown}
    /\ cache = None \/ cache \in (0..MAX_SECTOR) \X (0..(BLOCKS_PER_SECTOR - 1))
    /\ pc \in {"idle", "cc", "area", "parse", "plan", "value", "length"}
    /\ Len(stream) <= DATA_CAPACITY
    /\ addr \in Nat /\ byte_addr \in Nat /\ limit \in Nat /\ offset \in Nat
    /\ ret.status \in Statuses

\* Only the bytes from the NDEF Message TLV to the end of the data area, without
\* the lock and reserved areas the tag declares, are ever written: neither the
\* header, the Capability Container, the control blocks in front of the message
\* nor the declared areas change, whatever is written and wherever it fails
\* (reader.rs:508-520, 570-578).
OnlyFreeBytesChange ==
    \A a \in Address \ tag.free : memory[a] = tag.bytes[a]

\* A WRITE changes bytes of the new TLV alone: each is one that usable_offset_to_address
\* gives for an offset between its T field and its Terminator, never one of an area
\* the layout declares, on the fast path and on the slow one (reader.rs:566-640).
WritesItsTlv ==
    [][\A a \in Address : memory'[a] # memory[a] =>
          \E k \in offset..(RequiredEnd(offset) - 1) :
              a = usable_offset_to_address(layout, k)]_vars

\* The byte at offset k of the layout write_ndef works with.
ByteAt(mem, k) == mem[usable_offset_to_address(layout, k)]

\* The message and the Terminator are behind the L field.
MessageInPlace(mem) ==
    \A i \in 1..(Len(msg) + 1) :
        ByteAt(mem, offset + LengthFieldSize(Len(msg)) + i) = (msg \o <<TLV_TERMINATOR>>)[i]

\* The order of write_ndef, in every WRITE it makes, answered or not: the message is
\* only touched when L is 0 afterwards, and a byte of L only becomes 0, or a byte of
\* the real length once the whole message and its Terminator are on the tag, however
\* many pages, areas and sectors lie between (reader.rs:532-533, 554-555).  The places
\* are those of write_ndef; on a static tag with declared areas read_ndef looks
\* elsewhere (RoundTrip).
LengthWrittenLast ==
    [][memory' # memory =>
        LET L == LengthFieldSize(Len(msg))
        IN /\ \/ \A k \in (offset + L + 1)..(RequiredEnd(offset) - 1) :
                    ByteAt(memory', k) = ByteAt(memory, k)
              \/ \A i \in 1..L : ByteAt(memory', offset + i) = EmptyLength[i]
           /\ \A i \in 1..L :
                \/ ByteAt(memory', offset + i) \in {ByteAt(memory, offset + i), EmptyLength[i]}
                \/ /\ MessageInPlace(memory)
                   /\ ByteAt(memory', offset + i) = encode_tlv_length(Len(msg))[i]]_vars

\* Once write_ndef has begun to write, the capacity is proved: it is never
\* refused halfway by the limit of write_usable_bytes or by an address that does
\* not exist (reader.rs:491-496, 522-525).
NeverRefusedHalfway ==
    [][(pc = "value" \/ pc = "length") /\ pc' = "idle"
          => ret'.status \in {"ok", "link", "crashed"}]_vars

\* write_ndef writes only to a tag that is INITIALIZED or READ/WRITE, in the words
\* of tag_state for the message it holds (reader.rs:427; cc.rs:59-72): never to one
\* that is READ-ONLY, or whose access conditions are reserved or proprietary.
WritesOnlyWritable ==
    pc \in {"value", "length"} =>
        tag_state(cc, Len(before.data)) \in {"initialized", "read_write"}

\* read_ndef that succeeds returns the message the tag holds, from whatever sector
\* and cache it started, in one pass or two (reader.rs:404-422).
ReadsWhatIsHeld ==
    pc = "idle" /\ call = "read_ndef" /\ ret.status = "ok" => ret = Held(memory)

\* What write_ndef has written, read_ndef returns, whatever sector and cache the
\* calls in between leave behind (reader.rs:404-435; the buffers included).
RoundTrip ==
    /\ pc = "idle"
    /\ call = "read_ndef"
    /\ written # None
    /\ ret.status \notin {"link", "crashed"}
    => ret = ReplyOk(written)

\* This holds on the tags whose declared areas lie in front of the NDEF TLV, for
\* messages that fit the buffer behind what precedes them (up to 18 bytes here; the
\* run ndef_overfull has longer ones).
RoundTripPlain == tag.plain => RoundTrip

\* Wherever write_ndef stops, the tag holds the old message, the new one, an empty
\* one or none that can be read, never part of one or a mixture of two
\* (reader.rs:532-533, 554-555).  Tags with areas behind the NDEF TLV are left out:
\* what is read from them differs from what was written in any case.
NeverTorn ==
    tag.plain /\ call = "write_ndef" /\ pc \in {"value", "length", "idle"} =>
        LET h == Held(memory)
        IN h.status = "ok" => h.data \in {before.data, <<>>, msg}

\* This holds for messages with a one-byte length.
NeverTornShort == LengthFieldSize(Len(msg)) = 1 => NeverTorn

\* Wherever write_ndef stops, a tag that could be read can be read
\* (reader.rs:532-533: "L is initially 0 for crash safety").
StaysReadable ==
    call = "write_ndef" /\ before.status = "ok" => Held(memory).status = "ok"

\* Every call returns, on every tag, however the link behaves: the loops advance by
\* a block in every iteration, the address space ends, and the retries of an access
\* are bounded (reader.rs:146, 306, 594).
CallsReturn == pc # "idle" ~> pc = "idle"

=============================================================================
