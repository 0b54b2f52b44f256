# TLA+ models of nfc-forum-tags

`nfc-forum-tags` is a `no_std` Rust library that reads and writes NFC Forum
Type 2 Tags over a transceiver supplied by the application. This directory holds
TLA+ models of it, TLC configurations that check them on small instances, and
TLAPS proofs of the safety properties of its command layer, its TLV scanner, its
memory layout, its encodings, its NDEF operations and the composition of these
with the command layer.

## 1. The system

| Part | Source | State | Operations |
|---|---|---|---|
| Command layer | `type2/reader.rs:31-268` | tracked sector (`Known(s)` or `Unknown`), one cached READ (block, 16 bytes), `max_retries` | `new`, `set_max_retries`, `read`, `write`, `sector_select`, `transceive_with_retry`, `invalidate_cache`, `mark_tag_state_unknown`, access to the transceiver |
| NDEF operations | `type2/reader.rs:270-642` | locals only: buffer, address, layout, offset, limit | `read_cc`, `read_data_area`, `read_ndef`, `write_ndef`, `write_usable_bytes` |
| TLV scanner | `type2/reader.rs:643-714` | position within a TLV | `feed` |
| TLV blocks | `tlv.rs`, `type2/tlv.rs` | none | length field, control values, `parse_tlvs`, `to_bytes`, `value_length` |
| Capability Container | `type2/cc.rs`, `tag.rs` | none | parse, serialise, size, validity, tag state |
| Memory layout | `type2/memory.rs` | lock and reserved areas | building it, skip test, address of the n-th usable byte, `sector_count`, address conversions |
| Commands and answers | `type2/mod.rs` | none | `to_bytes`, `try_from`, `parse_answer` |
| Transceiver and tag | trait in `type2/mod.rs:80-113` | selected sector, SECTOR SELECT phase, memory | external |
| Buffers | `vec.rs` | a capacity | all-or-nothing push and extend |

The NDEF operations call the command layer (`sector_select`, `read`, `write`),
use its cache directly (`reader.rs:316-336`), run the scanner over the bytes they
read, parse the result, derive a layout from container and TLVs, and write page
by page through the layout. The command layer exchanges one frame at a time with
the tag. Everything is synchronous and single threaded: concurrency is between
the reader and a tag whose state it can only infer.

What is hard here, and what correctness means:

* **A failed exchange is ambiguous.** The frame was lost, or applied with the
  answer lost, or it was an infringement that put the tag back into sector 0.
  Block numbers are relative to the sector, so a retry or a later command that
  trusts the old sector hits the wrong block. The tracked sector must never be
  wrong, and a command must touch only its own block of its own sector.
* **The cache has no sector in its key** and outlives calls; it must always be
  what the tag holds.
* **SECTOR SELECT takes two frames** and its success is silence.
* **write_ndef takes many frames**, and can fail or be interrupted at each: the
  message must not be torn, and nothing but free bytes may change.
* **Two readers of the same bytes**: the scanner decides while reading where the
  data ends, the parser decides again; the reader filters declared areas, the
  writer steps over them. Each pair must agree.
* **Boundaries**: capacity of the data area, change of length format at 255,
  ends of page, sector and address space, buffers of 4 TLVs and 1024 bytes.

`PROJECT.json` lists these hazards line by line with the properties that cover
them.

## 2. Modules

```
Type2Tag ── T2TReader ── T2TReaderStore ··(INSTANCE)·· SectorStore
AddressSpace, Buffers ── Tlv ── TlvScanner ── TlvScan
                          ├── Commands, CapabilityContainer ── Codec
                          └── CapabilityContainer ── MemoryLayout ── LayoutWalk
                                        └── SampleTags
MemoryLayout + TlvScanner ── NdefAccess
NdefAccess + SampleTags ── MCNdefAccess
NdefAccess ── NdefReader ··(INSTANCE)·· T2TReader
NdefReader ── MCNdefReader ··(INSTANCE)·· SampleTags

T2TReaderStore ── T2TReaderProofs
TlvScanner ── TlvProofs
TlvScan + TlvProofs ── TlvScanProofs
Codec + TlvProofs ── CodecProofs
MemoryLayout + TlvProofs ── MemoryLayoutProofs
LayoutWalk + MemoryLayoutProofs ── LayoutWalkProofs
NdefAccess + MemoryLayoutProofs ── NdefAccessProofs
NdefReader + NdefAccessProofs ── NdefReaderProofs ··(INSTANCE)·· T2TReaderProofs
```

A line is EXTENDS. The second group is the proofs (section 4).

**Type2Tag** is the tag and the link (external). Its actions say what a frame
may do to the tag; `TagMisses` and the "applied" actions together are the
outcomes of an exchange that ends in a transceiver error. Past the end of a
sector a READ returns either the sector's first blocks (roll-over) or anything
from the constant `Padding` (`ReadResults`). A NACK in command state leaves the
selected sector alone.

**T2TReader** is the command layer. `sector`, `cache_block`, `cache_data` and
`max_retries` are the fields of the struct. `pc` names the frame about to be
sent, `call` holds the arguments, `intended` and `attempt` are the locals of
`transceive_with_retry`, `ret` is the result of the last call. Each call is one
action up to its first frame, and each answer to a frame is one action that runs
the code up to the next frame or the return. `new` is enabled at any time: it
stands for a reader that died in the middle of a call and starts over on a
reactivated tag. A custom command through `transceiver()` (`RawCommand`) is
followed by the call its documentation asks for, and by no other call before it.
A NACK to a READ is one byte long, so `parse_answer` reports `InvalidLength`
(`ReadTooShort`); the arm for it at `reader.rs:190` cannot be reached.

**SectorStore** is the abstract specification: a store of sectors in which a
call works on the sector the caller was told is selected, or on an arbitrary one
when the caller was told it is unknown. A command may take effect more than
once, as it must be allowed to when answers are lost, but `tries` bounds how
often: `max_retries + 1` times in a known sector, once in an unknown one. That
matters for custom commands that are not idempotent. **T2TReaderStore** states
that T2TReader implements it; the caller's view during a command is the sector
the command was issued in, even while the reader itself has forgotten it.

**AddressSpace, Buffers, Tlv, Commands, CapabilityContainer, MemoryLayout** are
the pure parts as operators. Byte (256), nibble (16), block, sector, the number
of sectors and the capacities of the buffers are parameters; special byte values
are counted from the top of the byte, as 0xFF, 0xFE and 0xFD are. A capacity that
is never reached stands for the `alloc` feature. An area is an interval, and the
lists of areas are sequences, in the order of the control TLVs.
**TlvScanner** is the scanner as a function of state and byte.

**TlvScan, LayoutWalk, Codec** drive these operators through their inputs.
Codec decodes bytes and encodes the result, and also encodes blocks that an
application has made and that no bytes decode to. Two facts about the code show
there: `Command::try_from` has no arm for packet 2 of SECTOR SELECT, whose first
byte is the sector number, so a packet 2 is never decoded (it is encoded, and
its answer is parsed); and the decoder of a length accepts 0xFFFF, which the
encoder refuses as reserved.

**NdefAccess** is `read_ndef` and `write_ndef`. A step is one byte of
`read_data_area` (the first byte of a block is where it is fetched), one
iteration of `write_usable_bytes`, or the parsing and planning between the two.
The command layer is summarised: an access that succeeds is made in its sector,
a cached block is what the tag holds (so the cache is only a place), and one that
fails may or may not have written. `AccessFails` and `Crash` can happen at every
access, and `OtherUse` between two calls leaves any sector and any cache behind.
`Held(memory)` is the message `read_ndef` is to find, computed from the bytes of
the tag directly; `before` and `written` are history variables with the memory at
the start of the call and the messages that have been written.

**NdefReader** composes the two layers. It extends NdefAccess and takes the
command layer and the tag from T2TReader: `pages` is the tag's memory,
`reader_sector` its `sector`, and `frame`, `command` and `answer` are `pc`,
`call` and `ret` there; the other variables have the names they have in the two
modules. An NDEF operation calls `sector_select`, `read` or `write` (`step` says
which), the command layer takes as many exchanges as it takes, and the operation
goes on with the answer. The reader can die between any two exchanges, and the
application can select, read, change `max_retries` or drop the cache between two
NDEF calls. The composition is shown to implement NdefAccess (`ImplementsNdef` is
its `Spec`). Its `memory`, `sector` and `cache` are history in the composition:
`Settles` gives them the values of the tag and the reader when a call of the
command layer is over, so that what happens during a call is visible to NdefAccess
only in its outcome. No guard of the composition reads `sector` or `cache`, and
`memory` is read only to record what was held when a call began.
So the summary above, and the assumption inside it that a cached block
found by `block.wrapping_sub(cb)` (`reader.rs:318`) is the right one, are not
taken on trust. The second one does not hold by itself. With `Padding` set to junk a
READ of block 254 caches junk where the code would look up block 0, but the
walk never asks for block 0 of a sector without having selected that sector,
which drops the cache.

**SampleTags** has the tags and messages, **MCNdefAccess** and **MCNdefReader**
choose among them.

Definitions whose name ends in `_Something` are altered versions of the
definition they precede. No specification uses them; they are substituted to see
that a property notices the change.

## 3. Runs

| Run | Configuration | Properties | Shows |
|---|---|---|---|
| `command_layer` | `T2TReaderStore.cfg` | TypeOK, SectorAgrees, CacheCoherent, ReadFresh, WriteStored, FailureForgets, NoBlindRetry, WritesStayInIntendedSector, ImplementsStore, CallsReturn | sector, cache and retries stay sound whatever the link does; refinement of SectorStore; every call returns |
| `scanner` | `TlvScan.cfg` | TypeOK, EarlyStopHarmless, ScannerAgreesWithParser, ScannerInStep | scanner and parser agree on every stream |
| `layout` | `LayoutWalk.cfg` | TypeOK, NthUsable, DeclaredAreasInside, SectorCountCovers, AddressesConvert | the n-th usable byte and the number of sectors, against their definitions |
| `codec` | `Codec.cfg` | DecodedSurvives, BytesSurvive, LengthDeclared | blocks, containers, commands and answers survive decoding and encoding; no length is truncated |
| `ndef` | `NdefAccess.cfg` | TypeOK, OnlyFreeBytesChange, WritesOnlyWritable, ReadsWhatIsHeld, RoundTripPlain, NeverTornShort, WritesItsTlv, LengthWrittenLast, NeverRefusedHalfway | reading and writing messages with failures and crashes |
| `ndef_over_reader` | `NdefReader.cfg` | AccessesMeantSector, ImplementsNdef, CallsReturn | the NDEF operations over the real command layer, exchange by exchange: refinement of NdefAccess; every access reaches its sector; every call returns |

Runs in which the code contradicts its documentation:

| Run | Property | What happens |
|---|---|---|
| `unknown_sector_used` | SectorKnownBeforeCommand | `read` and `write` are sent with the sector unknown, though it "must be re-established before any sector-relative command" (`reader.rs:45`) |
| `ndef_unreadable` | StaysReadable | after an interrupted `write_ndef` the value bytes behind the empty NDEF TLV are parsed as TLVs; the tag can be neither read nor written ("L is initially 0 for crash safety", `reader.rs:532`) |
| `ndef_torn_long` | NeverTorn | a three-byte length across a page boundary is completed by a byte of the old message: `read_ndef` returns Ok with bytes nobody wrote |
| `ndef_areas` | RoundTrip | with a declared area behind the NDEF TLV, the unfiltered first pass (or the only pass of a static tag) fails or keeps bytes the writer stepped over |
| `ndef_overfull` | RoundTrip | without `alloc`, a message behind other TLVs on a data area larger than the 1024 bytes of a DataVec is written with Ok, and from then on `read_ndef` and `write_ndef` fail with BufferFull |
| `ndef_unlisted` | OnlyFreeBytesChange | the offset of the NDEF TLV leaves out TLVs the parser skipped without reporting, and the write lands on them |

Two smaller disagreements have no run: the comment at `reader.rs:214` says packet
1 of SECTOR SELECT is retried, and it is sent once (as `reader.rs:232-234` says);
`src/tlv.rs:8` gives 0x00FF to 0xFFFE as the range of a three-byte length, and
`parse_tlv_length` accepts every value.

### Bounds

* `T2TReaderStore.cfg`: sector numbers 0 to 2 of which the tag has two (so that
  a selection can be refused), 2 blocks and READs of 2 blocks (so that a READ
  overlaps its neighbour and the end of the sector), 2 contents, at most 2
  retries (so that a retry can itself fail and be retried). There is no bound on
  the number of calls. The proofs remove the bounds for all properties but
  CallsReturn.
* `TlvScan.cfg`: bytes below 9 with nibbles below 3; the alphabet has NULL,
  both control tags, NDEF, a reserved tag, Proprietary, the Terminator and the mark
  of a long length, each of which is a short length too. Seven bytes hold a control TLV and a following TLV, or a long
  length with its value.
* `LayoutWalk.cfg`: two control blocks with positions and sizes on a grid that
  has overlapping, adjacent, nested and disjoint areas, areas in front of the
  data area and up to the end of an address space of three sectors and 42 bytes,
  for a static and a dynamic tag. `n` runs until the address space ends.
* `Codec.cfg`: bytes below 16 with nibbles below 4, so that a one-byte length
  ends below 15 and a three-byte one below 256. All bytes of control values and
  containers, values of the lengths around 15 and around 255 (`Lengths`), a
  buffer of 258 bytes (so that both the reserved length and the full buffer
  refuse a value), frames of 0 to 7 bytes and answers around the 16 of a READ.
* `NdefAccess.cfg`: 16 byte values, sectors of 8 blocks so that the data area
  (from address 16) crosses into sector 1 at address 32, nineteen tags (with
  padding, proprietary TLVs, declared areas in front of, inside and behind the
  message, a page that is skipped as a whole, and malformed or protected ones),
  messages of 0 to 18 bytes around the page, the capacity and the format change,
  buffers of 36 bytes and 4 TLVs, two calls with any other use of the reader in
  between (`MaxCalls`). Two calls let a write be followed by a write over it and
  by a read.
* `NdefReader.cfg`: the same sizes, five tags (both sectors, areas in the way, a
  whole page skipped, an address space that ends, no Terminator), messages of
  both length formats, one retry, and buffers of 64 that are never full and stand
  for `alloc`. One NDEF call, preceded by any sequence of calls of the
  application, which reads block 2 or 7 (`AppBlocks`): the cache then serves the
  head of the data area, or ends past the sector. A second NDEF call would start
  with other blocks in the cache (and begins, like the first, with a selection of
  sector 0 unless that is known to be selected); NdefAccess covers two calls, with
  every sector and every cached block to start from.

CHECK_DEADLOCK is off where a run enumerates inputs or bounds the calls;
T2TReader never stops and is checked for deadlock.

### Fairness

Weak fairness of `Exchange` (T2TReader) and `LinkProgress` (NdefReader): once a call
is made, the code goes on to the next frame, and `transceive` returns. That is
what a synchronous call on a transceiver with a time-out gives. Nothing is
assumed about which answer arrives: the link may fail for ever, and the
application need never make another call.

## 4. Proofs

Everything here holds for every value of the constants that satisfies the
assumptions below: number of sectors,
blocks, block and sector size, size of a byte, contents, tags, messages, retries
and buffer capacities.

| Module | Theorem | Statement |
|---|---|---|
| T2TReaderProofs | SpecIInv | `Spec => []IInv` |
| | TypeCorrect | `Spec => []TypeOK` |
| | SectorStateSound | `Spec => []SectorAgrees` |
| | CacheSound | `Spec => []CacheCoherent` |
| | ReadsAreFresh | `Spec => []ReadFresh` |
| | WritesAreStored | `Spec => []WriteStored` |
| | FailuresForget | `Spec => []FailureForgets` |
| | RetriesAreNeverBlind | `Spec => []NoBlindRetry` |
| | WritesStayPut | `Spec => WritesStayInIntendedSector` |
| | ReaderIsStore | `Spec => ImplementsStore` |
| TlvScanProofs | SpecScanInv | `Spec => []ScanInv` |
| | ScanTypeCorrect | `Spec => []TypeOK` |
| | EarlyStopIsHarmless | `Spec => []EarlyStopHarmless` |
| | ScannerFindsTheTerminator | `Spec => []ScannerAgreesWithParser` |
| | ScannerStaysInStep | `Spec => []ScannerInStep` |
| LayoutWalkProofs | SpecWalkInv | `Spec => []WalkInv` |
| | WalkTypeCorrect | `Spec => []TypeOK` |
| | OffsetsFindTheirByte | `Spec => []NthUsable` |
| | AreasStayInside | `Spec => []DeclaredAreasInside` |
| | SectorsAreEnough | `Spec => []SectorCountCovers` |
| | AddressesHaveAPlace | `Spec => []AddressesConvert` |
| NdefAccessProofs | SpecNdefInv | `Spec => []NdefInv` |
| | NdefTypeCorrect | `Spec => []TypeOK` |
| | WritesNeedAccess | `Spec => []WritesOnlyWritable` |
| | CapacityIsProved | `Spec => NeverRefusedHalfway` |
| | ReadNdefReturnsWhatIsHeld | `Spec => []ReadsWhatIsHeld` |
| | WritesStayInTlv | `Spec => WritesItsTlv` |
| | LengthComesLast | `Spec => LengthWrittenLast` |
| NdefReaderProofs | SpecAllInv | `LinkSpec => []AllInv` |
| | ReaderImplementsNdef | `LinkSpec => ImplementsNdef` |
| | NdefAccessesMeantSector | `LinkSpec => []AccessesMeantSector` |
| CodecProofs | DecodingInvertsEncoding | `Spec => []DecodedSurvives` |
| | EncodingInvertsDecoding | `Spec => []BytesSurvive` |
| | LengthsAreTrue | `Spec => []LengthDeclared` |

TlvProofs and MemoryLayoutProofs hold the lemmas that the others share.

### The command layer

The inductive invariant `IInv` is TypeOK, SectorAgrees, CacheCoherent and
`CallInv`. Neither SectorAgrees nor CacheCoherent is inductive alone: when packet
2 is answered by silence the reader sets its sector to the target, and the cache
becomes observable again, so one needs to know that during a selection the sector
is unknown, the cache empty and the target a legal sector; and a READ may enter
the cache, or a WRITE be charged to `intended`, only because in state
"transceive" the tracked sector is the intended one. That is what `CallInv`
says. The proof has one lemma per group of actions. ReadFresh, WriteStored and
FailureForgets are then proved from IInv for the step in which a call returns,
since every later call replaces `call` and `ret`; NoBlindRetry needs in addition
that the attempt counter stays 0 while `intended` is unknown.

ReaderIsStore is the refinement of SectorStore. The mapping gives the caller's
view (`StoreView`) and the attempts left (`StoreTries`); every action is shown to
be an action of the store or a stutter. Beyond `IInv` it needs `RetryInv`, the
bounds of the attempt counter within a call: without them an attempt could not be
charged to `tries`; and that only a custom command waits for the call its
documentation asks for.

### Recursive definitions

The parser, the walk over usable bytes and the sums over lists are recursive
functions. Two things have to be proved before anything can be said of them: that
a function with the recursive equation exists, and that an induction over its
domain is sound. Induction is stated for a set instead of a predicate
(`SetInduction`, from the well-foundedness of `<`), and a loop's values are built
up round by round (`PrimitiveRecursion`; `RecursionType` gives their type). For
the parser, which steps by a variable amount, and for the walk, whose argument is
a pair, existence is proved directly by induction on how far they have to go
(`RestSolvable`, `WalkSolvable`). So "what a recursive definition computes" is proved
here, in the form of its equation.

### The scanner

`ScanInv` says, while the scanner reads, that some offset `o` of the stream is a
`Boundary`: however the stream goes on, the parser makes some list of blocks
without a Terminator (or an error) of the bytes before `o` and then goes on at
`o`. The scanner either stands at `o` waiting for a tag, or is within the block at
`o`, and its state is what that block still lacks (`Within`: the length, a byte of
it, or the number of value bytes). Once it has stopped, the parser's result no
longer depends on what follows. The quantifier over continuations is what makes
it inductive: the properties speak of the bytes read so far, and say nothing about
a block that is still incomplete. The length of a stream is bounded by a constant
that may have any value.

### The layout

`Layouts` is what `from_cc_and_tlvs` can return: every area is that of an accepted
control block, non-empty and inside the address space, or the only lock area is
the default one of a dynamic tag. `Finds(L, a, n, v)` says that v is usable and has
n usable bytes between a and it. `WalkFinds` shows by induction over the address
that the walk finds it, and None only when there is none; OffsetsFindTheirByte
follows. SectorsAreEnough rests on `PushedUp`: an address with m usable bytes in
front of it is no higher than m plus the sizes of all areas, since the bytes before
it are usable or covered by an area, and each area covers no more than its size,
overlaps or not (`CoveredBounded`).

### The NDEF operations

CapacityIsProved is the claim of the comment at `reader.rs:491-496`: once the
capacity check has passed, no write is refused for lack of room, whatever areas
have to be stepped over. It is not inductive; `NdefInv` adds what is true of a call
at each point: past the container, that it is valid and, for `write_ndef`,
writable, and that the layout is one of `Layouts` with the container's size
(`InCall`); while writing, that exactly `data_area_size` usable bytes lie below the
limit and that between `addr` and the limit there are at least as many as are left
to write (`RoomLeft`). The core is one page: the positions that take a byte are
those that are usable, in order, until the data ends (`TakenIs`), so that what a
page does not take still fits behind it (`RoomBehind`), on the fast path and on the
slow one. The length field is written a second time at offset + 1, which `RoomFrom`
shows to have room. `NdefInv` was model-checked on the `ndef` configuration before
it was proved.

ReadNdefReturnsWhatIsHeld compares `read_ndef`, which fetches block by block in one
pass or two and stops where the scanner tells it to, with `Held`, which parses the
whole data area at once. `HeldInv` says that the cached READ is of the sector the
reader believes in (`CacheHere`) and that the layout is the one of this pass, the
bytes read so far are those of the data area up to `byte_addr`, and the scanner has
followed them (`ReadSoFar`). When the scanner stops early, the parse of what was
read is the parse of the whole area: that is the scanner's theorem (`StopSettles`).
The theorem is about calls that return Ok; that a written message can be read at
all is another matter (`ndef_areas`, `ndef_overfull`).

WritesStayInTlv and LengthComesLast rest on `PlacedInv`. The offset of an address is
the number of usable bytes in front of it (`Before`), the inverse of
`usable_offset_to_address`. `Placed` says that the bytes left to write are the last
ones of what `write_usable_bytes` was called with, that `addr` is where they belong,
and that those before them are in their places; `MessagePlaced` carries that over to
the second call, which writes the length field in front of them. It needs that
consecutive bytes of the data go to consecutive usable bytes in every page, whether
it is written whole or merged with what is there (`TakenIs`).

LengthComesLast is about single WRITEs. One of the first call of `write_usable_bytes`
reaches a byte of the message only when it, or one before it, has put the empty length
in front (`ValueUnderEmptyLength`: pages are written in the order of
addresses, which is the order of offsets, `OffsetOrder`); one of the second call
changes nothing but the length field, and everything behind it is in its place by then
(`MessageFirst`, from `MessagePlaced`). The places are those of `write_ndef`'s own layout. They are
the places where `read_ndef` looks for the message only if both use the same layout,
which is not so on a static tag with declared areas (`ndef_areas`).

### The composition

`AllInv` is the invariant of NdefAccess, `IInv` of the command layer (taken over with
INSTANCE, like its step lemmas) and `LinkInv`, which relates the two. Between two
calls of the command layer the history is what there is (`StepInv`). During one, it
is known which access the call is made for, and what the reader knows afterwards:
after a selection it is in the target's sector with an empty cache or has forgotten
everything (`SelectInv`); after a READ that succeeded the answer is what the tag
holds at the target (`ReadInv`); and at any time of a WRITE, its retries included,
the tag holds either the old page or the whole new one (`WriteInv`), so that a
failure is the `MaybeWritten` of NdefAccess. `CacheBehind` is what makes the lookup
by `block.wrapping_sub(cb)` right: the cached READ of this sector does not begin
behind the block looked for, or that block is too far from the start of the sector
to be one of those that a READ shows past its end. It is kept because the walk only
goes forward, begins at block 4, and drops the cache with every change of sector.
Every step of the composition is then a step of NdefAccess or a stutter
(`LinkStep`). ReaderImplementsNdef carries the theorems of NdefAccess over to the
whole reader.

### Encodings

The lemmas of CodecProofs are about all byte strings and all blocks: a byte is two
nibbles and a long length two bytes, with digits that can be had back (`TwoDigits`,
`Digits`); `BlockSurvives` is for every block the parser can return, with either
length format and every length up to the largest. The theorems state this for the
inputs of Codec; `CodecInv`, which records where `decoded` and `encoded` came from, is
a lemma for them.

### Assumptions

* `TagAssumption` (sector 0 exists, the tag's sectors are selectable, the all-zero
  block and the padding of a READ are contents of a block) and `ReaderAssumption`
  (at least one retry is permitted by the type of `max_retries`, `Unknown` and
  `None` are not sectors, blocks or data). The behaviour of the tag is that of
  Type2Tag; in particular a NACK does not change the sector, and the transceiver
  reports silence only when packet 2 was accepted.
* `AddressAssumption`, `TlvAssumption`, `CcAssumption`: sizes are positive, the data
  area begins in sector 0, a byte is two nibbles and has more than 6 values (the
  tags differ), a nibble has at least 4, the capacities are numbers, and `None` is
  none of the values it stands in for.
* `WalkAssumption`: the enumerated inputs are bytes. `CommandAssumption`: the command
  bytes are different bytes and an ACK is a nibble. `CodecAssumption`: lengths are
  numbers, `parse_tlvs` can return a block (4 in the code), and a WRITE fits a frame
  (6 of 20 bytes); without the last two nothing could be decoded again.
* `NdefAssumption`: a block has at least the 4 bytes of the container and the data
  area has a block in front of it for the container (4 and 3 in the code), tags and
  messages consist of bytes, `Unknown` is not a sector.
* `LinkAssumption`: those of T2TReader for the composition, a page is a block of
  bytes, and a READ returns no more blocks than there are in front of the data area
  (4 and 4): otherwise the roll-over of a READ could show the first block of the data
  area where the walk does not expect it.

### Only model-checked

* Liveness (CallsReturn), which needs fairness.
* OnlyFreeBytesChange, RoundTripPlain and NeverTornShort of NdefAccess. They speak of
  what is known about each sample tag (`free`, `plain`), about which the proofs assume
  nothing, and they do not hold of every tag: the violation runs `ndef_unlisted`,
  `ndef_areas`, `ndef_overfull` and `ndef_torn_long` are about the tags for which they
  fail. What holds of every tag is WritesItsTlv, for the TLV at the offset the code
  has computed and the layout it has built, LengthWrittenLast and ReadsWhatIsHeld.
  RoundTripPlain holds of plain tags as long as the message fits the buffer behind what
  precedes it; the run has messages of up to 18 bytes, `ndef_overfull` a longer one.
  An interrupted write, moreover, can leave value bytes that the next call parses as
  control TLVs, so that an invariant about one call says nothing of the layout of the
  next.

## 5. Not modelled

* `ndef_data`, `bytes_per_lock_bit`, `current_sector`, `sector_state`: accessors
  that return a field or a power of two and change nothing.
* Capacity 8 of the area lists: without `alloc` at most 4 TLVs are parsed, each of
  which adds one area.
* A reader created on a tag that was not reactivated: `new` documents activation
  as the caller's duty, and the model creates one only after it.
* A transceiver that takes a lost packet 2 for the passive ACK: the contract of
  the trait (`mod.rs:107-112`) puts the distinction into the transceiver.
* The formatting of errors, and the crate root (`lib.rs`): declarations only.

## 6. Status

Done: the survey, the command layer with its abstract specification, the TLV,
container, layout, scanner, buffer and frame parts, the NDEF operations, their
composition with the command layer, and the proofs of section 4. Every safety
property that a run checks and that holds of every tag is also proved.

What could be added: the round trip of `write_ndef` and `read_ndef` for tags that
consist of an NDEF Message TLV behind one-byte-length control and proprietary TLVs,
from LengthWrittenLast and ReadsWhatIsHeld; and, once the code takes the offset of
the NDEF TLV from the parser, OnlyFreeBytesChange for every tag.
