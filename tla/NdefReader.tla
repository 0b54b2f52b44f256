----------------------------- MODULE NdefReader -----------------------------
(***************************************************************************)
(* The two halves of T2TReader (src/type2/reader.rs) together: read_ndef   *)
(* and write_ndef of NdefAccess, each access to the tag made by calls of   *)
(* read, write and sector_select of T2TReader, which take as many          *)
(* exchanges over the link as the cache, the failures and the retries make *)
(* them take.  The reader may die between any two exchanges, and between   *)
(* two NDEF calls the application may use the reader itself.               *)
(*                                                                         *)
(* The tag and the reader are those of T2TReader.  The memory, sector and  *)
(* cache of NdefAccess are history here: what the tag and the reader had   *)
(* when the last access of an NDEF operation was over.                     *)
(***************************************************************************)
EXTENDS NdefAccess

CONSTANTS
    TagSectors, Values, Zero, Padding, MaxRetries,  \* as in T2TReader
    AppBlocks       \* bound: the blocks the application itself reads

VARIABLES
    tag_sector, tag_mode, pages,
    reader_sector, cache_block, cache_data, max_retries,
    frame, command, intended, attempt, answer,
    step,        \* the call of the command layer in progress: "none", "select",
                 \* "read" or "write" of an NDEF operation, "app" of the application
    block_data   \* local of read_data_area: the block whose bytes are being taken

R == INSTANCE T2TReader WITH
        memory <- pages, sector <- reader_sector,
        pc <- frame, call <- command, ret <- answer

\* The pages are blocks of bytes, and what a READ shows past the end of a sector is
\* never in front of the data area's first block.
ASSUME LinkAssumption ==
    /\ Values = [0..(BLOCK_SIZE - 1) -> Byte]
    /\ TagSectors \subseteq 0..MAX_SECTOR
    /\ 0 \in TagSectors
    /\ Zero \in Values
    /\ Padding \subseteq Values
    /\ MaxRetries \in Nat \ {0}
    /\ None \notin R!ReadData
    /\ AppBlocks \subseteq R!Block
    /\ READ_BLOCKS <= DATA_START_BLOCK

linkVars   == <<tag_sector, tag_mode, pages, reader_sector, cache_block, cache_data,
                max_retries, frame, command, intended, attempt, answer>>
accessVars == <<memory, sector, cache>>
ndefVars   == <<tag, pc, call, msg, cc, layout, pass, byte_addr, stream, scan,
                tlvs, offset, limit, addr, todo, ret, before, written, calls>>
allVars    == <<tag_sector, tag_mode, pages, reader_sector, cache_block, cache_data,
                max_retries, frame, command, intended, attempt, answer, step, block_data,
                tag, memory, sector, cache, pc, call, msg, cc, layout, pass, byte_addr,
                stream, scan, tlvs, offset, limit, addr, todo, ret, before, written,
                calls>>

-----------------------------------------------------------------------------
(* The command layer as NdefAccess sees it. *)

\* The bytes of the pages.  A sector the tag does not have cannot be accessed.
Bytes ==
    [a \in Address |->
        LET p == address_to_sector_block(a)
        IN IF p[1] \in TagSectors THEN pages[p[1]][p[2]][p[3]] ELSE tag.bytes[a]]

\* A cached READ is of no use while the sector is not known: a selection drops it.
CachedRead ==
    IF reader_sector = Unknown \/ cache_block = None
        THEN None ELSE <<reader_sector, cache_block>>

\* The access is over.
Settles ==
    /\ memory' = Bytes
    /\ sector' = reader_sector
    /\ cache' = CachedRead

\* The NDEF operation goes on with block data b, the call before it being over.
\* The block is dropped with its last byte.
Resumes(b) ==
    /\ step' = "none"
    /\ Settles
    /\ block_data' = IF pc' = "area" /\ byte_addr' % BLOCK_SIZE # 0 THEN b ELSE None
    /\ UNCHANGED <<linkVars, tag, call, msg, histVars, calls>>

\* It calls the command layer.
Calls(op) ==
    /\ step' = op
    /\ UNCHANGED <<ndefVars, accessVars, block_data>>

\* The command layer has nothing to do, and an NDEF operation is running.
Running == frame = "idle" /\ pc # "idle"

\* The call made for step op has returned Ok.
Done(op) == Running /\ step = op /\ answer.status = "ok"

\* The operation is about to choose its next access, the selection done if needed.
Ready == Done("select") \/ (Running /\ step = "none")

-----------------------------------------------------------------------------
(* The accesses: read_cc, the head of the loop of read_data_area, and an     *)
(* iteration of write_usable_bytes.                                          *)

Target == NextPlace

\* An access comes next.
Due ==
    \/ pc = "cc"
    \/ /\ pc = "area"
       /\ Len(stream) < layout.data_area_size
       /\ byte_addr % BLOCK_SIZE = 0
       /\ Target # None
    \/ pc \in {"value", "length"} /\ Target # None /\ addr < limit

\* self.sector != SectorState::Known(sector)
Elsewhere_UnknownTrusted == reader_sector \notin {Target[1], Unknown}
Elsewhere                == reader_sector # Target[1]

Select ==
    /\ Ready /\ Due
    /\ Elsewhere
    /\ R!sector_select(Target[1])
    /\ Calls("select")

\* block.wrapping_sub(cb) < 4
Index == (Target[2] - cache_block) % BLOCKS_PER_SECTOR
Hit   == cache_block # None /\ Index < READ_BLOCKS

\* read_data_area takes the block from the cache and its first byte from the block.
TakeCached ==
    /\ Ready /\ Due /\ ~Elsewhere
    /\ pc = "area" /\ Hit
    /\ TakeByte(cache_data[Index][0])
    /\ Resumes(cache_data[Index])

\* A READ for the container, for read_data_area, or for the slow path.
Fetch ==
    /\ Ready /\ Due /\ ~Elsewhere
    /\ \/ pc = "cc"
       \/ pc = "area" /\ ~Hit
       \/ pc \in {"value", "length"} /\ ~WholePage
    /\ R!read(Target[2])
    /\ Calls("read")

CcFetched ==
    /\ Done("read")
    /\ pc = "cc"
    /\ CheckCc(answer.data[0])
    /\ Resumes(None)

BlockFetched ==
    /\ Done("read")
    /\ pc = "area"
    /\ TakeByte(answer.data[0][0])
    /\ Resumes(answer.data[0])

\* The other bytes of the block.
TakeNext ==
    /\ Running
    /\ pc = "area"
    /\ Len(stream) < layout.data_area_size
    /\ byte_addr % BLOCK_SIZE # 0
    /\ TakeByte(block_data[byte_addr % BLOCK_SIZE])
    /\ Resumes(block_data)

\* The page to write: the bytes taken from todo over what the slow path has read.
Page_Blank(old) ==
    [i \in 0..(BLOCK_SIZE - 1) |-> IF i \in Taken THEN todo[Rank(i) + 1] ELSE 0]
Page(old) ==
    [i \in 0..(BLOCK_SIZE - 1) |-> IF i \in Taken THEN todo[Rank(i) + 1] ELSE old[i]]

StoreWhole ==
    /\ Ready /\ Due /\ ~Elsewhere
    /\ pc \in {"value", "length"}
    /\ WholePage /\ ~LimitInPage
    /\ R!write(Target[2], Page(Zero))
    /\ Calls("write")

StoreMerged ==
    /\ Done("read")
    /\ pc \in {"value", "length"}
    /\ ~LimitInPage /\ Taken # {}
    /\ R!write(Target[2], Page(answer.data[0]))
    /\ Calls("write")

\* The page is written, or there was nothing to write to it.
PageDone ==
    /\ \/ Done("write")
       \/ Done("read") /\ pc \in {"value", "length"} /\ ~LimitInPage /\ Taken = {}
    /\ Proceed
    /\ Resumes(None)

\* There is no such address, or the limit is reached.
Refused ==
    /\ \/ /\ Ready
          /\ pc = "area" /\ Len(stream) < layout.data_area_size
          /\ Target = None
       \/ Ready /\ pc \in {"value", "length"} /\ (Target = None \/ addr >= limit)
       \/ /\ Ready /\ Due /\ ~Elsewhere
          /\ pc \in {"value", "length"} /\ WholePage /\ LimitInPage
       \/ Done("read") /\ pc \in {"value", "length"} /\ LimitInPage
    /\ Return(Reply("out_of_range"))
    /\ Resumes(None)

\* The call failed: ? returns the error.
Failed ==
    /\ Running
    /\ step # "none"
    /\ answer.status # "ok"
    /\ Return(Reply("link"))
    /\ Resumes(None)

\* The steps that use no radio.
Compute ==
    /\ Running
    /\ step = "none"
    /\ UNCHANGED <<linkVars, accessVars, step, block_data>>
    /\ Parse \/ Plan

-----------------------------------------------------------------------------
(* The application, and the link. *)

\* An NDEF call.
BeginNdef ==
    /\ frame = "idle" /\ step = "none"
    /\ UNCHANGED <<linkVars, accessVars, step, block_data>>
    /\ read_ndef \/ \E m \in Messages : write_ndef(m)

\* The application uses the reader itself.
AppCalls ==
    /\ pc = "idle" /\ step = "none" /\ calls < MaxCalls
    /\ \/ \E n \in 0..MaxRetries : R!set_max_retries(n)
       \/ \E s \in 0..(MAX_SECTOR + 1) : R!sector_select(s)
       \/ \E b \in AppBlocks : R!read(b)
       \/ R!InvalidateCache
       \/ R!mark_tag_state_unknown
    /\ Calls("app")

AppReturns ==
    /\ step = "app" /\ frame = "idle"
    /\ step' = "none"
    /\ Settles
    /\ UNCHANGED <<linkVars, ndefVars, block_data>>

\* One exchange over the link.
Exchange == R!Exchange /\ UNCHANGED <<ndefVars, accessVars, step, block_data>>

\* The reader dies, and a new one starts on the reactivated tag.
Restart ==
    /\ pc # "idle" \/ step = "app"
    /\ R!new
    /\ step' = "none"
    /\ memory' = Bytes
    /\ sector' = 0
    /\ cache' = None
    /\ block_data' = None
    /\ \/ pc = "idle" /\ UNCHANGED ndefVars
       \/ /\ pc # "idle"
          /\ Return(Reply("crashed"))
          /\ UNCHANGED <<tag, call, msg, histVars, calls>>

-----------------------------------------------------------------------------

LinkInit ==
    /\ Init
    /\ pages = [s \in TagSectors |-> [b \in R!Block |-> [i \in 0..(BLOCK_SIZE - 1) |->
                   memory[sector_block_to_address(s, b, i)]]]]
    /\ tag_sector = 0
    /\ tag_mode = "command"
    /\ reader_sector = 0
    /\ cache_block = None
    /\ cache_data = [i \in R!ReadIndex |-> Zero]
    /\ max_retries = R!DEFAULT_MAX_RETRIES
    /\ frame = "idle"
    /\ command = R!NoCall
    /\ intended = Unknown
    /\ attempt = 0
    /\ answer = R!Reply("none")
    /\ step = "none"
    /\ block_data = None

\* What happens by itself once a call has been made.
LinkProgress ==
    \/ Select \/ TakeCached \/ Fetch \/ CcFetched \/ BlockFetched \/ TakeNext
    \/ StoreWhole \/ StoreMerged \/ PageDone \/ Refused \/ Failed \/ Compute
    \/ AppReturns \/ Exchange

LinkNext == BeginNdef \/ AppCalls \/ LinkProgress \/ Restart

LinkSpec == LinkInit /\ [][LinkNext]_allVars

\* The transceiver returns from every exchange, and nothing blocks between two.
LinkFairSpec == LinkSpec /\ WF_allVars(LinkProgress)

-----------------------------------------------------------------------------
(* Properties. *)

\* The NDEF operations over the command layer are the NDEF operations over a tag
\* whose accesses succeed in the right sector or fail: no exchange that is lost,
\* refused or repeated, no stale cache entry, no padding a READ shows past the end
\* of a sector and no death of the reader between two exchanges makes them read
\* or write anything else (reader.rs:270-363, 584-648).
ImplementsNdef == Spec

\* A READ or WRITE of an NDEF operation is sent only when the tag itself has the
\* sector of the operation's address selected and awaits a command, whatever has
\* been lost or reset since the operation, or its retry, selected it
\* (reader.rs:45-46, 147-158, 309-311, 601-603).
AccessesMeantSector ==
    frame = "transceive" /\ pc # "idle" =>
        tag_sector = Target[1] /\ reader_sector = Target[1] /\ tag_mode = "command"

=============================================================================
