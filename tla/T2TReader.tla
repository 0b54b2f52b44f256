------------------------------ MODULE T2TReader ------------------------------
(***************************************************************************)
(* The command layer of T2TReader (src/type2/reader.rs): read, write,      *)
(* sector_select and custom commands, with the tracked sector, the         *)
(* one-entry read cache and the retry loop, against a Type 2 Tag behind an *)
(* unreliable link.  One step is one exchange over the air, or a call that *)
(* needs none; all the Rust code between two exchanges runs in that step.  *)
(*                                                                         *)
(* READ, WRITE and SECTOR SELECT packets are not spelled as bytes: pc says *)
(* which frame is about to be sent and call holds its arguments.           *)
(***************************************************************************)
EXTENDS Type2Tag

CONSTANTS
    MaxRetries,  \* largest argument of set_max_retries (255)
    Unknown,     \* SectorState::Unknown
    None         \* Option::None

ASSUME ReaderAssumption ==
    /\ MaxRetries \in Nat \ {0}
    /\ Unknown \notin Sector
    /\ None \notin Block
    /\ None \notin ReadData

VARIABLES
    sector,       \* SectorState: a sector number when Known, or Unknown
    cache_block,  \* first block of the cached READ, or None
    cache_data,   \* the cached READ
    max_retries,  \* retries after a failed attempt
    pc,           \* the frame about to be sent; "idle" between calls
    call,         \* the call in progress, or the last one
    intended,     \* local of transceive_with_retry: the sector on entry
    attempt,      \* local of transceive_with_retry: the loop counter
    ret           \* what the last call returned

readerVars == <<sector, cache_block, cache_data, max_retries>>
callVars   == <<pc, call, intended, attempt, ret>>
vars       == <<tag_sector, tag_mode, memory,
                sector, cache_block, cache_data, max_retries,
                pc, call, intended, attempt, ret>>

DEFAULT_MAX_RETRIES == 1

ReadCall(b)      == [op |-> "read", block |-> b]
WriteCall(b, v)  == [op |-> "write", block |-> b, value |-> v]
CustomCall(b, v) == [op |-> "custom", block |-> b, value |-> v]
SelectCall(s)    == [op |-> "select", sector |-> s]
NoCall           == [op |-> "none"]

Calls == [op : {"read"}, block : Block]
            \cup [op : {"write", "custom"}, block : Block, value : Values]
            \cup [op : {"select"}, sector : 0..(MAX_SECTOR + 1)]
            \cup {NoCall}

\* Ok, or the variant of ReaderError and Type2Error a call fails with.
Status == {"none", "ok", "transceiver", "nack", "invalid_length", "out_of_range"}

Reply(s)  == [status |-> s, data |-> None]
ReadOk(d) == [status |-> "ok", data |-> d]

TypeOK ==
    /\ TagTypeOK
    /\ sector \in Sector \cup {Unknown}
    /\ cache_block \in Block \cup {None}
    /\ cache_data \in ReadData
    /\ max_retries \in 0..MaxRetries
    /\ pc \in {"idle", "transceive", "packet1", "packet2", "custom", "ambiguous"}
    /\ call \in Calls
    /\ intended \in Sector \cup {Unknown}
    /\ attempt \in 0..MaxRetries
    /\ ret \in [status : Status, data : ReadData \cup {None}]

-----------------------------------------------------------------------------
(* Fragments shared by the operations. *)

\* The caller gets r; the locals of the call are gone.
Return(r) ==
    /\ pc' = "idle"
    /\ ret' = r
    /\ intended' = Unknown
    /\ attempt' = 0

\* The call returned without using the radio.
ReturnAtOnce(c, r) ==
    /\ call' = c
    /\ Return(r)

invalidate_cache == cache_block' = None

\* The tag may be in any sector now.
StateUnknown_SectorKept ==
    /\ UNCHANGED sector
    /\ invalidate_cache
StateUnknown_CacheKept ==
    /\ sector' = Unknown
    /\ UNCHANGED cache_block
StateUnknown ==
    /\ sector' = Unknown
    /\ invalidate_cache

\* force_sector_select up to its first frame.
ForceSectorSelect ==
    /\ StateUnknown
    /\ pc' = "packet1"

\* transceive_with_retry up to its first frame.
TransceiveWithRetry(c) ==
    /\ pc' = "transceive"
    /\ call' = c
    /\ intended' = sector
    /\ attempt' = 0
    /\ ret' = Reply("none")

\* The sector argument of the running force_sector_select.
SelectTarget == IF call.op = "select" THEN call.sector ELSE intended

-----------------------------------------------------------------------------
(* Calls of the application, made while no other call is in progress. *)

\* T2TReader::new on a tag that has just been activated.  With pc # "idle" this
\* is the reader dying in the middle of a call and starting over.
new ==
    /\ TagReset
    /\ sector' = 0
    /\ cache_block' = None
    /\ cache_data' = [i \in ReadIndex |-> Zero]
    /\ max_retries' = DEFAULT_MAX_RETRIES
    /\ ReturnAtOnce(NoCall, Reply("none"))

set_max_retries(n) ==
    /\ pc = "idle"
    /\ max_retries' = n
    /\ ReturnAtOnce(NoCall, Reply("none"))
    /\ UNCHANGED <<tagVars, sector, cache_block, cache_data>>

CacheHit_AnyBlock(b) == cache_block # None
CacheHit(b)          == cache_block = b

read(b) ==
    /\ pc = "idle"
    /\ \/ /\ CacheHit(b)
          /\ ReturnAtOnce(ReadCall(b), ReadOk(cache_data))
       \/ /\ ~CacheHit(b)
          /\ TransceiveWithRetry(ReadCall(b))
    /\ UNCHANGED <<tagVars, readerVars>>

write(b, v) ==
    /\ pc = "idle"
    /\ TransceiveWithRetry(WriteCall(b, v))
    /\ UNCHANGED <<tagVars, readerVars>>

\* transceive_with_retry called by the application with a vendor command.  The
\* worst case for the reader is one that writes a block.
transceive_custom(b, v) ==
    /\ pc = "idle"
    /\ TransceiveWithRetry(CustomCall(b, v))
    /\ UNCHANGED <<tagVars, readerVars>>

sector_select(s) ==
    /\ pc = "idle"
    /\ \/ /\ s > MAX_SECTOR
          /\ ReturnAtOnce(SelectCall(s), Reply("out_of_range"))
          /\ UNCHANGED readerVars
       \/ /\ s <= MAX_SECTOR
          /\ sector = s
          /\ ReturnAtOnce(SelectCall(s), Reply("ok"))
          /\ UNCHANGED readerVars
       \/ /\ s <= MAX_SECTOR
          /\ sector # s
          /\ ForceSectorSelect
          /\ call' = SelectCall(s)
          /\ ret' = Reply("none")
          /\ UNCHANGED <<intended, attempt, cache_data, max_retries>>
    /\ UNCHANGED tagVars

\* A vendor command sent through transceiver(), behind the reader's back.  It
\* succeeded and wrote a block, or its outcome is ambiguous.
RawCommand(b, v) ==
    /\ pc = "idle"
    /\ \/ TagStores(b, v) /\ pc' = "custom"
       \/ (TagMisses \/ TagStores(b, v)) /\ pc' = "ambiguous"
    /\ call' = CustomCall(b, v)
    /\ ret' = Reply("none")
    /\ UNCHANGED <<readerVars, intended, attempt>>

\* What the documentation asks of the application after a custom command:
\* invalidate_cache when it wrote, mark_tag_state_unknown when its outcome is
\* ambiguous.  Both may be called at any other time as well.
InvalidateCache ==
    /\ pc \in {"idle", "custom"}
    /\ invalidate_cache
    /\ ReturnAtOnce(NoCall, Reply("none"))
    /\ UNCHANGED <<tagVars, sector, cache_data, max_retries>>

mark_tag_state_unknown ==
    /\ pc \in {"idle", "custom", "ambiguous"}
    /\ StateUnknown
    /\ ReturnAtOnce(NoCall, Reply("none"))
    /\ UNCHANGED <<tagVars, cache_data, max_retries>>

-----------------------------------------------------------------------------
(* READ, WRITE and custom frames: one attempt of transceive_with_retry. *)

\* READ answered with 16 bytes: they replace the cache.
ReadAnswered ==
    /\ pc = "transceive"
    /\ call.op = "read"
    /\ tag_mode = "command"
    /\ \E d \in ReadResults(tag_sector, call.block) :
          /\ cache_block' = call.block
          /\ cache_data' = d
          /\ Return(ReadOk(d))
    /\ TagUnchanged
    /\ UNCHANGED <<sector, max_retries, call>>

\* READ answered with fewer than 16 bytes.  A NACK is one byte long, so
\* parse_answer reports it as InvalidLength too.
ReadTooShort ==
    /\ pc = "transceive"
    /\ call.op = "read"
    /\ TagRefuses
    /\ Return(Reply("invalid_length"))
    /\ UNCHANGED <<readerVars, call>>

\* What write does with an answer, whatever it is.
WriteReturns_CacheKept(r) ==
    /\ Return(r)
    /\ UNCHANGED <<readerVars, call>>
WriteReturns(r) ==
    /\ invalidate_cache
    /\ Return(r)
    /\ UNCHANGED <<sector, cache_data, max_retries, call>>

\* WRITE answered: ACK, NACK, or an empty frame that says neither.
WriteAcked ==
    /\ pc = "transceive"
    /\ call.op = "write"
    /\ TagStores(call.block, call.value)
    /\ WriteReturns(Reply("ok"))

NackStatus_Masked == "ok"
NackStatus        == "nack"

WriteNacked ==
    /\ pc = "transceive"
    /\ call.op = "write"
    /\ TagRefuses
    /\ WriteReturns(Reply(NackStatus))

WriteGarbled ==
    /\ pc = "transceive"
    /\ call.op = "write"
    /\ TagRefuses \/ TagStores(call.block, call.value)
    /\ WriteReturns(Reply("invalid_length"))

\* A custom command answered: the application gets the raw bytes.
CustomAnswered ==
    /\ pc = "transceive"
    /\ call.op = "custom"
    /\ TagRefuses \/ TagStores(call.block, call.value)
    /\ pc' = "custom"
    /\ UNCHANGED <<readerVars, call, intended, attempt, ret>>

\* After a failed attempt: try again, in the sector the command was meant for,
\* unless that was not known on entry or the retries are used up.
MayRetry_OffByOne      == attempt <= max_retries /\ intended # Unknown
MayRetry_SectorIgnored == attempt < max_retries
MayRetry               == attempt < max_retries /\ intended # Unknown

NextAttempt_NotReselected ==
    /\ attempt' = attempt + 1
    /\ StateUnknown
    /\ pc' = "transceive"
    /\ UNCHANGED <<intended, ret>>
NextAttempt_NotCounted ==
    /\ ForceSectorSelect
    /\ UNCHANGED <<attempt, intended, ret>>
NextAttempt ==
    /\ attempt' = attempt + 1
    /\ ForceSectorSelect
    /\ UNCHANGED <<intended, ret>>

TransceiveFailed ==
    /\ pc = "transceive"
    /\ \/ TagMisses
       \/ call.op \in {"write", "custom"} /\ TagStores(call.block, call.value)
    /\ \/ MayRetry /\ NextAttempt
       \/ ~MayRetry /\ StateUnknown /\ Return(Reply("transceiver"))
    /\ UNCHANGED <<cache_data, max_retries, call>>

-----------------------------------------------------------------------------
(* SECTOR SELECT, on behalf of sector_select or of a retry. *)

SelectFails(s) ==
    /\ Return(Reply(s))
    /\ UNCHANGED <<readerVars, call>>

Packet1Acked ==
    /\ pc = "packet1"
    /\ TagAwaitsPacket2
    /\ pc' = "packet2"
    /\ UNCHANGED <<readerVars, call, intended, attempt, ret>>

Packet1Nacked ==
    /\ pc = "packet1"
    /\ TagRefuses
    /\ SelectFails("nack")

Packet1Garbled ==
    /\ pc = "packet1"
    /\ TagRefuses \/ TagAwaitsPacket2
    /\ SelectFails("invalid_length")

Packet1Failed ==
    /\ pc = "packet1"
    /\ TagMisses \/ TagAwaitsPacket2
    /\ SelectFails("transceiver")

\* Silence: the sector is known again.  The call is over, or the retry that
\* needed the sector sends its command.
Packet2Silent ==
    /\ pc = "packet2"
    /\ TagSelects(SelectTarget)
    /\ sector' = SelectTarget
    /\ \/ call.op = "select" /\ Return(Reply("ok"))
       \/ call.op # "select" /\ pc' = "transceive" /\ UNCHANGED <<intended, attempt, ret>>
    /\ UNCHANGED <<cache_block, cache_data, max_retries, call>>

Packet2Nacked ==
    /\ pc = "packet2"
    /\ TagRefusesSector
    /\ SelectFails("nack")

Packet2Failed ==
    /\ pc = "packet2"
    /\ TagMisses \/ TagSelects(SelectTarget)
    /\ SelectFails("transceiver")

-----------------------------------------------------------------------------

Init ==
    /\ TagInit
    /\ sector = 0
    /\ cache_block = None
    /\ cache_data = [i \in ReadIndex |-> Zero]
    /\ max_retries = DEFAULT_MAX_RETRIES
    /\ pc = "idle"
    /\ call = NoCall
    /\ intended = Unknown
    /\ attempt = 0
    /\ ret = Reply("none")

Application ==
    \/ new
    \/ \E n \in 0..MaxRetries : set_max_retries(n)
    \/ \E b \in Block : read(b)
    \/ \E b \in Block, v \in Values :
          write(b, v) \/ transceive_custom(b, v) \/ RawCommand(b, v)
    \/ \E s \in 0..(MAX_SECTOR + 1) : sector_select(s)
    \/ InvalidateCache
    \/ mark_tag_state_unknown

\* The rest of a call, once it has been made.
Exchange ==
    \/ ReadAnswered \/ ReadTooShort
    \/ WriteAcked \/ WriteNacked \/ WriteGarbled
    \/ CustomAnswered
    \/ TransceiveFailed
    \/ Packet1Acked \/ Packet1Nacked \/ Packet1Garbled \/ Packet1Failed
    \/ Packet2Silent \/ Packet2Nacked \/ Packet2Failed

Next == Application \/ Exchange

Spec == Init /\ [][Next]_vars

\* A call runs to its end: the transceiver returns from every exchange.
FairSpec == Spec /\ WF_vars(Exchange)

-----------------------------------------------------------------------------
(* Properties. *)

\* The application is between a custom command and the call the documentation
\* asks it to make after it.
InCustom == pc \in {"custom", "ambiguous"}

\* SectorState::Known(s) is never wrong: whenever the reader believes it knows
\* the sector, the tag has that sector selected and is ready for a command,
\* whatever was lost, refused or reset before (reader.rs:34-48).
SectorAgrees ==
    sector # Unknown /\ pc # "ambiguous" =>
        tag_sector = sector /\ tag_mode = "command"

\* A cached READ is what the tag holds now in the sector it has selected, so a
\* hit in read (reader.rs:176-180) returns what the radio would have returned.
CacheCoherent ==
    cache_block # None /\ ~InCustom =>
        /\ tag_mode = "command"
        /\ Holds(tag_sector, cache_block, cache_data)

\* read that returns Ok returns the requested block of the known sector, from
\* the cache or over the air, with or without retries (reader.rs:175-193).
ReadFresh ==
    pc = "idle" /\ call.op = "read" /\ ret.status = "ok" =>
        /\ Holds(tag_sector, call.block, ret.data)
        /\ sector # Unknown => Holds(sector, call.block, ret.data)

\* write that returns Ok has stored the value, in the sector that is known
\* after it, however many attempts it took (reader.rs:199-208).
WriteStored ==
    pc = "idle" /\ call.op = "write" /\ ret.status = "ok" =>
        /\ memory[tag_sector][call.block] = call.value
        /\ sector # Unknown => memory[sector][call.block] = call.value

\* A command issued in a known sector changes no block of another sector and no
\* other block of that sector, even when the failure of an attempt reset the tag
\* to sector 0 (reader.rs:135-139 and the SFT-7595 tests).
WritesStayInIntendedSector ==
    [][\A s \in TagSectors, b \in Block :
          memory'[s][b] # memory[s][b] /\ pc = "transceive" =>
              /\ b = call.block
              /\ intended # Unknown => s = intended]_vars

\* A call that failed in transport, and a selection that failed in any way,
\* leaves nothing behind that a later call could trust: the sector is unknown
\* and the cache empty (reader.rs:159-164, 230-232).
FailureForgets ==
    /\ pc = "idle"
    /\ \/ ret.status = "transceiver"
       \/ call.op = "select" /\ ret.status \in {"nack", "invalid_length"}
    => sector = Unknown /\ cache_block = None

\* With the sector unknown on entry there is one attempt and no SECTOR SELECT on
\* behalf of the command (reader.rs:152-154).
NoBlindRetry ==
    intended = Unknown /\ call.op # "select" =>
        attempt = 0 /\ pc \notin {"packet1", "packet2"}

\* Every call returns, however the link behaves (reader.rs:146: the retries are
\* bounded, and a retry that cannot select its sector gives up).
CallsReturn == pc \in {"transceive", "packet1", "packet2"} ~> pc \in {"idle", "custom"}

\* The documentation of SectorState::Unknown (reader.rs:45-46): the sector "must
\* be re-established before any sector-relative command".
SectorKnownBeforeCommand ==
    pc = "transceive" /\ call.op \in {"read", "write"} => sector # Unknown

=============================================================================
