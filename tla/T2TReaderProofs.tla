-------------------------- MODULE T2TReaderProofs --------------------------
(***************************************************************************)
(* The command layer for every number of sectors, blocks, block contents   *)
(* and retries: its safety properties, and that it implements SectorStore, *)
(* every step of the reader, the link and the tag being a step of the      *)
(* store or one its caller cannot see.                                     *)
(***************************************************************************)
EXTENDS T2TReaderStore, TLAPS

\* What the locals of a call in progress say: a command is sent in the sector it
\* was meant for, and a SECTOR SELECT runs with everything forgotten and with a
\* sector number it may select.
CallInv ==
    /\ pc = "transceive" =>
          /\ call.op \in {"read", "write", "custom"}
          /\ sector = intended
    /\ pc \in {"packet1", "packet2"} =>
          /\ sector = Unknown
          /\ cache_block = None
          /\ call.op \in {"read", "write", "custom", "select"}
          /\ SelectTarget \in Sector

\* The inductive invariant of the reader and the tag together.
IInv ==
    /\ TypeOK
    /\ CallInv
    /\ SectorAgrees
    /\ CacheCoherent

-----------------------------------------------------------------------------

\* The arguments of a call have the types of its parameters.
LEMMA CallFields ==
    ASSUME NEW c \in Calls
    PROVE  /\ c.op \in {"read", "write", "custom"} => c.block \in Block
           /\ c.op \in {"write", "custom"} => c.value \in Values
           /\ c.op = "select" => c.sector \in 0..(MAX_SECTOR + 1)
  BY DEF Calls, NoCall

\* Every call the application can make is one of Calls.
LEMMA CallsBuilt ==
    /\ NoCall \in Calls
    /\ \A b \in Block : ReadCall(b) \in Calls
    /\ \A b \in Block, v \in Values : WriteCall(b, v) \in Calls
    /\ \A b \in Block, v \in Values : CustomCall(b, v) \in Calls
    /\ \A s \in 0..(MAX_SECTOR + 1) : SelectCall(s) \in Calls
  BY DEF Calls, NoCall, ReadCall, WriteCall, CustomCall, SelectCall

\* Every result a call can have is of the type of ret.
LEMMA RepliesBuilt ==
    /\ \A s \in Status : Reply(s) \in [status : Status, data : ReadData \cup {None}]
    /\ \A d \in ReadData : ReadOk(d) \in [status : Status, data : ReadData \cup {None}]
  BY DEF Reply, ReadOk, Status

\* What the tag does with a frame keeps it a tag.
LEMMA TagSteps ==
    ASSUME TagTypeOK
    PROVE  /\ TagUnchanged => TagTypeOK'
           /\ TagReset => TagTypeOK'
           /\ TagMisses => TagTypeOK'
           /\ TagRefuses => TagTypeOK'
           /\ TagAwaitsPacket2 => TagTypeOK'
           /\ TagRefusesSector => TagTypeOK'
           /\ \A s : TagSelects(s) => TagTypeOK'
           /\ \A b \in Block, v \in Values : TagStores(b, v) => TagTypeOK'
  BY TagAssumption
  DEF TagTypeOK, TagUnchanged, TagReset, TagMisses, TagRefuses, TagAwaitsPacket2,
      TagRefusesSector, TagSelects, TagStores, tagVars

\* What a READ can return is of its type, and is what the tag holds as far as the
\* sector reaches, with roll-over and with padding (reader.rs:183-189).
LEMMA ReadResultsHold ==
    ASSUME TagTypeOK, NEW s \in TagSectors, NEW b \in Block,
           NEW d \in ReadResults(s, b)
    PROVE  d \in ReadData /\ Holds(s, b, d)
<1> USE TagAssumption
<1> DEFINE past == {i \in ReadIndex : b + i >= BLOCKS_PER_SECTOR}
<1>1. \A i \in ReadIndex :
         /\ i \in Nat
         /\ (b + i) % BLOCKS_PER_SECTOR \in Block
         /\ b + i < BLOCKS_PER_SECTOR => (b + i) % BLOCKS_PER_SECTOR = b + i
  BY DEF ReadIndex, Block
<1>2. \A c \in Block : memory[s][c] \in Values
  BY DEF TagTypeOK
<1>3. CASE d = [i \in ReadIndex |-> memory[s][(b + i) % BLOCKS_PER_SECTOR]]
  BY <1>1, <1>2, <1>3 DEF ReadData, Holds
<1>4. ASSUME NEW f \in [past -> Padding],
             d = [i \in ReadIndex |-> IF i \in past THEN f[i] ELSE memory[s][b + i]]
      PROVE  d \in ReadData /\ Holds(s, b, d)
  <2>1. \A i \in ReadIndex : i \notin past => b + i < BLOCKS_PER_SECTOR /\ b + i \in Block
    BY DEF ReadIndex, Block
  <2>2. \A i \in ReadIndex : b + i < BLOCKS_PER_SECTOR => i \notin past
    BY DEF ReadIndex, Block
  <2>3. \A i \in past : f[i] \in Values
    OBVIOUS
  <2>4. d \in ReadData
    BY <1>4, <2>1, <2>3, <1>2 DEF ReadData
  <2>5. Holds(s, b, d)
    BY <1>4, <2>2 DEF Holds
  <2>6. QED
    BY <2>4, <2>5
<1>5. QED
  BY <1>3, <1>4 DEF ReadResults

\* A new reader on an activated tag satisfies the invariant (reader.rs:67-75).
LEMMA InitIInv == Init => IInv
<1> SUFFICES ASSUME Init PROVE IInv
  OBVIOUS
<1> USE TagAssumption, ReaderAssumption
<1>1. TypeOK
  BY RepliesBuilt, CallsBuilt
  DEF Init, TypeOK, TagInit, TagTypeOK, Sector, ReadData, Status, DEFAULT_MAX_RETRIES
<1>2. CallInv /\ SectorAgrees /\ CacheCoherent
  BY DEF Init, TagInit, CallInv, SectorAgrees, CacheCoherent
<1>3. QED
  BY <1>1, <1>2 DEF IInv

-----------------------------------------------------------------------------
(* Preservation, one lemma per group of actions. *)

\* Neither does starting over lose it, in the middle of a call or between two.
LEMMA NewStep == IInv /\ new => IInv'
<1> SUFFICES ASSUME IInv, new PROVE IInv'
  OBVIOUS
<1> USE TagAssumption, ReaderAssumption
<1>1. TypeOK'
  BY TagSteps, RepliesBuilt, CallsBuilt
  DEF IInv, TypeOK, new, ReturnAtOnce, Return, Sector, ReadData, Status, DEFAULT_MAX_RETRIES
<1>2. CallInv' /\ SectorAgrees' /\ CacheCoherent'
  BY DEF new, ReturnAtOnce, Return, TagReset, CallInv, SectorAgrees, CacheCoherent
<1>3. QED
  BY <1>1, <1>2 DEF IInv

\* set_max_retries touches neither the sector nor the cache (reader.rs:82-84).
LEMMA SetMaxRetriesStep ==
    ASSUME IInv, NEW n \in 0..MaxRetries, set_max_retries(n)
    PROVE  IInv'
<1> USE ReaderAssumption DEF set_max_retries, ReturnAtOnce, Return, tagVars
<1>1. TypeOK'
  BY RepliesBuilt, CallsBuilt DEF IInv, TypeOK, TagTypeOK, Status
<1>2. CallInv' /\ SectorAgrees' /\ CacheCoherent'
  BY DEF IInv, CallInv, SectorAgrees, CacheCoherent, InCustom, Holds
<1>3. QED
  BY <1>1, <1>2 DEF IInv

\* read, write and a custom command up to their first frame.
LEMMA CommandCallStep ==
    ASSUME IInv,
           \/ \E b \in Block : read(b)
           \/ \E b \in Block, v \in Values : write(b, v) \/ transceive_custom(b, v)
    PROVE  IInv'
<1> USE DEF read, write, transceive_custom, ReturnAtOnce, Return, TransceiveWithRetry,
            tagVars, readerVars
<1>1. TypeOK'
  BY ReaderAssumption, RepliesBuilt, CallsBuilt DEF IInv, TypeOK, TagTypeOK, Status
<1>2. CallInv'
  BY DEF IInv, CallInv, ReadCall, WriteCall, CustomCall
<1>3. SectorAgrees' /\ CacheCoherent'
  BY DEF IInv, SectorAgrees, CacheCoherent, InCustom, Holds
<1>4. QED
  BY <1>1, <1>2, <1>3 DEF IInv

\* sector_select up to its first frame: refused, already selected, or everything
\* forgotten (reader.rs:216-241).
LEMMA SectorSelectStep ==
    ASSUME IInv, NEW s \in 0..(MAX_SECTOR + 1), sector_select(s)
    PROVE  IInv'
<1> USE TagAssumption, ReaderAssumption
    DEF sector_select, ReturnAtOnce, Return, ForceSectorSelect, StateUnknown,
        invalidate_cache, tagVars, readerVars
<1>1. TypeOK'
  BY RepliesBuilt, CallsBuilt DEF IInv, TypeOK, TagTypeOK, Status
<1>2. CallInv'
  BY DEF IInv, CallInv, SelectCall, SelectTarget, Sector
<1>3. SectorAgrees' /\ CacheCoherent'
  BY DEF IInv, SectorAgrees, CacheCoherent, InCustom, Holds
<1>4. QED
  BY <1>1, <1>2, <1>3 DEF IInv

\* A custom command behind the reader's back: until the application has reported
\* it nothing is claimed (reader.rs:105-128).
LEMMA RawCommandStep ==
    ASSUME IInv, NEW b \in Block, NEW v \in Values, RawCommand(b, v)
    PROVE  IInv'
<1>1. TypeOK'
  BY TagSteps, RepliesBuilt, CallsBuilt
  DEF IInv, TypeOK, RawCommand, Status, readerVars
<1>2. CallInv' /\ SectorAgrees' /\ CacheCoherent'
  BY DEF RawCommand, IInv, CallInv, SectorAgrees, CacheCoherent, InCustom, TagStores,
         readerVars
<1>3. QED
  BY <1>1, <1>2 DEF IInv

\* invalidate_cache and mark_tag_state_unknown only forget (reader.rs:113-128).
LEMMA ForgetStep ==
    ASSUME IInv, InvalidateCache \/ mark_tag_state_unknown
    PROVE  IInv'
<1> USE ReaderAssumption
    DEF InvalidateCache, mark_tag_state_unknown, ReturnAtOnce, Return, StateUnknown,
        invalidate_cache, tagVars
<1>1. TypeOK'
  BY RepliesBuilt, CallsBuilt DEF IInv, TypeOK, TagTypeOK, Status
<1>2. CallInv' /\ SectorAgrees' /\ CacheCoherent'
  BY DEF IInv, CallInv, SectorAgrees, CacheCoherent, InCustom
<1>3. QED
  BY <1>1, <1>2 DEF IInv

-----------------------------------------------------------------------------
(* The answers to a READ, WRITE or custom frame. *)

\* A READ that is answered returns and caches what the tag holds (reader.rs:184-189).
LEMMA ReadShape ==
    ASSUME IInv, ReadAnswered
    PROVE  \E d \in ReadData :
              /\ Holds(tag_sector, call.block, d)
              /\ cache_block' = call.block
              /\ cache_data' = d
              /\ Return(ReadOk(d))
<1>1. TagTypeOK /\ tag_sector \in TagSectors /\ call.block \in Block
  BY CallFields DEF IInv, TypeOK, TagTypeOK, ReadAnswered
<1>2. QED
  BY <1>1, ReadResultsHold DEF ReadAnswered

\* The cache takes over what the tag has just sent; a refusal changes nothing, for
\* the tag was in command state (reader.rs:184-192).
LEMMA ReadStep ==
    ASSUME IInv, ReadAnswered \/ ReadTooShort
    PROVE  IInv'
<1> USE TagAssumption, ReaderAssumption, CallFields, RepliesBuilt
    DEF IInv, Return, TagUnchanged, tagVars, readerVars
<1>1. CASE ReadAnswered
  <2>1. TypeOK'
    BY <1>1, ReadShape DEF ReadAnswered, TypeOK, TagTypeOK, CallInv, Status
  <2>2. CallInv' /\ SectorAgrees'
    BY <1>1 DEF ReadAnswered, CallInv, SectorAgrees
  <2>3. CacheCoherent'
    BY <1>1, ReadShape DEF ReadAnswered, CacheCoherent, Holds
  <2>4. QED
    BY <2>1, <2>2, <2>3
<1>2. CASE ReadTooShort
  <2>1. TypeOK'
    BY <1>2, TagSteps DEF ReadTooShort, TypeOK, Status
  <2>2. CallInv' /\ SectorAgrees'
    BY <1>2 DEF ReadTooShort, CallInv, SectorAgrees, TagRefuses
  <2>3. CacheCoherent'
    BY <1>2 DEF ReadTooShort, CacheCoherent, InCustom, TagRefuses, Holds
  <2>4. QED
    BY <2>1, <2>2, <2>3
<1>3. QED
  BY <1>1, <1>2

\* Whatever the answer to a WRITE, the cache is dropped (reader.rs:202).
LEMMA WriteStep ==
    ASSUME IInv, WriteAcked \/ WriteNacked \/ WriteGarbled
    PROVE  IInv'
<1> USE TagAssumption, ReaderAssumption
    DEF IInv, WriteAcked, WriteNacked, WriteGarbled, WriteReturns, Return,
        invalidate_cache
<1>1. TypeOK'
  <2>1. TagTypeOK'
    BY TagSteps, CallFields DEF TypeOK
  <2>2. QED
    BY <2>1, RepliesBuilt DEF TypeOK, Status, NackStatus
<1>2. CallInv' /\ CacheCoherent'
  BY DEF CallInv, CacheCoherent
<1>3. SectorAgrees'
  BY DEF SectorAgrees, TagRefuses, TagStores, TagUnchanged, TagReset, tagVars
<1>4. QED
  BY <1>1, <1>2, <1>3

\* A custom command that was answered leaves the tag in its sector.
LEMMA CustomStep ==
    ASSUME IInv, CustomAnswered
    PROVE  IInv'
<1> USE DEF IInv, CustomAnswered, readerVars
<1>1. TypeOK'
  BY TagSteps, CallFields DEF TypeOK
<1>2. CallInv' /\ CacheCoherent'
  BY DEF CallInv, CacheCoherent, InCustom
<1>3. SectorAgrees'
  BY DEF SectorAgrees, TagRefuses, TagStores, TagUnchanged, TagReset, tagVars
<1>4. QED
  BY <1>1, <1>2, <1>3

\* A failed attempt forgets the sector; the retry is for the sector the command
\* was meant for, and only if that one was known.
LEMMA FailedStep ==
    ASSUME IInv, TransceiveFailed
    PROVE  IInv'
<1> USE TagAssumption, ReaderAssumption
    DEF IInv, TransceiveFailed, NextAttempt, ForceSectorSelect, StateUnknown,
        invalidate_cache, Return
<1>1. TagTypeOK'
  BY TagSteps, CallFields DEF TypeOK, CallInv
<1>2. attempt' \in 0..MaxRetries
  BY DEF TypeOK, MayRetry
<1>3. TypeOK'
  BY <1>1, <1>2, RepliesBuilt DEF TypeOK, Status
<1>4. CallInv'
  BY DEF CallInv, TypeOK, MayRetry, SelectTarget
<1>5. SectorAgrees' /\ CacheCoherent'
  BY DEF SectorAgrees, CacheCoherent
<1>6. QED
  BY <1>3, <1>4, <1>5

-----------------------------------------------------------------------------
(* SECTOR SELECT. *)

\* A selection that fails leaves the sector unknown (reader.rs:239-263).
LEMMA SelectFailedStep ==
    ASSUME IInv,
           \/ Packet1Nacked \/ Packet1Garbled \/ Packet1Failed
           \/ Packet2Nacked \/ Packet2Failed
    PROVE  IInv'
<1> USE ReaderAssumption
    DEF IInv, Packet1Nacked, Packet1Garbled, Packet1Failed, Packet2Nacked,
        Packet2Failed, SelectFails, Return, readerVars
<1>1. TagTypeOK'
  BY TagSteps DEF TypeOK
<1>2. TypeOK'
  BY <1>1, RepliesBuilt DEF TypeOK, Status
<1>3. CallInv' /\ SectorAgrees' /\ CacheCoherent'
  BY DEF CallInv, SectorAgrees, CacheCoherent
<1>4. QED
  BY <1>2, <1>3

\* Only after silence to packet 2 is the sector known (reader.rs:266).
LEMMA SelectStep ==
    ASSUME IInv, Packet1Acked \/ Packet2Silent
    PROVE  IInv'
<1> USE ReaderAssumption DEF IInv, Return, readerVars
<1>1. CASE Packet1Acked
  <2>1. TypeOK'
    BY <1>1, TagSteps DEF TypeOK, Packet1Acked
  <2>2. CallInv' /\ SectorAgrees' /\ CacheCoherent'
    BY <1>1 DEF Packet1Acked, CallInv, SectorAgrees, CacheCoherent, SelectTarget
  <2>3. QED
    BY <2>1, <2>2
<1>2. CASE Packet2Silent
  <2>1. TypeOK'
    BY <1>2, TagSteps, RepliesBuilt DEF TypeOK, Packet2Silent, CallInv, Status
  <2>2. CallInv'
    BY <1>2 DEF Packet2Silent, CallInv, SelectTarget
  <2>3. SectorAgrees' /\ CacheCoherent'
    BY <1>2 DEF Packet2Silent, CallInv, SectorAgrees, CacheCoherent, TagSelects
  <2>4. QED
    BY <2>1, <2>2, <2>3
<1>3. QED
  BY <1>1, <1>2

\* A step that changes nothing keeps the invariant.
LEMMA StutterStep == ASSUME IInv, UNCHANGED vars PROVE IInv'
  BY DEF IInv, vars, TypeOK, TagTypeOK, CallInv, SectorAgrees, CacheCoherent, InCustom,
         SelectTarget, Holds

\* No step of the application, the reader, the link or the tag leaves IInv.
LEMMA NextIInv == IInv /\ [Next]_vars => IInv'
<1> SUFFICES ASSUME IInv, [Next]_vars PROVE IInv'
  OBVIOUS
<1>1. CASE Application
  BY <1>1, NewStep, SetMaxRetriesStep, CommandCallStep, SectorSelectStep,
     RawCommandStep, ForgetStep
  DEF Application
<1>2. CASE Exchange
  BY <1>2, ReadStep, WriteStep, CustomStep, FailedStep, SelectFailedStep, SelectStep
  DEF Exchange
<1>3. CASE UNCHANGED vars
  BY <1>3, StutterStep
<1>4. QED
  BY <1>1, <1>2, <1>3 DEF Next

\* Everything a run checks of T2TReader as an invariant rests on this one.
THEOREM SpecIInv == Spec => []IInv
  BY InitIInv, NextIInv, PTL DEF Spec

\* The variables of the reader and the tag keep their types, whatever the link
\* does and whatever the application asks for.
THEOREM TypeCorrect == Spec => []TypeOK
<1>1. IInv => TypeOK
  BY DEF IInv
<1>2. QED
  BY SpecIInv, <1>1, PTL

\* SectorState::Known is never wrong (reader.rs:34-48).
THEOREM SectorStateSound == Spec => []SectorAgrees
<1>1. IInv => SectorAgrees
  BY DEF IInv
<1>2. QED
  BY SpecIInv, <1>1, PTL

\* The read cache never holds anything but the tag's current content
\* (reader.rs:113-128, 161-162, 201, 240).
THEOREM CacheSound == Spec => []CacheCoherent
<1>1. IInv => CacheCoherent
  BY DEF IInv
<1>2. QED
  BY SpecIInv, <1>1, PTL

-----------------------------------------------------------------------------
(* What a call that has returned says.  Each of these holds because of the step *)
(* that returned; every later call replaces call and ret.                       *)

\* Steps of the application that start or replace the call in progress.
LEMMA ApplicationCalls ==
    ASSUME Application
    PROVE  \/ pc' # "idle"
           \/ call' = NoCall /\ ret' = Reply("none")
           \/ \E b \in Block : read(b)
           \/ \E s \in 0..(MAX_SECTOR + 1) : sector_select(s)
  BY DEF Application, new, set_max_retries, write, transceive_custom, RawCommand,
         InvalidateCache, mark_tag_state_unknown, ReturnAtOnce, Return,
         TransceiveWithRetry

\* Only a cache hit and an answered READ end in a read that returns Ok.
LEMMA ReadFreshStep ==
    ASSUME IInv, ReadFresh, [Next]_vars
    PROVE  ReadFresh'
<1> SUFFICES ASSUME pc' = "idle", call'.op = "read", ret'.status = "ok"
             PROVE  /\ Holds(tag_sector, call.block, ret.data)'
                    /\ sector' # Unknown => Holds(sector, call.block, ret.data)'
  BY DEF ReadFresh
<1>1. CASE Application
  <2>1. PICK b \in Block : read(b)
    BY <1>1, ApplicationCalls DEF NoCall, Reply, sector_select, SelectCall, ReturnAtOnce,
       ForceSectorSelect
  <2>2. CacheHit(b) /\ ReturnAtOnce(ReadCall(b), ReadOk(cache_data))
    BY <2>1 DEF read, TransceiveWithRetry
  <2>3. pc = "idle" /\ cache_block = b /\ b # None
    BY <2>1, <2>2, ReaderAssumption DEF read, CacheHit
  <2>4. Holds(tag_sector, b, cache_data) /\ (sector # Unknown => tag_sector = sector)
    BY <2>3 DEF IInv, CacheCoherent, SectorAgrees, InCustom
  <2>5. UNCHANGED <<tag_sector, memory, sector>>
        /\ call'.block = b /\ ret'.data = cache_data
    BY <2>1, <2>2 DEF read, ReturnAtOnce, Return, ReadCall, ReadOk, tagVars, readerVars
  <2>6. QED
    BY <2>4, <2>5 DEF Holds
<1>2. CASE ReadAnswered
  <2>1. Holds(tag_sector, call.block, ret'.data)
    BY <1>2, ReadShape DEF Return, ReadOk
  <2>2. UNCHANGED <<tag_sector, memory, sector, call>>
    BY <1>2 DEF ReadAnswered, TagUnchanged, tagVars
  <2>3. sector # Unknown => tag_sector = sector
    BY <1>2 DEF IInv, ReadAnswered, SectorAgrees
  <2>4. QED
    BY <2>1, <2>2, <2>3 DEF Holds
<1>3. CASE Exchange /\ ~ReadAnswered
  BY <1>3 DEF Exchange, ReadTooShort, WriteAcked, WriteNacked, WriteGarbled, WriteReturns,
     CustomAnswered, TransceiveFailed, NextAttempt, ForceSectorSelect, Packet1Acked,
     Packet1Nacked, Packet1Garbled, Packet1Failed, Packet2Silent, Packet2Nacked,
     Packet2Failed, SelectFails, Return, Reply
<1>4. CASE UNCHANGED vars
  BY <1>4 DEF vars, ReadFresh, Holds
<1>5. QED
  BY <1>1, <1>2, <1>3, <1>4 DEF Next

\* A read that returns Ok returns the block as the tag holds it at that moment,
\* in the sector the reader says is selected (reader.rs:175-193).
THEOREM ReadsAreFresh == Spec => []ReadFresh
<1>1. Init => ReadFresh
  BY DEF Init, ReadFresh, NoCall
<1>2. IInv /\ ReadFresh /\ [Next]_vars => ReadFresh'
  BY ReadFreshStep
<1>3. QED
  BY SpecIInv, <1>1, <1>2, PTL DEF Spec

\* Only an acknowledged WRITE ends in a write that returns Ok.
LEMMA WriteStoredStep ==
    ASSUME IInv, WriteStored, [Next]_vars
    PROVE  WriteStored'
<1> SUFFICES ASSUME pc' = "idle", call'.op = "write", ret'.status = "ok"
             PROVE  /\ memory'[tag_sector'][call'.block] = call'.value
                    /\ sector' # Unknown => memory'[sector'][call'.block] = call'.value
  BY DEF WriteStored
<1>1. ~Application
  BY ApplicationCalls DEF NoCall, Reply, sector_select, read, SelectCall, ReadCall,
     ReturnAtOnce, ForceSectorSelect, TransceiveWithRetry
<1>2. CASE WriteAcked
  <2>1. tag_sector \in TagSectors /\ call.block \in Block
        /\ memory \in [TagSectors -> [Block -> Values]]
    BY <1>2, CallFields DEF IInv, TypeOK, TagTypeOK, WriteAcked
  <2>2. QED
    BY <1>2, <2>1 DEF IInv, WriteAcked, WriteReturns, SectorAgrees, TagStores, Return
<1>3. CASE Exchange /\ ~WriteAcked
  BY <1>3 DEF Exchange, ReadAnswered, ReadTooShort, WriteNacked, WriteGarbled, WriteReturns,
     NackStatus, CustomAnswered, TransceiveFailed, NextAttempt, ForceSectorSelect,
     Packet1Acked, Packet1Nacked, Packet1Garbled, Packet1Failed, Packet2Silent,
     Packet2Nacked, Packet2Failed, SelectFails, Return, Reply
<1>4. CASE UNCHANGED vars
  BY <1>4 DEF vars, WriteStored
<1>5. QED
  BY <1>1, <1>2, <1>3, <1>4 DEF Next

\* A write that returns Ok is in the tag, in the sector the reader says is
\* selected, however many attempts it took (reader.rs:199-208).
THEOREM WritesAreStored == Spec => []WriteStored
<1>1. Init => WriteStored
  BY DEF Init, WriteStored, NoCall
<1>2. IInv /\ WriteStored /\ [Next]_vars => WriteStored'
  BY WriteStoredStep
<1>3. QED
  BY SpecIInv, <1>1, <1>2, PTL DEF Spec

\* Nothing is left behind that a later call could trust after a transport
\* failure or a failed selection (reader.rs:159-164, 230-232).
THEOREM FailuresForget == Spec => []FailureForgets
<1>1. Init => FailureForgets
  BY DEF Init, FailureForgets, NoCall, Reply
<1>2. IInv /\ FailureForgets /\ [Next]_vars => FailureForgets'
  <2> SUFFICES ASSUME IInv, FailureForgets, [Next]_vars, pc' = "idle",
                      \/ ret'.status = "transceiver"
                      \/ call'.op = "select" /\ ret'.status \in {"nack", "invalid_length"}
               PROVE  sector' = Unknown /\ cache_block' = None
    BY DEF FailureForgets
  <2>1. ~Application
    BY ApplicationCalls DEF NoCall, Reply, sector_select, read, SelectCall, ReadCall,
       ReadOk, ReturnAtOnce, Return, ForceSectorSelect, TransceiveWithRetry
  <2>2. CASE Exchange
    BY <2>2 DEF Exchange, ReadAnswered, ReadTooShort, WriteAcked, WriteNacked, WriteGarbled,
       WriteReturns, NackStatus, CustomAnswered, TransceiveFailed, NextAttempt,
       ForceSectorSelect, StateUnknown, invalidate_cache, Packet1Acked, Packet1Nacked,
       Packet1Garbled, Packet1Failed, Packet2Silent, Packet2Nacked, Packet2Failed,
       SelectFails, Return, Reply, ReadOk, IInv, CallInv, readerVars
  <2>3. CASE UNCHANGED vars
    BY <2>3 DEF vars, FailureForgets
  <2>4. QED
    BY <2>1, <2>2, <2>3 DEF Next
<1>3. QED
  BY SpecIInv, <1>1, <1>2, PTL DEF Spec

\* A command issued with the sector unknown is sent once (reader.rs:152-154).
THEOREM RetriesAreNeverBlind == Spec => []NoBlindRetry
<1> DEFINE Once == intended = Unknown => attempt = 0
<1>1. Init => Once
  BY DEF Init
<1>2. IInv /\ Once /\ [Next]_vars => Once'
  BY DEF Next, Application, new, set_max_retries, read, write, transceive_custom,
     sector_select, RawCommand, InvalidateCache, mark_tag_state_unknown, ReturnAtOnce,
     TransceiveWithRetry, Exchange, ReadAnswered, ReadTooShort, WriteAcked, WriteNacked,
     WriteGarbled, WriteReturns, CustomAnswered, TransceiveFailed, MayRetry, NextAttempt,
     Packet1Acked, Packet1Nacked, Packet1Garbled, Packet1Failed, Packet2Silent,
     Packet2Nacked, Packet2Failed, SelectFails, Return, vars
<1>3. IInv /\ Once => NoBlindRetry
  BY ReaderAssumption DEF NoBlindRetry, IInv, CallInv, SelectTarget
<1>4. QED
  BY SpecIInv, <1>1, <1>2, <1>3, PTL DEF Spec

\* A command meant for a known sector changes its own block of that sector and
\* nothing else, on every attempt (reader.rs:135-139).
THEOREM WritesStayPut == Spec => WritesStayInIntendedSector
<1> DEFINE Stays == \A s \in TagSectors, b \in Block :
                       memory'[s][b] # memory[s][b] /\ pc = "transceive" =>
                           /\ b = call.block
                           /\ intended # Unknown => s = intended
<1>1. IInv /\ [Next]_vars => [Stays]_vars
  <2> SUFFICES ASSUME IInv, [Next]_vars, pc = "transceive", memory' # memory,
                      NEW s \in TagSectors, NEW b \in Block,
                      memory'[s][b] # memory[s][b]
               PROVE  b = call.block /\ (intended # Unknown => s = intended)
    OBVIOUS
  <2>1. TagStores(call.block, call.value)
    BY DEF Next, Application, new, set_max_retries, read, write, transceive_custom,
       sector_select, RawCommand, InvalidateCache, mark_tag_state_unknown,
       Exchange, ReadAnswered, ReadTooShort, WriteAcked, WriteNacked, WriteGarbled,
       CustomAnswered, TransceiveFailed, Packet1Acked, Packet1Nacked, Packet1Garbled,
       Packet1Failed, Packet2Silent, Packet2Nacked, Packet2Failed,
       TagReset, TagUnchanged, TagRefuses, TagMisses, tagVars, vars
  <2>2. memory \in [TagSectors -> [Block -> Values]] /\ tag_sector \in TagSectors
        /\ call.block \in Block
    BY CallFields DEF IInv, TypeOK, TagTypeOK, CallInv
  <2>3. s = tag_sector /\ b = call.block
    BY <2>1, <2>2 DEF TagStores
  <2>4. intended # Unknown => tag_sector = intended
    BY DEF IInv, CallInv, SectorAgrees
  <2>5. QED
    BY <2>3, <2>4
<1>2. QED
  BY SpecIInv, <1>1, PTL DEF Spec, WritesStayInIntendedSector

-----------------------------------------------------------------------------
(* The reader implements the store. *)

\* What the mapping needs to know of a call besides IInv: the retries never
\* overrun, a command in an unknown sector has not been repeated, and what the
\* application still has to settle is a custom command.
RetryInv ==
    /\ attempt <= max_retries
    /\ pc = "idle" => attempt = 0
    /\ intended = Unknown => attempt = 0
    /\ InCustom => call.op = "custom"

-----------------------------------------------------------------------------

\* A reader that starts has no retry behind it.
LEMMA InitRetryInv == Init => RetryInv
  BY DEF Init, RetryInv, DEFAULT_MAX_RETRIES, InCustom

\* The attempt counter is reset by every return and grows only below max_retries
\* (reader.rs:146-156).
LEMMA NextRetryInv == IInv /\ RetryInv /\ [Next]_vars => RetryInv'
<1> SUFFICES ASSUME IInv, RetryInv, [Next]_vars PROVE RetryInv'
  OBVIOUS
<1> USE DEF RetryInv, InCustom
<1>0. max_retries \in Nat /\ attempt \in Nat
  BY ReaderAssumption DEF IInv, TypeOK
<1>1. CASE Application
  BY <1>0, <1>1 DEF Application, new, set_max_retries, read, write, transceive_custom,
     sector_select, RawCommand, InvalidateCache, mark_tag_state_unknown, ReturnAtOnce,
     Return, TransceiveWithRetry, ForceSectorSelect, CustomCall, DEFAULT_MAX_RETRIES,
     readerVars
<1>2. CASE Exchange
  BY <1>0, <1>2 DEF Exchange, ReadAnswered, ReadTooShort, WriteAcked, WriteNacked,
     WriteGarbled, WriteReturns, CustomAnswered, TransceiveFailed, MayRetry, NextAttempt,
     ForceSectorSelect, Packet1Acked, Packet1Nacked, Packet1Garbled, Packet1Failed,
     Packet2Silent, Packet2Nacked, Packet2Failed, SelectFails, Return, readerVars
<1>3. CASE UNCHANGED vars
  BY <1>3 DEF vars
<1>4. QED
  BY <1>1, <1>2, <1>3 DEF Next

\* What the tag has selected is a sector the caller's command may land in.
LEMMA LandsInReach ==
    ASSUME IInv, pc # "ambiguous", sector = StoreView
    PROVE  tag_sector \in Store!Reach
  BY DEF IInv, TypeOK, TagTypeOK, SectorAgrees, Store!Reach

\* A command that is being sent has a try left.
LEMMA TriesLeft ==
    ASSUME IInv, RetryInv, pc \in {"transceive", "packet1", "packet2"}, call.op # "select"
    PROVE  /\ StoreTries \in Nat \ {0}
           /\ StoreView = intended
           /\ StoreRequest = call
           /\ pc = "transceive" => sector = StoreView
  BY ReaderAssumption DEF IInv, TypeOK, CallInv, RetryInv, StoreTries, StoreView, StoreRequest

\* Between two calls the caller sees the sector the reader reports.
LEMMA IdleView ==
    ASSUME pc = "idle"
    PROVE  StoreView = sector /\ StoreTries = 0 /\ StoreRequest = Store!Idle
  BY DEF StoreView, StoreTries, StoreRequest, NoCall, Store!Idle

\* A call that returns leaves the store without a request.
LEMMA ReturnsAnswer ==
    ASSUME NEW r, Return(r)
    PROVE  Store!Answer(r) /\ StoreView' = sector'
  BY DEF Return, Store!Answer, StoreView, StoreTries, StoreRequest, NoCall, Store!Idle

-----------------------------------------------------------------------------
(* The calls of the application. *)

\* A new activation is an activation of the store.
LEMMA NewIsActivate == new => Store!Activate
  BY ReturnsAnswer
  DEF new, TagReset, ReturnAtOnce, DEFAULT_MAX_RETRIES, Store!Activate, Reply, Store!Nothing

\* set_max_retries is seen by the store as it is (reader.rs:82-84).
LEMMA SetRetriesMapped ==
    ASSUME NEW n \in 0..MaxRetries, set_max_retries(n)
    PROVE  Store!SetRetries(n)
  BY IdleView, ReturnsAnswer
  DEF set_max_retries, ReturnAtOnce, tagVars, Store!SetRetries, Reply, Store!Nothing

\* A cache hit is a read of the store as it is now (reader.rs:176-180).
LEMMA HitIsRead ==
    ASSUME IInv, NEW b \in Block, pc = "idle", CacheHit(b),
           ReturnAtOnce(ReadCall(b), ReadOk(cache_data)), UNCHANGED <<tagVars, readerVars>>
    PROVE  StoreRequest = Store!Idle /\ Store!AnswerRead(b)
<1>1. StoreView = sector /\ StoreRequest = Store!Idle
  BY IdleView
<1>2. tag_sector \in Store!Reach
  BY <1>1, LandsInReach
<1>3. Holds(tag_sector, b, cache_data) /\ cache_data \in ReadData
  BY ReaderAssumption DEF CacheHit, IInv, TypeOK, CacheCoherent, InCustom
<1>4. Store!Holds(tag_sector, b, cache_data) /\ cache_data \in Store!ReadData
  BY <1>3 DEF Holds, ReadData, ReadIndex, Store!Holds, Store!ReadData, Store!ReadIndex
<1>5. Store!Answer([status |-> "ok", data |-> cache_data]) /\ StoreView' = sector'
  BY ReturnsAnswer DEF ReturnAtOnce, ReadOk
<1>6. QED
  BY <1>1, <1>2, <1>4, <1>5 DEF Store!AnswerRead, tagVars, readerVars

\* A command that needs the radio is asked of the store.
LEMMA CommandIsAsk ==
    ASSUME IInv, NEW c, c.op \in {"read", "write", "custom"}, pc = "idle",
           TransceiveWithRetry(c), UNCHANGED <<tagVars, readerVars>>
    PROVE  Store!Ask(c)
<1>1. max_retries \in Nat
  BY ReaderAssumption DEF IInv, TypeOK
<1>2. QED
  BY <1>1, IdleView
  DEF TransceiveWithRetry, tagVars, readerVars, Store!Ask, StoreView, StoreTries,
      StoreRequest, Reply, Store!Nothing

\* read, write and transceive_with_retry, whether the radio is used or not.
LEMMA CommandMapped ==
    ASSUME IInv,
           \/ \E b \in Block : read(b)
           \/ \E b \in Block, v \in Values : write(b, v) \/ transceive_custom(b, v)
    PROVE  Store!Next
<1>1. ASSUME NEW b \in Block, read(b)
      PROVE  Store!Next
  <2>1. CASE CacheHit(b)
    BY <1>1, <2>1, HitIsRead DEF read, TransceiveWithRetry, Store!Next, Block, Store!Block
  <2>2. CASE ~CacheHit(b)
    <3>1. Store!Ask(ReadCall(b))
      BY <1>1, <2>2, CommandIsAsk DEF read, ReadCall
    <3>2. Zero \in Values
      BY TagAssumption
    <3>3. QED
      BY <3>1, <3>2 DEF Store!Next, ReadCall, Block, Store!Block
  <2>3. QED
    BY <2>1, <2>2
<1>2. ASSUME NEW b \in Block, NEW v \in Values, write(b, v) \/ transceive_custom(b, v)
      PROVE  Store!Next
  <2>1. Store!Ask(WriteCall(b, v)) \/ Store!Ask(CustomCall(b, v))
    BY <1>2, CommandIsAsk DEF write, transceive_custom, WriteCall, CustomCall
  <2>2. QED
    BY <2>1 DEF Store!Next, WriteCall, CustomCall, Block, Store!Block
<1>3. QED
  BY <1>1, <1>2

\* sector_select: answered at once, or asked of the store with the view given up
\* (reader.rs:216-241).
LEMMA SelectMapped ==
    ASSUME IInv, NEW s \in 0..(MAX_SECTOR + 1), sector_select(s)
    PROVE  Store!Next
<1>0. MAX_SECTOR \in Nat /\ pc = "idle"
  BY TagAssumption DEF sector_select
<1>1. CASE s > MAX_SECTOR \/ sector = s
  <2>1. /\ \/ s > MAX_SECTOR /\ ReturnAtOnce(SelectCall(s), Reply("out_of_range"))
           \/ sector = s /\ ReturnAtOnce(SelectCall(s), Reply("ok"))
        /\ UNCHANGED <<readerVars, tagVars>>
    BY <1>0, <1>1 DEF sector_select
  <2>2. Store!SelectAtOnce(s)
    BY <1>0, <2>1, IdleView, ReturnsAnswer
    DEF ReturnAtOnce, Reply, Store!SelectAtOnce, readerVars, tagVars
  <2>3. QED
    BY <2>2 DEF Store!Next
<1>2. CASE s <= MAX_SECTOR /\ sector # s
  <2>1. Store!Ask(SelectCall(s))
    BY <1>0, <1>2, IdleView
    DEF sector_select, ForceSectorSelect, SelectCall, Reply, tagVars, Store!Ask,
        Store!Nothing, StoreView, StoreTries, StoreRequest
  <2>2. QED
    BY <1>0, <1>2, <2>1 DEF Store!Next, SelectCall
<1>3. QED
  BY <1>0, <1>1, <1>2

\* A custom command behind the reader's back lands where the caller thinks it does.
LEMMA RawMapped ==
    ASSUME IInv, NEW b \in Block, NEW v \in Values, RawCommand(b, v)
    PROVE  Store!AskRaw(b, v)
<1>1. pc = "idle" /\ StoreView = sector /\ StoreRequest = Store!Idle /\ StoreTries = 0
  BY IdleView DEF RawCommand
<1>2. tag_sector \in Store!Reach
  BY <1>1, LandsInReach
<1>3. UNCHANGED memory \/ Store!Store(tag_sector, b, v)
  BY DEF RawCommand, TagStores, TagMisses, TagUnchanged, TagReset, tagVars, Store!Store
<1>4. StoreView' = sector /\ StoreTries' = 0 /\ StoreRequest' = CustomCall(b, v)
  BY DEF RawCommand, StoreView, StoreTries, StoreRequest, readerVars
<1>5. QED
  BY <1>1, <1>2, <1>3, <1>4
  DEF RawCommand, Store!AskRaw, CustomCall, Reply, Store!Nothing, readerVars

\* invalidate_cache and mark_tag_state_unknown settle a custom command, or only
\* give up the view.
LEMMA SettleMapped ==
    ASSUME IInv, RetryInv, InvalidateCache \/ mark_tag_state_unknown
    PROVE  Store!Settle
<1>1. pc \in {"idle", "custom", "ambiguous"} /\ StoreView = sector /\ StoreTries = 0
  BY DEF InvalidateCache, mark_tag_state_unknown, StoreView, StoreTries
<1>2. StoreRequest.op \in {"none", "custom"}
  BY <1>1 DEF StoreRequest, RetryInv, InCustom, NoCall
<1>3. Store!Answer(Store!Nothing) /\ StoreView' \in {sector, Unknown}
  BY ReturnsAnswer
  DEF InvalidateCache, mark_tag_state_unknown, ReturnAtOnce, Reply, StateUnknown,
      Store!Nothing
<1>4. QED
  BY <1>1, <1>2, <1>3
  DEF Store!Settle, InvalidateCache, mark_tag_state_unknown, tagVars

-----------------------------------------------------------------------------
(* The answers. *)

\* A READ that is answered, or is not usable (reader.rs:183-192).
LEMMA ReadMapped ==
    ASSUME IInv, RetryInv, ReadAnswered \/ ReadTooShort
    PROVE  Store!Next
<1>0. pc = "transceive" /\ call.op = "read"
  BY DEF ReadAnswered, ReadTooShort
<1>1. /\ StoreTries \in Nat \ {0} /\ StoreView = sector /\ StoreRequest = call
      /\ tag_sector \in Store!Reach
  BY <1>0, TriesLeft, LandsInReach
<1>2. CASE ReadAnswered
  <2>1. PICK d \in ReadData : Holds(tag_sector, call.block, d) /\ Return(ReadOk(d))
    BY <1>2, ReadShape
  <2>2. Store!Holds(tag_sector, call.block, d) /\ d \in Store!ReadData
    BY <2>1 DEF Holds, ReadData, ReadIndex, Store!Holds, Store!ReadData, Store!ReadIndex
  <2>3. Store!Answer([status |-> "ok", data |-> d]) /\ StoreView' = sector'
    BY <2>1, ReturnsAnswer DEF ReadOk
  <2>4. Store!AnswerRead(call.block)
    BY <1>1, <1>2, <2>2, <2>3 DEF Store!AnswerRead, ReadAnswered, TagUnchanged, tagVars
  <2>5. QED
    BY <1>0, <1>1, <2>4 DEF Store!Next
<1>3. CASE ReadTooShort
  <2>1. Store!AnswerError("invalid_length")
    BY <1>0, <1>1, <1>3, ReturnsAnswer
    DEF ReadTooShort, TagRefuses, TagUnchanged, TagReset, tagVars, readerVars, Reply,
        Store!AnswerError, Store!MayApply
  <2>2. QED
    BY <2>1 DEF Store!Next, Store!Errors
<1>4. QED
  BY <1>2, <1>3

\* A WRITE that reached the tag is one in the sector the caller meant.
LEMMA StoresIsStore ==
    ASSUME NEW b, NEW v, TagStores(b, v)
    PROVE  Store!Store(tag_sector, b, v)
  BY DEF TagStores, Store!Store

\* What an exchange other than a WRITE does to the tag leaves its memory alone.
LEMMA MemoryKept ==
    ASSUME TagRefuses \/ TagMisses \/ TagAwaitsPacket2 \/ TagRefusesSector
               \/ \E s : TagSelects(s)
    PROVE  UNCHANGED memory
  BY DEF TagRefuses, TagMisses, TagAwaitsPacket2, TagRefusesSector, TagSelects,
         TagUnchanged, TagReset, tagVars

\* A WRITE that is acknowledged, refused, or answered with nothing usable
\* (reader.rs:201-207).
LEMMA WriteMapped ==
    ASSUME IInv, RetryInv, WriteAcked \/ WriteNacked \/ WriteGarbled
    PROVE  Store!Next
<1> USE DEF WriteAcked, WriteNacked, WriteGarbled, WriteReturns
<1>0. pc = "transceive" /\ call.op = "write"
  OBVIOUS
<1>1. /\ StoreTries \in Nat \ {0} /\ StoreView = sector /\ StoreRequest = call
      /\ tag_sector \in Store!Reach
  BY <1>0, TriesLeft, LandsInReach
<1>2. UNCHANGED max_retries /\ sector' = sector
  OBVIOUS
<1>3. CASE WriteAcked
  <2>1. Store!AnswerWrite
    BY <1>0, <1>1, <1>2, <1>3, StoresIsStore, ReturnsAnswer DEF Reply, Store!AnswerWrite
  <2>2. QED
    BY <2>1 DEF Store!Next
<1>4. CASE WriteNacked \/ WriteGarbled
  <2>1. PICK e \in {"nack", "invalid_length"} : Return(Reply(e))
    BY <1>4 DEF NackStatus
  <2>2. UNCHANGED memory \/ Store!Store(tag_sector, call.block, call.value)
    BY <1>4, MemoryKept, StoresIsStore
  <2>3. Store!MayApply
    BY <1>0, <1>1, <2>2 DEF Store!MayApply
  <2>4. Store!AnswerError(e)
    BY <1>0, <1>1, <1>2, <2>1, <2>3, ReturnsAnswer DEF Reply, Store!AnswerError
  <2>5. QED
    BY <2>4 DEF Store!Next, Store!Errors
<1>5. QED
  BY <1>3, <1>4

\* A custom command that was answered is delivered; the application settles it.
LEMMA CustomMapped ==
    ASSUME IInv, RetryInv, CustomAnswered
    PROVE  Store!Deliver
<1>0. pc = "transceive" /\ call.op = "custom"
  BY DEF CustomAnswered
<1>1. /\ StoreTries \in Nat \ {0} /\ StoreView = sector /\ StoreRequest = call
      /\ tag_sector \in Store!Reach
  BY <1>0, TriesLeft, LandsInReach
<1>2. UNCHANGED memory \/ Store!Store(tag_sector, call.block, call.value)
  BY MemoryKept, StoresIsStore DEF CustomAnswered
<1>3. Store!MayApply
  BY <1>0, <1>1, <1>2 DEF Store!MayApply
<1>4. StoreView' = sector /\ StoreTries' = 0 /\ StoreRequest' = call
  BY DEF CustomAnswered, StoreView, StoreTries, StoreRequest, readerVars
<1>5. QED
  BY <1>0, <1>1, <1>3, <1>4 DEF Store!Deliver, CustomAnswered, readerVars

\* A failed attempt is a try that was lost, or the last one, after which the
\* sector is not known any more (reader.rs:146-167).
LEMMA FailedMapped ==
    ASSUME IInv, RetryInv, TransceiveFailed
    PROVE  Store!Next
<1>0. pc = "transceive" /\ call.op \in {"read", "write", "custom"}
  BY DEF TransceiveFailed, IInv, CallInv
<1>1. /\ StoreTries \in Nat \ {0} /\ StoreView = intended /\ StoreView = sector
      /\ StoreRequest = call /\ tag_sector \in Store!Reach
  BY <1>0, TriesLeft, LandsInReach
<1>2. \/ UNCHANGED memory
      \/ call.op \in {"write", "custom"} /\ Store!Store(tag_sector, call.block, call.value)
  BY MemoryKept, StoresIsStore DEF TransceiveFailed
<1>3. Store!MayApply
  BY <1>1, <1>2 DEF Store!MayApply
<1>4. CASE MayRetry
  <2>1. attempt \in Nat /\ max_retries \in Nat /\ attempt < max_retries /\ intended # Unknown
    BY <1>4, ReaderAssumption DEF IInv, TypeOK, MayRetry
  <2>2. /\ attempt' = attempt + 1 /\ pc' = "packet1"
        /\ UNCHANGED <<intended, ret, call, max_retries>>
    BY <1>4 DEF TransceiveFailed, NextAttempt, ForceSectorSelect
  <2>3. /\ StoreTries = max_retries - attempt + 1 /\ StoreTries' = max_retries - attempt
        /\ StoreView' = intended /\ StoreRequest' = call
    BY <1>0, <2>1, <2>2 DEF StoreTries, StoreView, StoreRequest
  <2>4. StoreTries > 1 /\ StoreTries' = StoreTries - 1
    BY <2>1, <2>3
  <2>5. Store!Lose
    BY <1>1, <1>3, <2>2, <2>3, <2>4 DEF Store!Lose
  <2>6. QED
    BY <2>5 DEF Store!Next
<1>5. CASE ~MayRetry
  <2>1. Return(Reply("transceiver")) /\ sector' = Unknown /\ UNCHANGED <<max_retries, call>>
    BY <1>5 DEF TransceiveFailed, StateUnknown
  <2>2. Store!AnswerError("transceiver")
    BY <1>0, <1>1, <1>3, <2>1, ReturnsAnswer DEF Reply, Store!AnswerError
  <2>3. QED
    BY <2>2 DEF Store!Next, Store!Errors
<1>6. QED
  BY <1>4, <1>5

-----------------------------------------------------------------------------
(* SECTOR SELECT. *)

\* A selection that fails ends the call with an error and the sector unknown: the
\* caller's own sector_select, or the command a retry wanted to repeat
\* (reader.rs:239-263).
LEMMA SelectFailsMapped ==
    ASSUME IInv, RetryInv,
           \/ Packet1Nacked \/ Packet1Garbled \/ Packet1Failed
           \/ Packet2Nacked \/ Packet2Failed
    PROVE  Store!Next
<1> USE DEF Packet1Nacked, Packet1Garbled, Packet1Failed, Packet2Nacked, Packet2Failed,
            SelectFails
<1>0. /\ pc \in {"packet1", "packet2"} /\ sector = Unknown
      /\ call.op \in {"read", "write", "custom", "select"}
  BY DEF IInv, CallInv
<1>1. PICK e \in Store!Errors : Return(Reply(e))
  BY DEF Store!Errors
<1>2. UNCHANGED <<memory, max_retries>> /\ sector' = Unknown
  BY <1>0, MemoryKept DEF readerVars
<1>3. StoreRequest = call
  BY <1>0 DEF StoreRequest
<1>4. Store!Answer([status |-> e, data |-> None]) /\ StoreView' = Unknown
  BY <1>1, <1>2, ReturnsAnswer DEF Reply
<1>5. CASE call.op = "select"
  <2>1. Store!AnswerSelect
    BY <1>2, <1>3, <1>4, <1>5 DEF Store!AnswerSelect
  <2>2. QED
    BY <2>1 DEF Store!Next
<1>6. CASE call.op # "select"
  <2>1. StoreTries \in Nat \ {0}
    BY <1>0, <1>6, TriesLeft
  <2>2. Store!AnswerError(e)
    BY <1>0, <1>2, <1>3, <1>4, <1>6, <2>1 DEF Store!AnswerError, Store!MayApply
  <2>3. QED
    BY <2>2 DEF Store!Next
<1>7. QED
  BY <1>5, <1>6

\* The exchanges of a selection that goes well are invisible, except for the one
\* that completes the caller's sector_select (reader.rs:259-267).
LEMMA SelectGoesOnMapped ==
    ASSUME IInv, RetryInv, Packet1Acked \/ Packet2Silent
    PROVE  Store!Next \/ UNCHANGED Store!storeVars
<1>1. CASE Packet1Acked
  BY <1>1, MemoryKept
  DEF Packet1Acked, readerVars, Store!storeVars, StoreView, StoreTries, StoreRequest
<1>2. CASE Packet2Silent /\ call.op # "select"
  <2>1. UNCHANGED memory
    BY <1>2, MemoryKept DEF Packet2Silent
  <2>2. QED
    BY <1>2, <2>1
    DEF Packet2Silent, Store!storeVars, StoreView, StoreTries, StoreRequest
<1>3. CASE Packet2Silent /\ call.op = "select"
  <2>1. /\ call.sector \in TagSectors /\ sector' = call.sector
        /\ Return(Reply("ok")) /\ UNCHANGED <<memory, max_retries>>
    BY <1>3 DEF Packet2Silent, SelectTarget, TagSelects
  <2>2. StoreRequest = call
    BY <1>3 DEF Packet2Silent, StoreRequest
  <2>3. Store!Answer([status |-> "ok", data |-> None]) /\ StoreView' = call.sector
    BY <2>1, ReturnsAnswer DEF Reply
  <2>4. Store!AnswerSelect
    BY <1>3, <2>1, <2>2, <2>3 DEF Store!AnswerSelect
  <2>5. QED
    BY <2>4 DEF Store!Next
<1>4. QED
  BY <1>1, <1>2, <1>3

-----------------------------------------------------------------------------

\* A reader that starts is a store that starts.
LEMMA InitMapped == Init => Store!Init
  BY DEF Init, TagInit, DEFAULT_MAX_RETRIES, NoCall, Reply, Block, Store!Init, Store!Block,
         Store!Idle, Store!Nothing, StoreView, StoreTries, StoreRequest

\* Nothing moves in the store when nothing moves in the reader and the tag.
LEMMA StutterMapped == UNCHANGED vars => UNCHANGED Store!storeVars
  BY DEF vars, Store!storeVars, StoreView, StoreTries, StoreRequest

\* Every step of the reader, the link and the tag is one of the store.
LEMMA StepMapped == IInv /\ RetryInv /\ [Next]_vars => [Store!Next]_(Store!storeVars)
<1> SUFFICES ASSUME IInv, RetryInv, [Next]_vars
             PROVE  Store!Next \/ UNCHANGED Store!storeVars
  OBVIOUS
<1>1. CASE Application
  <2>1. CASE new
    BY <2>1, NewIsActivate DEF Store!Next
  <2>2. CASE \E n \in 0..MaxRetries : set_max_retries(n)
    BY <2>2, SetRetriesMapped DEF Store!Next
  <2>3. CASE \/ \E b \in Block : read(b)
             \/ \E b \in Block, v \in Values : write(b, v) \/ transceive_custom(b, v)
    BY <2>3, CommandMapped
  <2>4. CASE \E b \in Block, v \in Values : RawCommand(b, v)
    BY <2>4, RawMapped DEF Store!Next, Block, Store!Block
  <2>5. CASE \E s \in 0..(MAX_SECTOR + 1) : sector_select(s)
    BY <2>5, SelectMapped
  <2>6. CASE InvalidateCache \/ mark_tag_state_unknown
    BY <2>6, SettleMapped DEF Store!Next
  <2>7. QED
    BY <1>1, <2>1, <2>2, <2>3, <2>4, <2>5, <2>6 DEF Application
<1>2. CASE Exchange
  <2>1. CASE ReadAnswered \/ ReadTooShort
    BY <2>1, ReadMapped
  <2>2. CASE WriteAcked \/ WriteNacked \/ WriteGarbled
    BY <2>2, WriteMapped
  <2>3. CASE CustomAnswered
    BY <2>3, CustomMapped DEF Store!Next
  <2>4. CASE TransceiveFailed
    BY <2>4, FailedMapped
  <2>5. CASE \/ Packet1Nacked \/ Packet1Garbled \/ Packet1Failed
             \/ Packet2Nacked \/ Packet2Failed
    BY <2>5, SelectFailsMapped
  <2>6. CASE Packet1Acked \/ Packet2Silent
    BY <2>6, SelectGoesOnMapped
  <2>7. QED
    BY <1>2, <2>1, <2>2, <2>3, <2>4, <2>5, <2>6 DEF Exchange
<1>3. CASE UNCHANGED vars
  BY <1>3, StutterMapped
<1>4. QED
  BY <1>1, <1>2, <1>3 DEF Next

\* The command layer is the store it promises to be, whatever the tag, the link
\* and the number of retries (reader.rs:55-268).
THEOREM ReaderIsStore == Spec => ImplementsStore
<1>1. Spec => []RetryInv
  BY InitRetryInv, NextRetryInv, SpecIInv, PTL DEF Spec
<1>2. QED
  BY <1>1, InitMapped, StepMapped, SpecIInv, PTL DEF Spec, ImplementsStore, Store!Spec

=============================================================================
