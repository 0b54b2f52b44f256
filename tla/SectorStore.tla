---------------------------- MODULE SectorStore ----------------------------
(***************************************************************************)
(* What the command layer of T2TReader promises its caller: a store of     *)
(* sectors of blocks, in which a call works on the sector the caller was   *)
(* told is selected.  There is no radio, no cache, no retry and no         *)
(* selection protocol here.  view is what current_sector() reports: while  *)
(* it is Unknown a command may land in any sector of the tag, while it is  *)
(* known it lands in that one.  A command may take effect more than once,  *)
(* but no more often than the retries the caller has allowed, and only     *)
(* once in a sector that is not known.                                     *)
(***************************************************************************)
EXTENDS Integers

CONSTANTS MAX_SECTOR, BLOCKS_PER_SECTOR, READ_BLOCKS, TagSectors, Values,
          MaxRetries, Unknown, None

VARIABLES
    memory,       \* memory[s][b] is the content of block b of sector s
    view,         \* the sector calls work on, or Unknown
    max_retries,  \* how often the caller lets a command be repeated
    request,      \* the call in progress; op "none" between calls
    tries,        \* how often the command in progress may still take effect
    reply         \* what the last call returned

storeVars == <<memory, view, max_retries, request, tries, reply>>

Block     == 0..(BLOCKS_PER_SECTOR - 1)
ReadIndex == 0..(READ_BLOCKS - 1)
ReadData  == [ReadIndex -> Values]
Idle      == [op |-> "none"]
Nothing   == [status |-> "none", data |-> None]
Errors    == {"transceiver", "nack", "invalid_length"}

Init ==
    /\ memory \in [TagSectors -> [Block -> Values]]
    /\ view = 0
    /\ max_retries = 1
    /\ request = Idle
    /\ tries = 0
    /\ reply = Nothing

-----------------------------------------------------------------------------

\* The sectors a command may land in.
Reach == IF view = Unknown THEN TagSectors ELSE {view}

Holds(s, b, d) ==
    \A i \in ReadIndex :
        b + i < BLOCKS_PER_SECTOR => d[i] = memory[s][b + i]

Store(s, b, v) == memory' = [memory EXCEPT ![s][b] = v]

\* The command in progress takes effect in the store, or does not.
MayApply ==
    \/ UNCHANGED memory
    \/ /\ request.op \in {"write", "custom"}
       /\ \E s \in Reach : Store(s, request.block, request.value)

-----------------------------------------------------------------------------

\* A command asked for in a sector that is not known is tried once.
Ask(c) ==
    /\ request = Idle
    /\ request' = c
    /\ tries' = IF c.op = "select" THEN 0
                ELSE IF view = Unknown THEN 1 ELSE max_retries + 1
    /\ reply' = Nothing
    /\ view' = IF c.op = "select" THEN Unknown ELSE view
    /\ UNCHANGED <<memory, max_retries>>

\* An attempt was lost; the command will be tried again.
Lose ==
    /\ tries > 1
    /\ tries' = tries - 1
    /\ MayApply
    /\ UNCHANGED <<view, max_retries, request, reply>>

\* A custom command was answered; the caller has yet to settle it.
Deliver ==
    /\ request.op = "custom"
    /\ tries > 0
    /\ tries' = 0
    /\ MayApply
    /\ UNCHANGED <<view, max_retries, request, reply>>

\* A custom command the caller sends itself takes effect at once, or not at all.
AskRaw(b, v) ==
    /\ request = Idle
    /\ request' = [op |-> "custom", block |-> b, value |-> v]
    /\ reply' = Nothing
    /\ UNCHANGED memory \/ \E s \in Reach : Store(s, b, v)
    /\ UNCHANGED <<view, max_retries, tries>>

Answer(r) ==
    /\ request' = Idle
    /\ tries' = 0
    /\ reply' = r

\* A block is read as it is now, from the store or from a copy.
AnswerRead(b) ==
    /\ \E s \in Reach, d \in ReadData :
          Holds(s, b, d) /\ Answer([status |-> "ok", data |-> d])
    /\ UNCHANGED <<memory, view, max_retries>>

\* Ok: the write is applied now.
AnswerWrite ==
    /\ request.op = "write"
    /\ tries > 0
    /\ \E s \in Reach : Store(s, request.block, request.value)
    /\ Answer([status |-> "ok", data |-> None])
    /\ UNCHANGED <<view, max_retries>>

\* A command that fails may have been applied; after a failure of the transport
\* the sector is no longer known.
AnswerError(e) ==
    /\ request.op \in {"read", "write", "custom"}
    /\ tries > 0
    /\ MayApply
    /\ view' \in (IF e = "transceiver" THEN {Unknown} ELSE {view, Unknown})
    /\ Answer([status |-> e, data |-> None])
    /\ UNCHANGED max_retries

\* Ok: the selected sector is one the tag has.  Any error leaves it unknown.
AnswerSelect ==
    /\ request.op = "select"
    /\ \/ /\ request.sector \in TagSectors
          /\ view' = request.sector
          /\ Answer([status |-> "ok", data |-> None])
       \/ /\ view' = Unknown
          /\ \E e \in Errors : Answer([status |-> e, data |-> None])
    /\ UNCHANGED <<memory, max_retries>>

\* Selecting the selected sector, or one that does not exist.
SelectAtOnce(s) ==
    /\ request = Idle
    /\ \/ s > MAX_SECTOR /\ Answer([status |-> "out_of_range", data |-> None])
       \/ s = view /\ Answer([status |-> "ok", data |-> None])
    /\ UNCHANGED <<memory, view, max_retries>>

\* The caller settles a custom command, or declares the state of the tag unknown.
Settle ==
    /\ request.op \in {"none", "custom"}
    /\ tries = 0
    /\ view' \in {view, Unknown}
    /\ Answer(Nothing)
    /\ UNCHANGED <<memory, max_retries>>

SetRetries(n) ==
    /\ request = Idle
    /\ max_retries' = n
    /\ Answer(Nothing)
    /\ UNCHANGED <<memory, view>>

\* The tag is activated anew: sector 0, default settings, no call in progress.
Activate ==
    /\ view' = 0
    /\ max_retries' = 1
    /\ Answer(Nothing)
    /\ UNCHANGED memory

Next ==
    \/ Lose
    \/ Deliver
    \/ \E n \in 0..MaxRetries : SetRetries(n)
    \/ \E b \in Block, v \in Values :
          \/ Ask([op |-> "read", block |-> b])
          \/ Ask([op |-> "write", block |-> b, value |-> v])
          \/ Ask([op |-> "custom", block |-> b, value |-> v])
          \/ AskRaw(b, v)
    \/ \E s \in 0..(MAX_SECTOR + 1) : SelectAtOnce(s)
    \/ \E s \in 0..MAX_SECTOR : Ask([op |-> "select", sector |-> s])
    \/ \E b \in Block : request = Idle /\ AnswerRead(b)
    \/ request.op = "read" /\ AnswerRead(request.block)
    \/ AnswerWrite
    \/ \E e \in Errors : AnswerError(e)
    \/ AnswerSelect
    \/ Settle
    \/ Activate

Spec == Init /\ [][Next]_storeVars

=============================================================================
