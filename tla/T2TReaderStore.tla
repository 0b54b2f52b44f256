--------------------------- MODULE T2TReaderStore ---------------------------
(***************************************************************************)
(* T2TReader implements SectorStore: cache, retries, the selection         *)
(* protocol and the resets of the tag are not visible to its caller.       *)
(***************************************************************************)
EXTENDS T2TReader

\* During a command the caller's sector is the one the command was meant for:
\* the reader itself may have forgotten it and be selecting it again.
StoreView ==
    IF pc \in {"transceive", "packet1", "packet2"}
        THEN IF call.op = "select" THEN Unknown ELSE intended
        ELSE sector

\* A command in a known sector may still be sent once for every retry left, and
\* this time; one in an unknown sector is not repeated.
StoreTries ==
    IF pc \in {"transceive", "packet1", "packet2"} /\ call.op # "select"
        THEN IF intended = Unknown THEN 1 ELSE max_retries - attempt + 1
        ELSE 0

StoreRequest == IF pc = "idle" THEN NoCall ELSE call

Store == INSTANCE SectorStore WITH
            view <- StoreView, request <- StoreRequest, tries <- StoreTries, reply <- ret

\* T2TReader is a SectorStore: every exchange with the tag, successful, refused,
\* lost or followed by a reset of the tag to sector 0, looks to the caller like a
\* step of the store or like nothing at all, and no command, a custom one that is
\* not idempotent included, takes effect more often than max_retries allows
\* (reader.rs:55-268).
ImplementsStore == Store!Spec

=============================================================================
