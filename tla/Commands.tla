------------------------------ MODULE Commands ------------------------------
(***************************************************************************)
(* The frames of the Type 2 Tag command set (src/type2/mod.rs): commands   *)
(* and their bytes, and the answers a command can have.  T2TReader sends   *)
(* and receives these without spelling them out.                           *)
(***************************************************************************)
EXTENDS Tlv

CONSTANTS
    CMD_READ,           \* 0x30
    CMD_WRITE,          \* 0xA2
    CMD_SECTOR_SELECT,  \* 0xC2
    ACK                 \* 0x0A

ASSUME CommandAssumption ==
    /\ {CMD_READ, CMD_WRITE, CMD_SECTOR_SELECT} \subseteq Byte
    /\ CMD_READ # CMD_WRITE /\ CMD_READ # CMD_SECTOR_SELECT
    /\ CMD_WRITE # CMD_SECTOR_SELECT
    /\ ACK \in 0..(NIBBLE - 1)

FRAME_CAPACITY == 20              \* a FrameVec without alloc
READ_SIZE      == 4 * BLOCK_SIZE  \* bytes a READ returns

CommandCodes == {CMD_READ, CMD_WRITE, CMD_SECTOR_SELECT}

Read(b)              == [cmd |-> "read", block_no |-> b]
Write(b, d)          == [cmd |-> "write", block_no |-> b, data |-> d]
SectorSelectPart1    == [cmd |-> "part1"]
SectorSelectPart2(s) == [cmd |-> "part2", sector_no |-> s]

\* to_bytes; what did not fit would be missing without notice.
CommandToBytes(c) ==
    LET head == CASE c.cmd = "read"  -> <<CMD_READ, c.block_no>>
                  [] c.cmd = "write" -> <<CMD_WRITE, c.block_no>>
                  [] c.cmd = "part1" -> <<CMD_SECTOR_SELECT, BYTE - 1>>
                  [] c.cmd = "part2" -> <<c.sector_no, 0, 0, 0>>
        sent == try_extend(<<>>, head, FRAME_CAPACITY).vec
    IN IF c.cmd = "write" THEN try_extend(sent, c.data, FRAME_CAPACITY).vec ELSE sent

\* try_from: the command, or the error.
ParseCommand(raw) ==
    LET n     == Len(raw)
        Ok(c) == [status |-> "ok", command |-> c]
    IN CASE n >= 2 /\ raw[1] = CMD_READ -> Ok(Read(raw[2]))
         [] n >= 2 + BLOCK_SIZE /\ raw[1] = CMD_WRITE ->
              Ok(Write(raw[2], Slice(raw, 2, BLOCK_SIZE)))
         [] n >= 2 /\ raw[1] = CMD_SECTOR_SELECT /\ raw[2] = BYTE - 1 -> Ok(SectorSelectPart1)
         [] n >= 1 /\ raw[1] \notin CommandCodes -> [status |-> "unknown_command"]
         [] OTHER -> [status |-> "invalid_length"]

Answer(k, v) == [answer |-> k, value |-> v]

\* The four bits of an ACK or NACK.
Bits_AllEight(b) == b
Bits(b)          == b % NIBBLE

AckOrNack(b) == IF Bits(b) = ACK THEN Answer("ack", 0) ELSE Answer("nack", Bits(b))

\* The answer a frame is, or None for InvalidLength.
parse_answer(c, raw) ==
    CASE c.cmd = "read" /\ Len(raw) >= READ_SIZE -> Answer("data", Slice(raw, 0, READ_SIZE))
      [] c.cmd \in {"write", "part1"} /\ raw # <<>> -> AckOrNack(raw[1])
      [] c.cmd = "part2" /\ raw = <<>> -> Answer("passive_ack", 0)
      [] c.cmd = "part2" /\ raw # <<>> -> Answer("nack", Bits(raw[1]))
      [] OTHER -> None

\* The frame the documentation of T2TTransceiver prescribes for an answer.
AnswerFrame(a) ==
    CASE a.answer = "data" -> a.value
      [] a.answer = "ack" -> <<ACK>>
      [] a.answer = "nack" -> <<a.value>>
      [] a.answer = "passive_ack" -> <<>>

=============================================================================
