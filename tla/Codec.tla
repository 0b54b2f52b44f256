------------------------------- MODULE Codec -------------------------------
(***************************************************************************)
(* TLV blocks, Capability Containers, commands and answers, decoded from   *)
(* bytes and encoded again (src/tlv.rs, src/type2/tlv.rs, src/type2/cc.rs, *)
(* src/tag.rs, src/type2/mod.rs): every control block and container,       *)
(* values of every length around a change of format and around the largest *)
(* one, and the frames around every length the code checks.                *)
(***************************************************************************)
EXTENDS CapabilityContainer, Commands

CONSTANT Lengths   \* bound: the lengths of the values

ASSUME CodecAssumption ==
    /\ Lengths \subseteq Nat
    /\ TLV_CAPACITY > 0                 \* parse_tlvs can return a block (type2/tlv.rs:236)
    /\ BLOCK_SIZE + 2 <= FRAME_CAPACITY \* a WRITE fits a FrameVec (vec.rs:24)

VARIABLES
    kind,     \* "tlv", "cc", "command" or "answer"
    asked,    \* the command an answer belongs to
    bytes,    \* what is decoded; None for a block made by the application
    pc,       \* "bytes", "decoded", "encoded" or "refused"
    decoded,  \* the block, container, command or answer
    encoded   \* its bytes; None when they are refused

codecVars == <<kind, asked, bytes, pc, decoded, encoded>>

-----------------------------------------------------------------------------
(* Inputs. *)

LongForm(n) == <<LONG_LENGTH, n \div BYTE, n % BYTE>>

Value(n) == [i \in 1..n |-> i % BYTE]

\* Blocks whose value has n bytes, with the length in either format.
ValueInputs(n) ==
    LET forms == IF n < LONG_LENGTH THEN {<<n>>, LongForm(n)} ELSE {LongForm(n)}
    IN {<<t>> \o l \o Value(n) : t \in ValueTags, l \in forms}

ControlInputs == {<<t, 3>> \o v : t \in ControlTags, v \in Byte \X Byte \X Byte}

TlvInputs == {<<TLV_NULL>>, <<TLV_TERMINATOR>>} \cup ControlInputs
                \cup UNION {ValueInputs(n) : n \in {m \in Lengths : m < BYTE * BYTE}}

CcInputs == {<<CC_MAGIC>> \o v : v \in Byte \X Byte \X Byte} \cup {<<0, NIBBLE, 1, 0>>}
                \cup {SubSeq(<<CC_MAGIC, NIBBLE, 1, 0, 7>>, 1, n) : n \in 0..5}

CommandInputs == {SubSeq(<<c, x, 1, 2, 3, 4, 5>>, 1, n) : c \in Byte, x \in Byte, n \in 0..7}

AnswerInputs == {<<b>> : b \in Byte}
                    \cup {Value(n) : n \in {0, 2, READ_SIZE - 1, READ_SIZE, READ_SIZE + 1}}

Asked == {Read(3), Write(4, Value(BLOCK_SIZE)), SectorSelectPart1, SectorSelectPart2(1)}

-----------------------------------------------------------------------------

\* What the bytes stand for; None when they are refused.
Decoded(k, b) ==
    LET p == parse_tlvs(b)
        c == CcFromSlice(b)
        m == ParseCommand(b)
    IN CASE k = "tlv" -> IF p.status = "ok" THEN p.tlvs[1] ELSE None
         [] k = "cc" -> IF c.status = "ok" THEN c ELSE None
         [] k = "command" -> IF m.status = "ok" THEN m.command ELSE None
         [] k = "answer" -> parse_answer(asked, b)

Encoded(k, v) ==
    CASE k = "tlv" -> IF to_bytes(v).status = "ok" THEN to_bytes(v).vec ELSE None
      [] k = "cc" -> CcToBytes(v)
      [] k = "command" -> CommandToBytes(v)
      [] k = "answer" -> AnswerFrame(v)

Init ==
    /\ \/ /\ \/ kind = "tlv" /\ bytes \in TlvInputs /\ asked = None
             \/ kind = "cc" /\ bytes \in CcInputs /\ asked = None
             \/ kind = "command" /\ bytes \in CommandInputs /\ asked = None
             \/ kind = "answer" /\ bytes \in AnswerInputs /\ asked \in Asked
          /\ pc = "bytes"
          /\ decoded = None
       \/ /\ kind = "tlv"
          /\ asked = None
          /\ bytes = None
          /\ pc = "decoded"
          /\ decoded \in {Block(t, Value(n)) : t \in ValueTags, n \in Lengths}
    /\ encoded = None

Decode ==
    /\ pc = "bytes"
    /\ decoded' = Decoded(kind, bytes)
    /\ pc' = IF decoded' = None THEN "refused" ELSE "decoded"
    /\ UNCHANGED <<kind, asked, bytes, encoded>>

Encode ==
    /\ pc = "decoded"
    /\ encoded' = Encoded(kind, decoded)
    /\ pc' = IF encoded' = None THEN "refused" ELSE "encoded"
    /\ UNCHANGED <<kind, asked, bytes, decoded>>

Next == Decode \/ Encode

Spec == Init /\ [][Next]_codecVars

-----------------------------------------------------------------------------

\* What a block, a container, a command or an answer says survives encoding, for
\* every position, size and page exponent of a control block (a size byte of 0 and
\* 256 included), for lengths of both formats, every version and access condition,
\* and frames with more bytes than needed (type2/tlv.rs:118-129, 182-193, 354-390;
\* cc.rs:75-82; mod.rs:152-170, 226-263).
DecodedSurvives == pc = "encoded" => Decoded(kind, encoded) = decoded

\* The bytes themselves survive too, but for what the decoder does not keep: a
\* long length where a short one does, the upper nibble of the third byte of a
\* Memory Control value and of an ACK or NACK, and what follows a container or in
\* a frame.
BytesSurvive ==
    pc = "encoded" /\ bytes # None =>
        \/ kind \in {"tlv", "cc", "command"} /\ encoded = bytes
        \/ /\ kind = "tlv" /\ decoded.tag \in ValueTags
           /\ bytes[2] = LONG_LENGTH /\ Len(decoded.value) < LONG_LENGTH
        \/ /\ kind = "tlv" /\ decoded.tag = TLV_MEMORY_CONTROL
           /\ SubSeq(encoded, 1, 4) = SubSeq(bytes, 1, 4)
           /\ encoded[5] = bytes[5] % NIBBLE
        \/ kind \in {"cc", "command"} /\ encoded = SubSeq(bytes, 1, Len(encoded))
        \/ /\ kind = "answer"
           /\ encoded = IF decoded.answer \in {"ack", "nack"}
                            THEN <<bytes[1] % NIBBLE>> ELSE SubSeq(bytes, 1, Len(encoded))

\* The L field of an encoded block is the length of the bytes that follow it, and
\* what value_length says: a value too long for the field is refused, never
\* declared with a truncated length (type2/tlv.rs:371-373, 402-405).
LengthDeclared ==
    kind = "tlv" /\ pc = "encoded" /\ decoded.tag \in ControlTags \cup ValueTags =>
        LET l == parse_tlv_length(encoded, 1)
        IN l.len = value_length(decoded) /\ Len(encoded) = 1 + l.size + l.len

=============================================================================
