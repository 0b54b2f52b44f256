------------------------------ MODULE TlvScan ------------------------------
(***************************************************************************)
(* The scanner fed with every byte stream over an alphabet, and compared   *)
(* with the parser that will be given what was read.  Each step reads one  *)
(* more byte of the data area; the bytes after the Terminator, which the   *)
(* reader never fetches, are added too, to compare with a full read.       *)
(***************************************************************************)
EXTENDS TlvScanner

CONSTANTS
    Alphabet,   \* the bytes the data area is made of
    MaxStream   \* length of the longest data area

ASSUME ScanAssumption == Alphabet \subseteq Byte /\ MaxStream \in Nat

VARIABLES
    stream,  \* the data area so far
    scan,    \* state of the scanner
    stop     \* number of bytes read when the scanner said stop, or None

scanVars == <<stream, scan, stop>>

Init ==
    /\ stream = <<>>
    /\ scan = TlvScanner
    /\ stop = None

\* The loop body of read_data_area: push the byte, feed the scanner.
Read(b) ==
    /\ stop = None
    /\ stream' = Append(stream, b)
    /\ IF Terminates(scan, b)
         THEN stop' = Len(stream') /\ UNCHANGED scan
         ELSE scan' = feed(scan, b) /\ UNCHANGED stop

\* A byte of the data area behind the Terminator.
Unread(b) ==
    /\ stop # None
    /\ stream' = Append(stream, b)
    /\ UNCHANGED <<scan, stop>>

Next ==
    /\ Len(stream) < MaxStream
    /\ \E b \in Alphabet : Read(b) \/ Unread(b)

Spec == Init /\ [][Next]_scanVars

-----------------------------------------------------------------------------

TypeOK ==
    /\ stream \in Seq(Byte)
    /\ scan.state \in {"tag", "length", "length_msb", "length_lsb", "value"}
    /\ scan.left \in 0..(BYTE * BYTE - 1)
    /\ stop \in 1..MaxStream \cup {None}

EndsInTerminator(p) ==
    p.status = "ok" /\ p.tlvs # <<>> /\ p.tlvs[Len(p.tlvs)].tag = TLV_TERMINATOR

\* Stopping early changes nothing: what the parser makes of the bytes up to the
\* Terminator is what it makes of the whole data area, for any bytes behind it
\* (reader.rs:283-286, 351-353).
EarlyStopHarmless ==
    stop # None => parse_tlvs(SubSeq(stream, 1, stop)) = parse_tlvs(stream)

\* The scanner stops at the Terminator the parser stops at, not before and not
\* later: a 0xFE inside a value, in a length or behind an empty block is no
\* Terminator to either (reader.rs:643-649).  Where the parser gives up on a
\* malformed control block the scanner reads on.
ScannerAgreesWithParser ==
    LET p == ParseFrom(stream, 0)
    IN /\ EndsInTerminator(p) => stop # None
       /\ stop # None /\ p.status = "ok" => EndsInTerminator(ParseFrom(SubSeq(stream, 1, stop), 0))

\* A stream the parser accepts in full leaves the scanner where a tag is expected,
\* so that the next block is recognised.
ScannerInStep ==
    stop = None /\ ParseFrom(stream, 0).status = "ok" => scan = TlvScanner

=============================================================================
