--------------------------- MODULE TlvScanProofs ---------------------------
(***************************************************************************)
(* The scanner that follows the bytes one by one and the parser that is    *)
(* given all of them agree, for every data area, whatever bytes it is made *)
(* of and however long it is.                                              *)
(***************************************************************************)
EXTENDS TlvScan, TlvProofs, SequenceTheorems

\* Once the scanner has stopped, the bytes behind the Terminator change nothing.
StoppedInv ==
    /\ stop \in 1..Len(stream)
    /\ \E r : Stopped(r) /\ Settled(SubSeq(stream, 1, stop), r)

\* The inductive invariant.
ScanInv ==
    /\ TypeOK
    /\ Len(stream) <= MaxStream
    /\ IF stop = None THEN Following(stream, scan) ELSE StoppedInv

-----------------------------------------------------------------------------
(* The invariant. *)

\* A scanner that has read nothing is in front of the first block.
LEMMA InitScanInv == Init => ScanInv
<1> SUFFICES ASSUME Init PROVE ScanInv
  OBVIOUS
<1>0. stream = <<>> /\ scan = TlvScanner /\ stop = None
  BY DEF Init
<1>1. BYTE \in Nat /\ BYTE > 6 /\ BYTE * BYTE - 1 \in Nat
  <2>1. BYTE \in Nat /\ BYTE > 6
    BY TlvAssumption
  <2>2. QED
    BY <2>1
<1>2. TypeOK
  BY <1>0, <1>1 DEF TypeOK, TlvScanner, ScanState
<1>3. Following(stream, scan)
  BY <1>0, FollowingStarts
<1>4. QED
  BY <1>0, <1>2, <1>3, ScanAssumption DEF ScanInv

\* Every byte read keeps the scanner in step with the blocks.
LEMMA ReadStep ==
    ASSUME ScanInv, NEW b \in Byte, Len(stream) < MaxStream, Read(b)
    PROVE  ScanInv'
<1>0. /\ stream \in Seq(Byte) /\ stream' = stream \o <<b>> /\ stream' \in Seq(Byte)
      /\ Len(stream') = Len(stream) + 1 /\ Len(stream) \in Nat /\ stop = None
      /\ stream' = Append(stream, b) /\ Len(stream') <= MaxStream
      /\ Len(stream') \in 1..MaxStream
  BY ScanAssumption DEF ScanInv, TypeOK, Read
<1>1. CASE Terminates(scan, b)
  <2>1. stop' = Len(stream') /\ scan' = scan
    BY <1>1 DEF Read
  <2>2. stop' # None
    BY <1>0, <2>1, AddressAssumption
  <2>3. StoppedInv'
    <3>1. Following(stream, scan)
      BY <1>0 DEF ScanInv
    <3>2. PICK r : Stopped(r) /\ Settled(stream', r)
      BY <1>0, <1>1, <3>1, StopSettles
    <3>3. SubSeq(stream', 1, stop') = stream' /\ stop' \in 1..Len(stream')
      BY <1>0, <2>1
    <3>4. QED
      BY <3>2, <3>3 DEF StoppedInv
  <2>4. TypeOK'
    BY <1>0, <2>1 DEF TypeOK, ScanInv
  <2>5. QED
    BY <1>0, <2>2, <2>3, <2>4 DEF ScanInv
<1>2. CASE ~Terminates(scan, b)
  <2>1. stop' = None /\ scan' = feed(scan, b)
    BY <1>0, <1>2 DEF Read
  <2>2. Following(stream', scan')
    BY <1>0, <1>2, <2>1, FollowingGoesOn DEF ScanInv
  <2>3. /\ scan'.state \in {"tag", "length", "length_msb", "length_lsb", "value"}
        /\ scan'.left \in 0..(BYTE * BYTE - 1)
    <3>1. PICK o \in 0..Len(stream') : scan' = TlvScanner \/ Within(stream', o, scan')
      BY <2>2 DEF Following
    <3>2. CASE scan' = TlvScanner
      <4>1. BYTE \in Nat /\ BYTE > 6
        BY TlvAssumption
      <4>2. 0 \in 0..(BYTE * BYTE - 1)
        BY <4>1
      <4>3. QED
        BY <3>2, <4>2 DEF TlvScanner, ScanState
    <3>3. CASE Within(stream', o, scan')
      <4>1. o \in Nat
        BY <1>0, <3>1
      <4>2. QED
        BY <1>0, <3>3, <4>1, WithinType
    <3>4. QED
      BY <3>1, <3>2, <3>3
  <2>4. TypeOK'
    BY <1>0, <2>1, <2>3 DEF TypeOK
  <2>5. QED
    BY <1>0, <2>1, <2>2, <2>4 DEF ScanInv
<1>3. QED
  BY <1>1, <1>2

\* The bytes behind the Terminator leave it as it is.
LEMMA UnreadStep ==
    ASSUME ScanInv, NEW b \in Byte, Len(stream) < MaxStream, Unread(b)
    PROVE  ScanInv'
<1>0. /\ stream \in Seq(Byte) /\ stream' = stream \o <<b>> /\ stream' \in Seq(Byte)
      /\ Len(stream') = Len(stream) + 1 /\ Len(stream) \in Nat
      /\ Len(stream') <= MaxStream /\ stop # None /\ stop' = stop /\ scan' = scan
  BY ScanAssumption DEF ScanInv, TypeOK, Unread
<1>1. stop \in 1..Len(stream)
  BY <1>0 DEF ScanInv, StoppedInv
<1>2. SubSeq(stream', 1, stop) = SubSeq(stream, 1, stop)
  BY <1>0, <1>1
<1>3. StoppedInv'
  <2>1. PICK r : Stopped(r) /\ Settled(SubSeq(stream, 1, stop), r)
    BY <1>0 DEF ScanInv, StoppedInv
  <2>2. Settled(SubSeq(stream', 1, stop'), r)
    BY <1>0, <1>2, <2>1
  <2>3. stop' \in 1..Len(stream')
    BY <1>0, <1>1
  <2>4. QED
    BY <2>1, <2>2, <2>3 DEF StoppedInv
<1>4. TypeOK'
  BY <1>0 DEF ScanInv, TypeOK
<1>5. QED
  BY <1>0, <1>3, <1>4 DEF ScanInv

\* No byte leaves the invariant.
LEMMA NextScanInv == ScanInv /\ [Next]_scanVars => ScanInv'
<1> SUFFICES ASSUME ScanInv, [Next]_scanVars PROVE ScanInv'
  OBVIOUS
<1>1. CASE Next
  BY <1>1, ReadStep, UnreadStep, ScanAssumption DEF Next
<1>2. CASE UNCHANGED scanVars
  BY <1>2 DEF scanVars, ScanInv, TypeOK, StoppedInv
<1>3. QED
  BY <1>1, <1>2

\* Everything the runs check of the scanner rests on this invariant.
THEOREM SpecScanInv == Spec => []ScanInv
  BY InitScanInv, NextScanInv, PTL DEF Spec

\* The scanner's counters keep their types, whatever bytes it is fed.
THEOREM ScanTypeCorrect == Spec => []TypeOK
<1>1. ScanInv => TypeOK
  BY DEF ScanInv
<1>2. QED
  BY SpecScanInv, <1>1, PTL

-----------------------------------------------------------------------------
(* What the invariant says of the parser. *)

\* While the scanner reads, the parser sees no Terminator, and all of the bytes
\* only where a tag is expected next.
LEMMA ReadingParsed ==
    ASSUME ScanInv, stop = None
    PROVE  /\ ~EndsInTerminator(ParseFrom(stream, 0))
           /\ ParseFrom(stream, 0).status = "ok" => scan = TlvScanner
<1>0. stream \in Seq(Byte) /\ <<>> \in Seq(Byte) /\ stream \o <<>> = stream
  BY DEF ScanInv, TypeOK
<1>1. PICK o \in 0..Len(stream) :
         /\ Boundary(stream, o)
         /\ (o = Len(stream) /\ scan = TlvScanner) \/ Within(stream, o, scan)
  BY DEF ScanInv, Following
<1>2. PICK p \in Seq(TlvBlocks), s \in {"ok"} \cup ParseErrors :
         /\ NoTerminator(p)
         /\ \A x \in Seq(Byte) :
               ParseFrom(stream \o x, 0) = After(s, p, ParseFrom(stream \o x, o))
  BY <1>1 DEF Boundary
<1>3. ParseFrom(stream, 0) = After(s, p, ParseFrom(stream, o))
  BY <1>0, <1>2
<1>4. CASE s # "ok"
  BY <1>3, <1>4 DEF After, EndsInTerminator
<1>5. CASE s = "ok" /\ Within(stream, o, scan)
  <2>1. ParseFrom(stream, o).status # "ok"
    BY <1>0, <1>1, <1>5, IncompleteFails
  <2>2. QED
    BY <1>3, <1>5, <2>1 DEF After, EndsInTerminator
<1>6. CASE s = "ok" /\ o = Len(stream) /\ scan = TlvScanner
  <2>1. ParseFrom(stream, o) = Nothing
    BY <1>0, <1>6, ParseUnfold
  <2>2. p \o <<>> = p
    BY <1>2
  <2>3. ParseFrom(stream, 0).tlvs = p
    BY <1>3, <1>6, <2>1, <2>2 DEF After, Nothing
  <2>4. p # <<>> => Len(p) \in 1..Len(p)
    BY <1>2
  <2>5. QED
    BY <1>2, <1>6, <2>3, <2>4 DEF EndsInTerminator, NoTerminator
<1>7. QED
  BY <1>1, <1>4, <1>5, <1>6

\* A result of the parser with a Terminator in it ends with it.
LEMMA StoppedEnds ==
    ASSUME NEW r, Stopped(r), r.status = "ok"
    PROVE  EndsInTerminator(r)
<1>1. PICK s \in {"ok"} \cup ParseErrors, p \in Seq(TlvBlocks) :
         r = After(s, p, [status |-> "ok", tlvs |-> <<Terminator>>])
  BY DEF Stopped
<1>2. r.tlvs = p \o <<Terminator>>
  BY <1>1 DEF After
<1>3. /\ p \o <<Terminator>> # <<>>
      /\ (p \o <<Terminator>>)[Len(p \o <<Terminator>>)] = Terminator
  BY <1>1
<1>4. QED
  BY <1>2, <1>3 DEF EndsInTerminator, Terminator, Block

\* Once it has stopped, the bytes read and the whole data area parse to the same.
LEMMA StoppedParsed ==
    ASSUME ScanInv, stop # None
    PROVE  /\ ParseFrom(SubSeq(stream, 1, stop), 0) = ParseFrom(stream, 0)
           /\ ParseFrom(stream, 0).status = "ok" => EndsInTerminator(ParseFrom(stream, 0))
<1>0. /\ stream \in Seq(Byte) /\ stop \in 1..Len(stream) /\ Len(stream) \in Nat
  BY DEF ScanInv, TypeOK, StoppedInv
<1>1. PICK r : Stopped(r) /\ Settled(SubSeq(stream, 1, stop), r)
  BY DEF ScanInv, StoppedInv
<1>6. r.status = "ok" => EndsInTerminator(r)
  BY <1>1, StoppedEnds
<1> DEFINE front == SubSeq(stream, 1, stop)
           back  == SubSeq(stream, stop + 1, Len(stream))
<1>2. front \in Seq(Byte) /\ back \in Seq(Byte) /\ <<>> \in Seq(Byte) /\ front \o <<>> = front
  BY <1>0
<1>3. front \o back = stream
  <2>1. 1 \in 1..(Len(stream) + 1) /\ stop \in (1 - 1)..Len(stream)
           /\ Len(stream) \in stop..Len(stream)
    BY <1>0
  <2>2. front \o back = SubSeq(stream, 1, Len(stream))
    BY <1>0, <2>1, ConcatAdjacentSubSeq
  <2>3. QED
    BY <1>0, <2>2, SubSeqFull
<1> HIDE DEF front, back
<1>4. ParseFrom(front, 0) = r /\ ParseFrom(stream, 0) = r
  BY <1>1, <1>2, <1>3 DEF front, Settled
<1>5. QED
  BY <1>4, <1>6 DEF front

\* Stopping at the Terminator is invisible to read_ndef and write_ndef on every
\* data area (reader.rs:283-286, 351-353).
THEOREM EarlyStopIsHarmless == Spec => []EarlyStopHarmless
<1>1. ScanInv => EarlyStopHarmless
  BY StoppedParsed DEF EarlyStopHarmless, parse_tlvs
<1>2. QED
  BY SpecScanInv, <1>1, PTL

\* Scanner and parser stop at the same Terminator on every data area
\* (reader.rs:644-714; type2/tlv.rs:250-330).
THEOREM ScannerFindsTheTerminator == Spec => []ScannerAgreesWithParser
<1>1. ScanInv => ScannerAgreesWithParser
  BY ReadingParsed, StoppedParsed DEF ScannerAgreesWithParser
<1>2. QED
  BY SpecScanInv, <1>1, PTL

\* The scanner is where the parser is between any two blocks (reader.rs:676-713).
THEOREM ScannerStaysInStep == Spec => []ScannerInStep
<1>1. ScanInv => ScannerInStep
  BY ReadingParsed DEF ScannerInStep
<1>2. QED
  BY SpecScanInv, <1>1, PTL

=============================================================================
