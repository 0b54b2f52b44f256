----------------------------- MODULE TlvScanner -----------------------------
(***************************************************************************)
(* TlvScanner (src/type2/reader.rs): follows the TLV structure byte by     *)
(* byte while the data area is read, to stop at the Terminator.            *)
(***************************************************************************)
EXTENDS Tlv

\* TlvScanState; left is the msb of a long length, or the bytes still to skip.
ScanState(s, n) == [state |-> s, left |-> n]

TlvScanner == ScanState("tag", 0)

\* A length has been read: skip that many bytes.
SkipValue_ZeroIgnored(n) == ScanState("value", n)
SkipValue(n) == IF n = 0 THEN TlvScanner ELSE ScanState("value", n)

\* One of the n bytes left has been skipped.
SkipByte_Underflow(n) == ScanState("value", n - 1)
SkipByte(n) == IF n <= 1 THEN TlvScanner ELSE ScanState("value", n - 1)

\* TRUE when the byte is a Terminator where a tag is expected.
Terminates_Anywhere(st, b) == b = TLV_TERMINATOR
Terminates(st, b) == st.state = "tag" /\ b = TLV_TERMINATOR

\* The state after a byte that is no Terminator.
feed(st, b) ==
    CASE st.state = "tag" ->
           IF b = TLV_NULL THEN TlvScanner ELSE ScanState("length", 0)
      [] st.state = "length" ->
           IF b = LONG_LENGTH THEN ScanState("length_msb", 0) ELSE SkipValue(b)
      [] st.state = "length_msb" -> ScanState("length_lsb", b)
      [] st.state = "length_lsb" -> SkipValue(st.left * BYTE + b)
      [] st.state = "value" -> SkipByte(st.left)

=============================================================================
