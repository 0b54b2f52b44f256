---------------------------- MODULE MCNdefReader ----------------------------
(***************************************************************************)
(* NdefReader on some of the sample tags.                                  *)
(***************************************************************************)
EXTENDS NdefReader

S == INSTANCE SampleTags

Pages    == [0..(BLOCK_SIZE - 1) -> 0..(BYTE - 1)]
ZeroPage == [i \in 0..(BLOCK_SIZE - 1) |-> 0]

\* What a READ shows past the end of a sector: the start of an NDEF Message TLV.
Junk == {[i \in 0..(BLOCK_SIZE - 1) |-> <<3, 1, 9, 14>>[i + 1]]}

\* Both sectors, areas in the message's way, and the tags that could keep a call
\* from returning.
LinkTags     == {S!Dynamic, S!Interleaved, S!Gap, S!Overrun, S!Unended}
LinkMessages == {S!Pattern(n) : n \in {2, 15}}

=============================================================================
