----------------------------- MODULE SampleTags -----------------------------
(***************************************************************************)
(* Tags to model-check the NDEF operations on: bytes are numbers below 16, *)
(* a sector is 8 blocks of 4 bytes, the data area begins at address 16, in *)
(* block 4 of sector 0, and sector 1 begins at address 32.  15 stands for  *)
(* 0xFF, 14 for the Terminator, 13 for a proprietary TLV, 4 for a reserved *)
(* tag.                                                                    *)
(***************************************************************************)
EXTENDS CapabilityContainer

\* A tag with size field n and access byte acc whose data area begins with bytes
\* d; the header is not all zero, so that damage to it shows.
TagWith(n, acc, d, free) ==
    LET head == <<7, 7, 7, 7, 7, 7, 7, 7, 7, 7, 7, 7, CC_MAGIC, NIBBLE, n, acc>>
        all  == head \o d
    IN [bytes |-> [a \in Address |-> IF a < Len(all) THEN all[a + 1] ELSE 0],
        free  |-> free,
        plain |-> TRUE]

\* A tag on which a declared area lies behind the NDEF TLV or takes room from it.
WithArea(t) == [t EXCEPT !.plain = FALSE]

\* A static tag without a message, one behind NULL padding, one with a message
\* behind a proprietary TLV.
Blank      == TagWith(2, 0, <<3, 0, 14>>, 16..31)
Padded     == TagWith(2, 0, <<0, 0, 3, 2, 5, 6, 14>>, 18..31)
Vendor     == TagWith(2, 0, <<13, 1, 9, 3, 3, 14, 5, 6, 14>>, 19..31)

\* A dynamic tag without control TLVs: 24 bytes into sector 1, and the default
\* lock area of one byte behind them.
Dynamic    == TagWith(3, 0, <<0, 3, 2, 5, 6, 14>>, 17..39)

\* A dynamic tag with a memory control TLV for the two bytes at 24, behind a
\* proprietary TLV and in front of the NDEF TLV at 26.
Reserved   == TagWith(5, 0, <<2, 3, 12, 2, 3, 13, 1, 9, 4, 0, 3, 1, 5, 14>>,
                      26..55 \cup {57, 58})

\* The same tag with a data area of 24 bytes, which a message of 13 bytes fills.
Tight      == WithArea(TagWith(3, 0, <<2, 3, 12, 2, 3, 13, 1, 9, 4, 0, 3, 1, 5, 14>>,
                      26..39 \cup {41, 42}))

\* The same area behind the NDEF TLV at 21, where a message of more than one byte
\* runs into it.
Interleaved == WithArea(TagWith(3, 0, <<2, 3, 12, 2, 3, 3, 0, 14, 8, 8>>,
                       21..23 \cup 26..39 \cup {41, 42}))

\* An area of two whole pages there.
Gap        == WithArea(TagWith(3, 0, <<2, 3, 12, 8, 3, 3, 0, 14, 8, 8, 8, 8, 8, 8>>,
                      21..23 \cup 32..39 \cup 41..48))

\* A static tag with such an area.
StaticArea == WithArea(TagWith(2, 0, <<2, 3, 12, 2, 3, 3, 0, 14, 8, 8>>,
                      21..23 \cup 26..33))

\* A reserved TLV in front of the NDEF TLV.
Unlisted   == TagWith(2, 0, <<4, 1, 9, 3, 1, 5, 14>>, 19..31)

\* Tags that are refused: no NDEF TLV, write protected in two ways, empty data
\* area, read protected, a reserved area that never ends, one that moves the end of
\* the data area out of the address space, more TLVs than fit, no Terminator within
\* the bytes a buffer can hold, another major version.
NoNdef     == TagWith(2, 0, <<13, 1, 9, 14>>, {})
ReadOnly   == TagWith(2, 3, <<3, 1, 5, 14>>, {})
Restricted == TagWith(2, 2, <<3, 1, 5, 14>>, {})
Empty      == TagWith(0, 0, <<3, 0, 14>>, {})
Protected  == TagWith(2, 12, <<3, 0, 14>>, {})
Endless    == TagWith(6, 0, <<2, 3, 12, 0, 3, 3, 0, 14>>, {})
Overrun    == TagWith(4, 0, <<2, 3, 12, 0, 3, 3, 0, 13, 15, 1, 5>>, {})
Crowded    == TagWith(2, 0, <<0, 0, 0, 0, 3, 0, 14>>, {})
Unended    == TagWith(6, 0, <<3, 0, 5, 12>>, {})
Other      == [TagWith(2, 0, <<3, 0, 14>>, {}) EXCEPT !.bytes[13] = 3 * NIBBLE]

\* A message of n bytes that contains every special byte.
Pattern(n) == [i \in 1..n |-> (14 + i * 3) % 16]

=============================================================================
