---------------------------- MODULE MCNdefAccess ----------------------------
(***************************************************************************)
(* NdefAccess on the sample tags.                                          *)
(***************************************************************************)
EXTENDS NdefAccess, SampleTags

AllTags == {Blank, Padded, Vendor, Dynamic, Reserved, Tight, Interleaved, Gap,
            StaticArea, NoNdef, ReadOnly, Restricted, Empty, Protected, Endless,
            Overrun, Crowded, Unended, Other}

PlainTags == {t \in AllTags : t.plain}

\* The tags of the violations: declared areas, and a TLV the parser does not report.
AreaTags     == AllTags \ PlainTags
UnlistedTags == {Unlisted}
LargeTags    == {Reserved}

\* Around one page, the capacity of the static tags (13 behind a one-byte length)
\* and the change of length format.
AllMessages   == {Pattern(n) : n \in {0, 1, 10, 13, 14, 15, 18}}
LongMessages  == {Pattern(n) : n \in {18, 24, 25}}
ShortMessages == {Pattern(n) : n \in {0, 1, 2, 5, 10, 13, 14}}

=============================================================================
