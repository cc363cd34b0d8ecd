---------------------------- MODULE MCStaticTls ----------------------------
EXTENDS StaticTls

Segment(len, size, align, image) ==
    [len |-> len, size |-> size, align |-> align, image |-> image]

\* None, small and odd, strictly aligned, and aligned with images that are not.
SmallSegments ==
    {Segment(0, 0, 1, 0)} \cup {Segment(1, 3, 1, 5), Segment(2, 2, 2, 4)}
    \cup {Segment(1, 5, 4, i) : i \in {64, 66, 67}}
    \cup {Segment(6, 9, 32, i) : i \in {96, 104, 109}}
=============================================================================
