----------------------------- MODULE ByteStream -----------------------------
(***************************************************************************)
(* What the TCP programs of mp0 and mp1 do with buffers of bytes.          *)
(***************************************************************************)
EXTENDS Integers, Sequences, SequencesExt

\* The place of the first x in s, as strchr(): 0 when there is none.
Strchr(s, x) == SelectInSeq(s, LAMBDA y : y = x)

From(s, first) == SubSeq(s, first, Len(s))

\* What one recv() with a buffer of size bytes may take of a stream.
Segments(bytes, size) ==
    {SubSeq(bytes, 1, n) : n \in {i \in 1..size : i <= Len(bytes)}}

============================================================================
