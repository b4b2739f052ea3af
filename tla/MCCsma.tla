------------------------------- MODULE MCCsma -------------------------------
\* The simulator on every small input: up to four nodes, frames of up to three
\* slots, two or three collisions and four lists of backoff ranges.
EXTENDS Csma

MCRanges == {<<2, 3, 4>>, <<2, 4, 8>>, <<3, 4, 4>>, <<1, 2, 5>>}

MCInputs == [N : 2..4, L : 1..3, M : 2..3, Rarray : MCRanges]

\* Frames of one slot only.
MCOneSlot == [N : {3}, L : {1}, M : {3}, Rarray : {<<2, 4, 8>>}]

============================================================================
