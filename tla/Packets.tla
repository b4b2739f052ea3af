------------------------------ MODULE Packets ------------------------------
(***************************************************************************)
(* What the two programs of mp2 share: packet identifiers.                 *)
(*                                                                         *)
(* A pack_struct carries pack_id, length and MSS bytes.  Packet k >= 1 is  *)
(* always filled with the k-th MSS bytes of the file, so its pack_id       *)
(* determines length and contents and a packet is modelled by its pack_id  *)
(* alone.  pack_id 0 is the FIN packet.                                    *)
(***************************************************************************)
EXTENDS Integers, Sequences, SequencesExt

FIN == 0

\* The identifiers from a to b in increasing order, empty when a > b.
Interval(a, b) == [i \in 1..(b - a + 1) |-> a + i - 1]

Smaller(a, b) == IF a <= b THEN a ELSE b

============================================================================
