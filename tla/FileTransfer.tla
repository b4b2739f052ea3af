---------------------------- MODULE FileTransfer ----------------------------
(***************************************************************************)
(* What mp2 promises: the receiver's output file is built from the packets *)
(* of the sender's file in their order, and neither program finishes       *)
(* before the file is complete.                                            *)
(*                                                                         *)
(* Replay = FALSE is the stream a TCP user expects: each packet is written *)
(* once.  Replay = TRUE allows the writer to go back and write packets     *)
(* again, but never to skip one.                                           *)
(***************************************************************************)
EXTENDS Packets

CONSTANT Replay

VARIABLES
    total,          \* the packets of the transfer are 1..total
    written,        \* the packets written so far
    sender,         \* "sending" or "closed"
    receiver        \* "receiving" or "closed"

vars == <<total, written, sender, receiver>>

Init ==
    /\ total \in Nat
    /\ written = <<>>
    /\ sender = "sending"
    /\ receiver = "receiving"

\* Write the packets first..last, where first follows a packet already written.
WriteRun(first, last) ==
    /\ receiver = "receiving"
    /\ first \in 1..last
    /\ last <= total
    /\ IF Replay THEN first - 1 \in {0} \cup ToSet(written)
                 ELSE first - 1 = Len(written)
    /\ written' = written \o Interval(first, last)
    /\ UNCHANGED <<total, sender, receiver>>

\* The sender finishes: it knows that everything is written.
SenderCloses ==
    /\ sender = "sending"
    /\ 1..total \subseteq ToSet(written)
    /\ sender' = "closed"
    /\ UNCHANGED <<total, written, receiver>>

\* The receiver finishes: it knows that the sender has.
ReceiverCloses ==
    /\ sender = "closed"
    /\ receiver = "receiving"
    /\ receiver' = "closed"
    /\ UNCHANGED <<total, written, sender>>

Next ==
    \/ \E first, last \in 1..total : WriteRun(first, last)
    \/ SenderCloses
    \/ ReceiverCloses

Spec == Init /\ [][Next]_vars

============================================================================
