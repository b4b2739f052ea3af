--------------------------- MODULE LossyTransport ---------------------------
(***************************************************************************)
(* mp2 over the weakest network UDP allows.  The network is the set of all *)
(* packets and the set of all acks that were ever sent; to receive is to   *)
(* take any member.  A message that is never taken is lost, one taken      *)
(* twice is duplicated, and any order is possible.  The sender's 40 ms may *)
(* run out at any moment.                                                  *)
(*                                                                         *)
(* What holds here holds whatever the network does.                        *)
(***************************************************************************)
EXTENDS ReliableSender, ReliableReceiver

VARIABLES
    data,           \* the packets ever sent to the receiver
    acks            \* the acks ever sent to the sender

networkVars == <<data, acks>>

vars == <<senderVars, receiverVars, networkVars>>

Init ==
    /\ SenderInit
    /\ ReceiverInit
    /\ data = {}
    /\ acks = {}

----------------------------------------------------------------------------
\* The sender's handlers, with the packets they send and the ack they receive.
SenderLocalStep ==
    /\ ReliablyTransfer \/ NothingLeft \/ WaitEagain \/ Crash
    /\ UNCHANGED <<receiverVars, networkVars>>

SendNewStep ==
    /\ SendNew
    /\ data' = data \cup ToSet(Burst)
    /\ UNCHANGED <<receiverVars, acks>>

TimeoutStep ==
    /\ Timeout
    /\ data' = data \cup {Resent}
    /\ UNCHANGED <<receiverVars, acks>>

WaitAckStep ==
    /\ \E ack \in acks : WaitAck(ack)
    /\ UNCHANGED <<receiverVars, networkVars>>

FinishStep ==
    /\ Finish
    /\ data' = data \cup {FIN}
    /\ UNCHANGED <<receiverVars, acks>>

\* One turn of the receiver's loop.
ReceiverStep ==
    /\ \E pid \in data :
        \/ ReceiveFin(pid) /\ UNCHANGED acks
        \/ \E ack \in array \cup {old_pid, pid} :
            /\ ReceiveOther(pid, ack) \/ ReceiveHead(pid, ack)
            /\ acks' = acks \cup {ack}
    /\ UNCHANGED <<senderVars, data>>

Next ==
    \/ SenderLocalStep
    \/ SendNewStep
    \/ TimeoutStep
    \/ WaitAckStep
    \/ FinishStep
    \/ ReceiverStep

Spec == Init /\ [][Next]_vars

----------------------------------------------------------------------------
TypeOK ==
    /\ SenderTypeOK
    /\ ReceiverTypeOK
    /\ data \subseteq Nat
    /\ acks \subseteq Nat

(***************************************************************************)
(* The hazards of a window protocol under loss, duplication and            *)
(* reordering, in the order in which they would bite.                      *)
(***************************************************************************)

\* The sender forgets a packet (pops it off pkt_q_copy in wait()) only once the
\* receiver has written it to the file: nothing the receiver may still need is
\* beyond the reach of timeout().
ForgottenIsWritten == 1..Acked \subseteq WrittenIds

\* The loop that skips ahead in wait() pops ack - head_id + 1 packets from
\* pkt_q_copy; whatever ack arrives, that many are there.
PopsInRange ==
    \A ack \in acks :
        (Dispatch(2) /\ pkt_q_copy # <<>> /\ Head(pkt_q_copy) < ack)
            => ack - head_id + 1 \in 1..Len(pkt_q_copy)

\* When the sender closes, the receiver has written the whole transfer; when the
\* receiver closes, the sender has closed.
ClosedIsComplete ==
    /\ spc = "closed" => WrittenIds = 1..Total
    /\ rpc = "closed" => spc = "closed"

\* An ack is cumulative also while old_pid lags behind: every packet up to an ack
\* that is in the network, or that the sender counted last, has been written.
AcksAreCumulative ==
    \A ack \in acks \cup {last_ack} : 1..ack \subseteq WrittenIds

\* The protocol implements the transfer in which packets are written in order,
\* some of them again.
Abstract == INSTANCE FileTransfer WITH
    Replay <- TRUE,
    total <- Total,
    sender <- IF spc = "closed" THEN "closed" ELSE "sending",
    receiver <- rpc

ImplementsReplayingTransfer == Abstract!Spec

----------------------------------------------------------------------------
(***************************************************************************)
(* The inductive invariant behind the properties above.                    *)
(***************************************************************************)

\* What the network holds was sent, and FIN was sent by a closed sender only.
Network ==
    /\ data \subseteq 0..Sent
    /\ acks \subseteq Nat
    /\ FIN \in data => spc = "closed"

\* The receiver stores packets that were sent, and ends after the sender.
StoredWasSent ==
    /\ array \subseteq 1..Sent
    /\ rpc = "closed" => spc = "closed"

IInv ==
    /\ SenderInv
    /\ ReceiverInv
    /\ Network
    /\ StoredWasSent
    /\ AcksAreCumulative
    /\ ForgottenIsWritten

============================================================================
