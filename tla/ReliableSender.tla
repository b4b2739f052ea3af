--------------------------- MODULE ReliableSender ---------------------------
(***************************************************************************)
(* The sending program of mp2 (mp2/src/sender_main.cpp): one process that  *)
(* loops over three handlers chosen by the global `state`,                 *)
(*                                                                         *)
(*    0  send_new()   fill the window from pkt_q                           *)
(*    1  timeout()    send the packet at the front of pkt_q_copy again     *)
(*    2  wait()       receive one ack, or time out after 40 ms             *)
(*                                                                         *)
(* Each action is one call of a handler.  A handler sends before it        *)
(* returns and receives at most once, at its start, so nothing another     *)
(* process does can come between its steps.  The network is left to the    *)
(* modules that compose the sender with a receiver: they take the packets  *)
(* a handler sends from Burst, Resent and FIN, and pass in the ack that    *)
(* recvfrom() returned.                                                    *)
(*                                                                         *)
(* bytes_count is counted in packets, that is, in units of MSS bytes       *)
(* rounded up.                                                             *)
(*                                                                         *)
(* Undefined behaviour.  wait() calls front() on pkt_q_copy without asking *)
(* whether it is empty.  On an empty deque the slot that is read holds a   *)
(* null or wild pointer (the process dies: Crash) or a pointer left there  *)
(* by an earlier packet, whose pack_struct was never freed (FrontIds).     *)
(* pop_front() on an empty deque corrupts it; the model ends the process   *)
(* there (Crash).                                                          *)
(***************************************************************************)
EXTENDS Packets

CONSTANTS
    WINDOW,         \* the constant congestion window, 15 in sender()
    BATCH,          \* the packets one dividepacket() call loads, 400
    FILE_PACKETS,   \* the length of the file, in packets
    Requests        \* the values of bytes_to_xfer, in packets

ASSUME SenderAssumption ==
    /\ WINDOW \in Nat \ {0}
    /\ BATCH \in Nat \ {0}
    /\ FILE_PACKETS \in Nat
    /\ Requests \subseteq Nat

VARIABLES
    spc,            \* where reliablyTransfer() is
    state,
    pkt_q,          \* packets loaded and not yet sent
    pkt_q_copy,     \* packets sent and not yet acknowledged
    bytes_count,    \* packets still to be read from the file
    package_id,     \* the identifier of the next packet to be loaded
    read_all_flag,
    ack_all_flag,
    head_id,        \* cwindow->head_id
    last_ack,
    last_ack_num

senderVars == <<spc, state, pkt_q, pkt_q_copy, bytes_count, package_id,
                read_all_flag, ack_all_flag, head_id, last_ack, last_ack_num>>

\* last_ack_num only matters when it becomes 3: it is counted up to 4.
DUP_CAP == 4

\* The packets of the whole transfer, loaded or not.
Total == package_id - 1 + bytes_count

\* The last packet that was ever sent: packets are sent in the order of pack_id.
Sent == package_id - 1 - Len(pkt_q)

\* The last packet that left pkt_q_copy.
Acked == Sent - Len(pkt_q_copy)

SenderTypeOK ==
    /\ spc \in {"start", "loop", "crashed", "closed"}
    /\ state \in 0..2
    /\ pkt_q \in Seq(Nat)
    /\ pkt_q_copy \in Seq(Nat)
    /\ bytes_count \in Nat
    /\ package_id \in 1..(FILE_PACKETS + 1)
    /\ read_all_flag \in {0, 1}
    /\ ack_all_flag \in {0, 1}
    /\ head_id \in Nat
    /\ last_ack \in Nat
    /\ last_ack_num \in 0..DUP_CAP

SenderInit ==
    /\ spc = "start"
    /\ state = 0
    /\ pkt_q = <<>>
    /\ pkt_q_copy = <<>>
    /\ bytes_count \in Requests
    /\ package_id = 1
    /\ read_all_flag = 0
    /\ ack_all_flag = 0
    /\ head_id = 0
    /\ last_ack = 0
    /\ last_ack_num = 0

----------------------------------------------------------------------------
\* Mutant: load to the end of the request, whatever fread() returns.
LoadCount_Unchecked == Smaller(BATCH, bytes_count)

\* The packets the next dividepacket() loads: its loop runs BATCH times, stops
\* when bytes_count is 0, and an iteration at the end of the file reads nothing.
LoadCount ==
    Smaller(Smaller(BATCH, bytes_count), FILE_PACKETS - (package_id - 1))

\* Mutant: every batch is numbered from 1, as with a local package_id.
NewPackets_Renumbered == Interval(1, LoadCount)

NewPackets == Interval(package_id, package_id + LoadCount - 1)

\* dividepacket(), except for pkt_q, which its caller goes on to change.
dividepacket ==
    /\ package_id' = package_id + LoadCount
    /\ bytes_count' = bytes_count - LoadCount
    /\ read_all_flag' = IF bytes_count' = 0 THEN 1 ELSE read_all_flag

\* reliablyTransfer() up to the loop of sender().
ReliablyTransfer ==
    /\ spc = "start"
    /\ dividepacket
    /\ pkt_q' = NewPackets
    /\ head_id' = 1
    /\ spc' = "loop"
    /\ UNCHANGED <<state, pkt_q_copy, ack_all_flag, last_ack, last_ack_num>>

\* The loop of sender() dispatches on `state` until ack_all_flag is set.
Dispatch(s) == spc = "loop" /\ ack_all_flag = 0 /\ state = s

\* send_new() when every packet of the transfer has been sent.
NothingLeft ==
    /\ Dispatch(0)
    /\ pkt_q = <<>>
    /\ read_all_flag = 1
    /\ state' = 2
    /\ UNCHANGED <<spc, pkt_q, pkt_q_copy, bytes_count, package_id,
                   read_all_flag, ack_all_flag, head_id, last_ack, last_ack_num>>

\* pkt_q once send_new() has refilled it.
Queue == IF pkt_q = <<>> THEN NewPackets ELSE pkt_q

\* Mutant: the packets in flight are not taken off the window.
Burst_WholeWindow == SubSeq(Queue, 1, Smaller(Len(Queue), WINDOW))

\* The packets send_new() sends: what the window has room for.
Burst == SubSeq(Queue, 1, Smaller(Len(Queue), WINDOW - Len(pkt_q_copy)))

\* send_new() in the other cases.
SendNew ==
    /\ Dispatch(0)
    /\ pkt_q # <<>> \/ read_all_flag = 0
    /\ IF pkt_q = <<>> THEN dividepacket
       ELSE UNCHANGED <<package_id, bytes_count, read_all_flag>>
    /\ pkt_q' = SubSeq(Queue, Len(Burst) + 1, Len(Queue))
    /\ pkt_q_copy' = pkt_q_copy \o Burst
    /\ state' = 2
    /\ UNCHANGED <<spc, ack_all_flag, head_id, last_ack, last_ack_num>>

----------------------------------------------------------------------------
\* The next call of wait() takes the front of an empty pkt_q_copy.
UndefinedFront == Dispatch(2) /\ pkt_q_copy = <<>>

\* The pack_ids that front() of pkt_q_copy may yield without killing the process.
FrontIds == IF pkt_q_copy = <<>> THEN 1..Sent ELSE {Head(pkt_q_copy)}

\* front() or pop_front() of an empty pkt_q_copy kills the process.
Crash ==
    /\ UndefinedFront
    /\ spc' = "crashed"
    /\ UNCHANGED <<state, pkt_q, pkt_q_copy, bytes_count, package_id,
                   read_all_flag, ack_all_flag, head_id, last_ack, last_ack_num>>

\* The packet timeout() sends.  It reads the slot wait() has just read, whose
\* pack_id wait() has left in head_id.
Resent == IF pkt_q_copy = <<>> THEN head_id ELSE Head(pkt_q_copy)

\* timeout(): send Resent.
Timeout ==
    /\ Dispatch(1)
    /\ state' = 2
    /\ UNCHANGED <<spc, pkt_q, pkt_q_copy, bytes_count, package_id,
                   read_all_flag, ack_all_flag, head_id, last_ack, last_ack_num>>

\* wait() when recvfrom() fails with EAGAIN.
WaitEagain ==
    /\ Dispatch(2)
    /\ state' = 1
    /\ head_id' \in FrontIds
    /\ UNCHANGED <<spc, pkt_q, pkt_q_copy, bytes_count, package_id,
                   read_all_flag, ack_all_flag, last_ack, last_ack_num>>

\* wait() counts the acks of one value.
ThirdDuplicate(ack) == ack = last_ack /\ last_ack_num + 1 = 3

CountAck(ack) ==
    /\ last_ack' = ack
    /\ last_ack_num' = IF ack = last_ack THEN Smaller(last_ack_num + 1, DUP_CAP)
                       ELSE 1

\* wait() on the third ack of one value: retransmit without looking at it.
DupAck(ack) ==
    /\ Dispatch(2)
    /\ ThirdDuplicate(ack)
    /\ CountAck(ack)
    /\ head_id' \in FrontIds
    /\ state' = 1
    /\ UNCHANGED <<spc, pkt_q, pkt_q_copy, bytes_count, package_id,
                   read_all_flag, ack_all_flag>>

\* wait() on an ack below the front of the window.
OldAck(ack) ==
    /\ Dispatch(2)
    /\ ~ ThirdDuplicate(ack)
    /\ \E f \in FrontIds : f > ack
    /\ CountAck(ack)
    /\ UNCHANGED <<spc, state, pkt_q, pkt_q_copy, bytes_count, package_id,
                   read_all_flag, ack_all_flag, head_id>>

\* Mutant: the end is declared although packets are still unacknowledged.
EndReached_EndsEarly(window) == TRUE

\* Mutant: the last packet is looked for before it is popped.
EndReached_TestsBeforePop(window) == pkt_q_copy = <<>>

\* wait()'s test for the end, when nothing is left to send.
EndReached(window) == window = <<>>

\* Mutant: the acknowledged packet stays in the window.
Popped_KeepsFront == pkt_q_copy

\* The window once its front is acknowledged.
Popped == Tail(pkt_q_copy)

\* Mutant: head_id is not moved to the new front of the window.
NextHead_Kept(ack) == head_id

\* head_id once everything up to ack is popped.
NextHead(ack) == ack + 1

\* wait() on the ack of the packet at the front of the window.
HeadAck(ack) ==
    /\ Dispatch(2)
    /\ ~ ThirdDuplicate(ack)
    /\ pkt_q_copy # <<>>
    /\ Head(pkt_q_copy) = ack
    /\ CountAck(ack)
    /\ pkt_q_copy' = Popped
    /\ IF pkt_q = <<>> /\ read_all_flag = 1
       THEN /\ ack_all_flag' = IF EndReached(pkt_q_copy') THEN 1 ELSE ack_all_flag
            /\ UNCHANGED state
       ELSE state' = 0 /\ UNCHANGED ack_all_flag
    /\ head_id' = NextHead(ack)
    /\ UNCHANGED <<spc, pkt_q, bytes_count, package_id, read_all_flag>>

\* wait() on an ack beyond the front of the window: pop ack - head_id + 1
\* packets.  PopsInRange says that there are that many.
SkipAck(ack) ==
    /\ Dispatch(2)
    /\ ~ ThirdDuplicate(ack)
    /\ pkt_q_copy # <<>>
    /\ Head(pkt_q_copy) < ack
    /\ CountAck(ack)
    /\ pkt_q_copy' = SubSeq(pkt_q_copy, ack - head_id + 2, Len(pkt_q_copy))
    /\ head_id' = NextHead(ack)
    /\ UNCHANGED <<spc, state, pkt_q, bytes_count, package_id,
                   read_all_flag, ack_all_flag>>

\* wait() when recvfrom() returned an ack.
WaitAck(ack) == DupAck(ack) \/ OldAck(ack) \/ HeadAck(ack) \/ SkipAck(ack)

\* reliablyTransfer() once sender() has returned: send FIN once and close.
Finish ==
    /\ spc = "loop"
    /\ ack_all_flag = 1
    /\ spc' = "closed"
    /\ UNCHANGED <<state, pkt_q, pkt_q_copy, bytes_count, package_id,
                   read_all_flag, ack_all_flag, head_id, last_ack, last_ack_num>>

----------------------------------------------------------------------------
\* The window is never exceeded: the unsigned comparison in send_new() never
\* sees a negative window_size - have_send_num.
WindowRespected == Len(pkt_q_copy) <= WINDOW

\* send_new() and wait() keep pkt_q_copy and pkt_q one unbroken run of pack_ids:
\* the packets Acked+1..Sent are in flight and those after them are loaded.
QueuesInOrder ==
    /\ Sent \in Nat
    /\ Acked \in Nat
    /\ \A i \in 1..Len(pkt_q_copy) : pkt_q_copy[i] = Acked + i
    /\ \A i \in 1..Len(pkt_q) : pkt_q[i] = Sent + i

\* head_id is the front of the window, unless the window has run empty while the
\* sender waits; what timeout() then sends is still a packet of the file.
HeadId ==
    /\ (spc # "start" /\ (state = 0 \/ pkt_q_copy # <<>>)) => head_id = Acked + 1
    /\ state = 1 => head_id \in 1..Sent

\* What spc and the flags say of the queues.
SenderFlags ==
    /\ spc = "start" =>
        /\ pkt_q = <<>> /\ pkt_q_copy = <<>> /\ package_id = 1
        /\ state = 0 /\ ack_all_flag = 0
    /\ read_all_flag = 1 => bytes_count = 0
    /\ ack_all_flag = 1 => (pkt_q = <<>> /\ pkt_q_copy = <<>> /\ read_all_flag = 1)
    /\ spc = "closed" => ack_all_flag = 1

\* The sender's own invariant: it needs of the network only that an ack it
\* receives is of a packet it has sent.
SenderInv ==
    /\ SenderTypeOK
    /\ WindowRespected
    /\ QueuesInOrder
    /\ HeadId
    /\ SenderFlags

============================================================================
