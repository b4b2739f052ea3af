----------------------------- MODULE Transport -----------------------------
(***************************************************************************)
(* mp2 over a network that keeps order and loses nothing but for a bounded *)
(* number of faults: the in-flight packets and acks are two queues, and a  *)
(* fault loses, duplicates or delays one message of a queue.               *)
(*                                                                         *)
(* The steps are those of LossyTransport, restricted to the message at the *)
(* front of a queue and to timeouts that happen for a reason.              *)
(***************************************************************************)
EXTENDS LossyTransport

CONSTANTS
    Faults,         \* a subset of {"lose", "duplicate", "delay"}
    MAX_FAULTS,     \* the number of messages they befall
    MAX_EARLY       \* the timeouts that run out while messages are in flight

ASSUME TransportAssumption ==
    /\ Faults \subseteq {"lose", "duplicate", "delay"}
    /\ MAX_FAULTS \in Nat
    /\ MAX_EARLY \in Nat

VARIABLES
    dataInFlight,   \* the packets in flight, oldest first
    acksInFlight,   \* the acks in flight, oldest first
    faults,         \* the faults so far
    early           \* the early timeouts so far

queueVars == <<dataInFlight, acksInFlight>>
boundVars == <<faults, early>>
transportVars == <<vars, queueVars, boundVars>>

TransportInit ==
    /\ Init
    /\ dataInFlight = <<>>
    /\ acksInFlight = <<>>
    /\ faults = 0
    /\ early = 0

----------------------------------------------------------------------------
\* The sender's handlers.  Each leaves what it sends at the end of the queue.
RunLocally ==
    /\ ReliablyTransfer \/ NothingLeft \/ Crash
    /\ UNCHANGED <<receiverVars, networkVars, queueVars, boundVars>>

PutBurst ==
    /\ SendNewStep
    /\ dataInFlight' = dataInFlight \o Burst
    /\ UNCHANGED <<acksInFlight, boundVars>>

PutResent ==
    /\ TimeoutStep
    /\ dataInFlight' = Append(dataInFlight, Resent)
    /\ UNCHANGED <<acksInFlight, boundVars>>

PutFin ==
    /\ FinishStep
    /\ dataInFlight' = Append(dataInFlight, FIN)
    /\ UNCHANGED <<acksInFlight, boundVars>>

TakeAck ==
    /\ acksInFlight # <<>>
    /\ WaitAck(Head(acksInFlight))
    /\ acksInFlight' = Tail(acksInFlight)
    /\ UNCHANGED <<receiverVars, networkVars, dataInFlight, boundVars>>

\* The 40 ms of recvfrom() run out with nothing in flight.
IdleTimeout ==
    /\ WaitEagain
    /\ dataInFlight = <<>> /\ acksInFlight = <<>>
    /\ UNCHANGED <<receiverVars, networkVars, queueVars, boundVars>>

\* The 40 ms of recvfrom() run out although a packet or an ack is in flight.
EarlyTimeout ==
    /\ WaitEagain
    /\ dataInFlight # <<>> \/ acksInFlight # <<>>
    /\ early < MAX_EARLY
    /\ early' = early + 1
    /\ UNCHANGED <<receiverVars, networkVars, queueVars, faults>>

SenderStep ==
    \/ RunLocally
    \/ PutBurst
    \/ PutResent
    \/ PutFin
    \/ TakeAck
    \/ IdleTimeout

\* Mutant: the ack names the packet that is expected next, as TCP's do.
PutAck_NextExpected(ack) ==
    /\ acks' = acks \cup {ack}
    /\ acksInFlight' = Append(acksInFlight, ack + 1)

PutAck(ack) ==
    /\ acks' = acks \cup {ack}
    /\ acksInFlight' = Append(acksInFlight, ack)

\* One turn of the receiver's loop.
TakePacket ==
    /\ dataInFlight # <<>>
    /\ LET pid == Head(dataInFlight) IN
        \/ ReceiveFin(pid) /\ UNCHANGED <<acks, acksInFlight>>
        \/ \E ack \in array \cup {old_pid, pid} :
            /\ ReceiveOther(pid, ack) \/ ReceiveHead(pid, ack)
            /\ PutAck(ack)
    /\ dataInFlight' = Tail(dataInFlight)
    /\ UNCHANGED <<senderVars, data, boundVars>>

----------------------------------------------------------------------------
\* The queues that one fault makes of queue q: without its i-th message, with
\* that message twice, or with that message behind the next one.
Faulty(q) ==
    UNION {
        IF "lose" \in Faults THEN {RemoveAt(q, i) : i \in DOMAIN q} ELSE {},
        IF "duplicate" \in Faults THEN {InsertAt(q, i, q[i]) : i \in DOMAIN q} ELSE {},
        IF "delay" \in Faults
        THEN {[q EXCEPT ![i] = q[i + 1], ![i + 1] = q[i]] : i \in 1..(Len(q) - 1)}
        ELSE {}}

Fault ==
    /\ faults < MAX_FAULTS
    /\ faults' = faults + 1
    /\ \/ dataInFlight' \in Faulty(dataInFlight) /\ UNCHANGED acksInFlight
       \/ acksInFlight' \in Faulty(acksInFlight) /\ UNCHANGED dataInFlight
    /\ UNCHANGED <<vars, early>>

\* Both programs have ended.
Terminated ==
    /\ spc = "closed" /\ rpc = "closed"
    /\ UNCHANGED transportVars

TransportNext ==
    \/ SenderStep
    \/ EarlyTimeout
    \/ TakePacket
    \/ Fault
    \/ Terminated

TransportSpec == TransportInit /\ [][TransportNext]_transportVars

\* Each program is a process that keeps running: recvfrom() returns when a
\* message is at the front of its queue, or, in the sender, after 40 ms.
Fairness == WF_transportVars(SenderStep) /\ WF_transportVars(TakePacket)

FairSpec == TransportSpec /\ Fairness

----------------------------------------------------------------------------
TransportTypeOK ==
    /\ TypeOK
    /\ dataInFlight \in Seq(data)
    /\ acksInFlight \in Seq(acks)
    /\ faults \in 0..MAX_FAULTS
    /\ early \in 0..MAX_EARLY

\* wait() never takes the front of an empty pkt_q_copy.  (Its comments: when the
\* queues are empty "all ack ... all end".)
NoUndefinedFront == ~ UndefinedFront

\* No ack reaches wait() from beyond the front of the window.  (Its comment:
\* "(pkt_q_copy.front()->pack_id < ack_struct) impossible maybe".)
NoSkippingAck ==
    (pkt_q_copy # <<>> /\ acksInFlight # <<>>)
        => Head(acksInFlight) <= Head(pkt_q_copy)

\* Each packet is written once, in order: a stream, as from a TCP connection.
Stream == INSTANCE FileTransfer WITH
    Replay <- FALSE,
    total <- Total,
    sender <- IF spc = "closed" THEN "closed" ELSE "sending",
    receiver <- rpc

ImplementsStream == Stream!Spec

\* Queues, faults and timeouts add nothing that LossyTransport does not allow.
ImplementsLossyTransport == Spec

\* Both programs end.
Termination == <>(spc = "closed" /\ rpc = "closed")

\* The sender ends, or runs into undefined behaviour.
SenderEnds == <>(spc = "closed" \/ UndefinedFront)

============================================================================
