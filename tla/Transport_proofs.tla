-------------------------- MODULE Transport_proofs --------------------------
(***************************************************************************)
(* Transport implements LossyTransport whatever the faults are and however *)
(* many: loss, duplication, delay and early timeouts of the queues are     *)
(* among what the network of everything ever sent allows.  All that is     *)
(* proved of LossyTransport therefore holds of Transport.                  *)
(*                                                                         *)
(* Over a network that only duplicates, for requests the file can fill,    *)
(* Transport moreover implements FileTransfer without replays: the file is *)
(* a stream, and the undefined front() of an empty window is never read.   *)
(***************************************************************************)
EXTENDS Transport, LossyTransport_proofs

\* The queues hold messages that were sent.
QueuesWereSent ==
    /\ dataInFlight \in Seq(data)
    /\ acksInFlight \in Seq(acks)

\* The counts of faults and early timeouts.
BoundsOK ==
    /\ faults \in 0..MAX_FAULTS
    /\ early \in 0..MAX_EARLY

\* A part of a sequence of members of S is one too.
LEMMA PartOfSeq ==
    ASSUME NEW S, NEW q \in Seq(S), NEW m \in 1..(Len(q) + 1), NEW n \in 0..Len(q)
    PROVE  SubSeq(q, m, n) \in Seq(S)
  BY SubSeqProperties

\* A fault brings no message about that was not in the queue.
LEMMA FaultyStays ==
    ASSUME NEW S, NEW q \in Seq(S), NEW r \in Faulty(q)
    PROVE  r \in Seq(S)
<1>1. CASE \E i \in DOMAIN q : r = RemoveAt(q, i)
  <2>1. PICK i \in 1..Len(q) : r = RemoveAt(q, i)
    BY <1>1
  <2>2. SubSeq(q, 1, i - 1) \in Seq(S) /\ SubSeq(q, i + 1, Len(q)) \in Seq(S)
    BY PartOfSeq
  <2>3. QED
    BY <2>1, <2>2, ConcatProperties DEF RemoveAt
<1>2. CASE \E i \in DOMAIN q : r = InsertAt(q, i, q[i])
  <2>1. PICK i \in 1..Len(q) : r = InsertAt(q, i, q[i])
    BY <1>2
  <2>2. SubSeq(q, 1, i - 1) \in Seq(S) /\ SubSeq(q, i, Len(q)) \in Seq(S)
    BY PartOfSeq
  <2>3. <<q[i]>> \in Seq(S)
    BY ElementOfSeq
  <2>4. QED
    BY <2>1, <2>2, <2>3, ConcatProperties DEF InsertAt
<1>3. CASE \E i \in 1..(Len(q) - 1) : r = [q EXCEPT ![i] = q[i + 1], ![i + 1] = q[i]]
  <2>1. PICK i \in 1..(Len(q) - 1) : r = [q EXCEPT ![i] = q[i + 1], ![i + 1] = q[i]]
    BY <1>3
  <2>2. i \in 1..Len(q) /\ i + 1 \in 1..Len(q) /\ q[i] \in S /\ q[i + 1] \in S
    BY ElementOfSeq
  <2>3. [q EXCEPT ![i] = q[i + 1]] \in Seq(S) /\ Len([q EXCEPT ![i] = q[i + 1]]) = Len(q)
    BY <2>2, ExceptSeq
  <2>4. QED
    BY <2>1, <2>2, <2>3, ExceptSeq
<1>4. QED
  BY <1>1, <1>2, <1>3 DEF Faulty

----------------------------------------------------------------------------
\* Each step of Transport is one of LossyTransport, or leaves it as it is.
LEMMA StepRefines ==
    ASSUME QueuesWereSent, [TransportNext]_transportVars
    PROVE  [Next]_vars
<1> USE DEF Next
<1>1. CASE RunLocally
  BY <1>1 DEF RunLocally, SenderLocalStep
<1>2. CASE PutBurst \/ PutResent \/ PutFin
  BY <1>2 DEF PutBurst, PutResent, PutFin
<1>3. CASE TakeAck
  <2>1. Head(acksInFlight) \in acks
    BY <1>3, HeadTailProperties DEF TakeAck, QueuesWereSent
  <2>2. QED
    BY <1>3, <2>1 DEF TakeAck, WaitAckStep
<1>4. CASE IdleTimeout \/ EarlyTimeout
  BY <1>4 DEF IdleTimeout, EarlyTimeout, SenderLocalStep
<1>5. CASE TakePacket
  <2>1. Head(dataInFlight) \in data
    BY <1>5, HeadTailProperties DEF TakePacket, QueuesWereSent
  <2>2. ReceiverStep
    BY <1>5, <2>1 DEF TakePacket, PutAck, ReceiverStep
  <2>3. QED
    BY <2>2
<1>6. CASE Fault \/ Terminated \/ UNCHANGED transportVars
  BY <1>6 DEF Fault, Terminated, transportVars
<1>7. QED
  BY <1>1, <1>2, <1>3, <1>4, <1>5, <1>6 DEF TransportNext, SenderStep

LEMMA InitQueues == TransportInit => IInv /\ QueuesWereSent /\ BoundsOK
<1> SUFFICES ASSUME TransportInit PROVE IInv /\ QueuesWereSent /\ BoundsOK
  OBVIOUS
<1>1. IInv
  BY InitInv DEF TransportInit
<1>2. QueuesWereSent
  BY EmptySeq DEF TransportInit, QueuesWereSent
<1>3. BoundsOK
  BY TransportAssumption DEF TransportInit, BoundsOK
<1>4. QED
  BY <1>1, <1>2, <1>3

\* The network of everything ever sent never forgets.
LEMMA NetworkGrows ==
    ASSUME [Next]_vars
    PROVE  data \subseteq data' /\ acks \subseteq acks'
  BY DEF Next, SenderLocalStep, SendNewStep, TimeoutStep, WaitAckStep, FinishStep,
     ReceiverStep, vars, networkVars

\* What a handler puts into a queue is put into the network as well.
LEMMA StepQueues ==
    ASSUME IInv, QueuesWereSent, [TransportNext]_transportVars
    PROVE  QueuesWereSent'
<1>1. data \subseteq data' /\ acks \subseteq acks'
  BY StepRefines, NetworkGrows
<1>2. dataInFlight \in Seq(data') /\ acksInFlight \in Seq(acks')
  BY <1>1, SeqMonotonic DEF QueuesWereSent
<1>3. CASE PutBurst
  <2>1. SendNew /\ data' = data \cup ToSet(Burst)
        /\ dataInFlight' = dataInFlight \o Burst /\ acksInFlight' = acksInFlight
    BY <1>3 DEF PutBurst, SendNewStep
  <2>2. Burst \in Seq(Nat)
    BY <2>1, BurstProperties DEF IInv
  <2>3. Burst \in Seq(data')
    <3>1. \A i \in 1..Len(Burst) : Burst[i] \in data'
      BY <2>1, <2>2, LenProperties DEF ToSet
    <3>2. QED
      BY <2>2, <3>1
  <2>4. QED
    BY <1>2, <2>1, <2>3, ConcatProperties DEF QueuesWereSent
<1>4. CASE PutResent \/ PutFin
  BY <1>2, <1>4 DEF PutResent, PutFin, TimeoutStep, FinishStep, QueuesWereSent
<1>5. CASE TakeAck
  <2>1. acksInFlight # <<>> /\ acksInFlight' = Tail(acksInFlight)
        /\ dataInFlight' = dataInFlight
    BY <1>5 DEF TakeAck
  <2>2. QED
    BY <1>2, <2>1, HeadTailProperties DEF QueuesWereSent
<1>6. CASE RunLocally \/ IdleTimeout \/ EarlyTimeout \/ Terminated
           \/ UNCHANGED transportVars
  BY <1>2, <1>6 DEF RunLocally, IdleTimeout, EarlyTimeout, Terminated, transportVars,
     queueVars, QueuesWereSent
<1>7. CASE TakePacket
  <2>1. dataInFlight # <<>> /\ dataInFlight' = Tail(dataInFlight)
    BY <1>7 DEF TakePacket
  <2>2. dataInFlight' \in Seq(data')
    BY <1>2, <2>1, HeadTailProperties
  <2>3. \/ acksInFlight' = acksInFlight
        \/ \E ack \in acks' : acksInFlight' = Append(acksInFlight, ack)
    BY <1>7 DEF TakePacket, PutAck
  <2>4. acksInFlight' \in Seq(acks')
    BY <1>2, <2>3
  <2>5. QED
    BY <2>2, <2>4 DEF QueuesWereSent
<1>8. CASE Fault
  <2>1. data' = data /\ acks' = acks
    BY <1>8 DEF Fault, vars, networkVars
  <2>2. \/ dataInFlight' \in Faulty(dataInFlight) /\ acksInFlight' = acksInFlight
        \/ acksInFlight' \in Faulty(acksInFlight) /\ dataInFlight' = dataInFlight
    BY <1>8 DEF Fault
  <2>3. QED
    BY <1>2, <2>1, <2>2, FaultyStays DEF QueuesWereSent
<1>9. QED
  BY <1>3, <1>4, <1>5, <1>6, <1>7, <1>8 DEF TransportNext, SenderStep

LEMMA StepBounds ==
    ASSUME BoundsOK, [TransportNext]_transportVars
    PROVE  BoundsOK'
<1> USE TransportAssumption DEF BoundsOK, boundVars
<1>1. CASE RunLocally \/ PutBurst \/ PutResent \/ PutFin \/ TakeAck \/ IdleTimeout
           \/ TakePacket \/ Terminated \/ UNCHANGED transportVars
  BY <1>1 DEF RunLocally, PutBurst, PutResent, PutFin, TakeAck, IdleTimeout,
     TakePacket, Terminated, transportVars
<1>2. CASE EarlyTimeout
  BY <1>2 DEF EarlyTimeout
<1>3. CASE Fault
  BY <1>3 DEF Fault
<1>4. QED
  BY <1>1, <1>2, <1>3 DEF TransportNext, SenderStep

LEMMA TransportInvariance ==
    TransportSpec => /\ [](IInv /\ QueuesWereSent /\ BoundsOK)
                     /\ Spec
<1>1. IInv /\ QueuesWereSent /\ BoundsOK /\ [TransportNext]_transportVars
        => (IInv /\ QueuesWereSent /\ BoundsOK)'
  BY StepRefines, NextInv, StepQueues, StepBounds
<1>2. QueuesWereSent /\ [TransportNext]_transportVars => [Next]_vars
  BY StepRefines
<1>3. TransportInit => Init
  BY DEF TransportInit
<1>4. QED
  BY <1>1, <1>2, <1>3, InitQueues, PTL DEF TransportSpec, Spec

----------------------------------------------------------------------------
\* Whatever the faults, Transport behaves as LossyTransport may: what is proved of
\* LossyTransport holds of it.
THEOREM TransportRefinement == TransportSpec => ImplementsLossyTransport
<1>1. QED
  BY TransportInvariance, PTL DEF ImplementsLossyTransport

\* The queues hold only messages that were sent, and every state is well typed.
THEOREM TransportTypes == TransportSpec => []TransportTypeOK
<1>1. TypeOK /\ QueuesWereSent /\ BoundsOK => TransportTypeOK
  BY DEF QueuesWereSent, BoundsOK, TransportTypeOK
<1>2. QED
  BY <1>1, TransportInvariance, TypeCorrectness, PTL

\* With any faults of the queues, too, a sender that closes leaves a complete file.
THEOREM TransportClosesComplete == TransportSpec => []ClosedIsComplete
<1>1. QED
  BY TransportInvariance, ClosedTransferIsComplete, PTL

----------------------------------------------------------------------------
(***************************************************************************)
(* A network that may only duplicate.  Its queues keep the order in which  *)
(* the packets were first sent, so the receiver meets no gap and writes    *)
(* each packet once, and its acks never jump.                              *)
(***************************************************************************)
OnlyDuplicates == Faults \subseteq {"duplicate"}

\* The file can fill every request, and no request is empty.
RequestsFit == Requests \subseteq 1..FILE_PACKETS

\* Of the packets in q, none beyond the one after n comes before the one it
\* follows; and packet m is there, if it is beyond n.
InOrder(q, n, m) ==
    /\ \A i \in 1..Len(q) :
        q[i] > n + 1 => \E j \in 1..(i - 1) : q[j] = q[i] - 1
    /\ m > n => \E j \in 1..Len(q) : q[j] = m

\* The acks in q go up from ack m to ack n in steps of at most one.
Climbs(q, m, n) ==
    /\ q = <<>> => m = n
    /\ q # <<>> => q[1] \in {m, m + 1} /\ q[Len(q)] = n
    /\ \A i \in 2..Len(q) : q[i] \in {q[i - 1], q[i - 1] + 1}

\* The receiver has the packets 1..old_pid, each written once.
ReceiverInOrder ==
    /\ array = 1..old_pid
    /\ Len(written) = old_pid

\* The sender's part: it waits only with packets in flight, and sends only when
\* the window has room for a packet and there is one.
SenderNeverIdle ==
    /\ spc # "crashed"
    /\ Total <= FILE_PACKETS
    /\ spc = "start" => bytes_count > 0
    /\ (spc # "start" /\ bytes_count = 0) => read_all_flag = 1
    /\ Dispatch(0) => /\ Len(pkt_q_copy) < WINDOW
                      /\ pkt_q # <<>> \/ read_all_flag = 0
    /\ (Dispatch(1) \/ Dispatch(2)) => pkt_q_copy # <<>>
    /\ Acked = last_ack

OrderInv ==
    /\ InOrder(dataInFlight, old_pid, Sent)
    /\ Climbs(acksInFlight, last_ack, old_pid)
    /\ ReceiverInOrder
    /\ SenderNeverIdle

----------------------------------------------------------------------------
(***************************************************************************)
(* The two orders, as facts about sequences.                               *)
(***************************************************************************)

\* A sequence with one element twice.
LEMMA Twice ==
    ASSUME NEW q \in Seq(Nat), NEW i \in 1..Len(q)
    PROVE  /\ InsertAt(q, i, q[i]) \in Seq(Nat)
           /\ Len(InsertAt(q, i, q[i])) = Len(q) + 1
           /\ \A k \in 1..(Len(q) + 1) :
                InsertAt(q, i, q[i])[k] = IF k <= i THEN q[k] ELSE q[k - 1]
<1> DEFINE n == Len(q)
           front == SubSeq(q, 1, i - 1)
           rest == SubSeq(q, i, n)
<1>1. n \in Nat /\ i \in 1..n /\ i \in Int /\ i - 1 \in Int /\ 1 \in Int
  OBVIOUS
<1>2. \A k \in 1..n : q[k] \in Nat
  BY ElementOfSeq
<1> HIDE DEF n
<1>3. front \in Seq(Nat) /\ Len(front) = i - 1
      /\ \A k \in 1..(i - 1) : front[k] = q[k]
  <2>1. \A k \in 1..(i - 1) : q[k] \in Nat
    BY <1>1, <1>2
  <2>2. /\ front \in Seq(Nat)
        /\ Len(front) = IF 1 <= i - 1 THEN i - 1 - 1 + 1 ELSE 0
        /\ \A k \in 1..(i - 1 - 1 + 1) : front[k] = q[1 + k - 1]
    BY <1>1, <2>1, SubSeqProperties
  <2>3. \A k \in 1..(i - 1) : 1 + k - 1 = k /\ k \in 1..(i - 1 - 1 + 1)
    BY <1>1
  <2>4. Len(front) = i - 1
    BY <1>1, <2>2
  <2>5. QED
    BY <2>2, <2>3, <2>4
<1>4. rest \in Seq(Nat) /\ Len(rest) = n - i + 1
      /\ \A k \in 1..(n - i + 1) : rest[k] = q[i + k - 1]
  <2>1. \A k \in i..n : q[k] \in Nat
    BY <1>1, <1>2
  <2>2. /\ rest \in Seq(Nat)
        /\ Len(rest) = IF i <= n THEN n - i + 1 ELSE 0
        /\ \A k \in 1..(n - i + 1) : rest[k] = q[i + k - 1]
    BY <1>1, <2>1, SubSeqProperties
  <2>3. QED
    BY <1>1, <2>2
<1>5. <<q[i]>> \in Seq(Nat) /\ Len(<<q[i]>>) = 1 /\ <<q[i]>>[1] = q[i]
  BY <1>1, <1>2
<1> DEFINE head == front \o <<q[i]>>
<1> HIDE DEF front, rest
<1>6. head \in Seq(Nat) /\ Len(head) = i
      /\ \A k \in 1..i : head[k] = q[k]
  <2>1. /\ head \in Seq(Nat) /\ Len(head) = Len(front) + Len(<<q[i]>>)
        /\ \A k \in 1..(Len(front) + Len(<<q[i]>>)) :
             head[k] = IF k <= Len(front) THEN front[k] ELSE <<q[i]>>[k - Len(front)]
    BY <1>3, <1>5, ConcatProperties
  <2>2. Len(head) = i
    BY <1>1, <1>3, <1>5, <2>1
  <2>3. ASSUME NEW k \in 1..i PROVE head[k] = q[k]
    <3>1. CASE k <= i - 1
      BY <1>1, <1>3, <1>5, <2>1, <3>1
    <3>2. CASE k = i
      <4>1. k - Len(front) = 1
        BY <1>1, <1>3, <3>2
      <4>2. head[k] = <<q[i]>>[k - Len(front)]
        BY <1>1, <1>3, <1>5, <2>1, <3>2
      <4>3. QED
        BY <1>5, <3>2, <4>1, <4>2
    <3>3. k <= i - 1 \/ k = i
      BY <1>1
    <3>4. QED
      BY <3>1, <3>2, <3>3
  <2>4. QED
    BY <2>1, <2>2, <2>3
<1> HIDE DEF head
<1>7. /\ head \o rest \in Seq(Nat)
      /\ Len(head \o rest) = Len(head) + Len(rest)
      /\ \A k \in 1..(Len(head) + Len(rest)) :
           (head \o rest)[k] = IF k <= Len(head) THEN head[k] ELSE rest[k - Len(head)]
  BY <1>4, <1>6, ConcatProperties
<1>8. InsertAt(q, i, q[i]) = head \o rest
  BY DEF InsertAt, head, front, rest, n
<1>9. Len(head) + Len(rest) = n + 1
  BY <1>1, <1>4, <1>6
<1>10. ASSUME NEW k \in 1..(n + 1)
       PROVE  (head \o rest)[k] = IF k <= i THEN q[k] ELSE q[k - 1]
  <2>1. CASE k <= i
    BY <1>1, <1>6, <1>7, <1>9, <2>1
  <2>2. CASE ~ (k <= i)
    <3>1. k - i \in 1..(n - i + 1) /\ i + (k - i) - 1 = k - 1
      BY <1>1, <2>2
    <3>2. (head \o rest)[k] = rest[k - i]
      BY <1>1, <1>6, <1>7, <1>9, <2>2
    <3>3. QED
      BY <1>4, <2>2, <3>1, <3>2
  <2>3. QED
    BY <2>1, <2>2
<1>11. QED
  BY <1>7, <1>8, <1>9, <1>10 DEF n

\* A network that only duplicates.
LEMMA FaultyIsTwice ==
    ASSUME OnlyDuplicates, NEW q, NEW r \in Faulty(q)
    PROVE  \E i \in DOMAIN q : r = InsertAt(q, i, q[i])
  BY DEF OnlyDuplicates, Faulty

\* The packet at the front is at most the one after n, and once it is taken the
\* others are still in order.
LEMMA InOrderTail ==
    ASSUME NEW q \in Seq(Nat), q # <<>>, NEW n \in Nat, NEW m \in Nat, InOrder(q, n, m)
    PROVE  /\ Head(q) <= n + 1
           /\ Head(q) = n + 1 => InOrder(Tail(q), n + 1, m)
           /\ Head(q) # n + 1 => InOrder(Tail(q), n, m)
<1>1. /\ Tail(q) \in Seq(Nat) /\ Len(Tail(q)) = Len(q) - 1
      /\ \A i \in 1..Len(Tail(q)) : Tail(q)[i] = q[i + 1]
      /\ Len(q) \in Nat \ {0} /\ Head(q) = q[1]
  BY HeadTailProperties, EmptySeq
<1>2. \A i \in 1..Len(q) : q[i] \in Nat
  BY ElementOfSeq
<1>3. Head(q) <= n + 1
  <2>1. 1 \in 1..Len(q) /\ 1..(1 - 1) = {}
    BY <1>1
  <2>2. ~ (q[1] > n + 1)
    BY <2>1 DEF InOrder
  <2>3. QED
    BY <1>1, <1>2, <2>1, <2>2
<1>4. ASSUME NEW k \in {n, n + 1}, Head(q) = n + 1 <=> k = n + 1
      PROVE  InOrder(Tail(q), k, m)
  <2>1. ASSUME NEW i \in 1..Len(Tail(q)), Tail(q)[i] > k + 1
        PROVE  \E j \in 1..(i - 1) : Tail(q)[j] = Tail(q)[i] - 1
    <3>1. i + 1 \in 1..Len(q) /\ Tail(q)[i] = q[i + 1] /\ q[i + 1] \in Nat
      BY <1>1, <1>2
    <3>2. q[i + 1] > n + 1
      BY <2>1, <3>1
    <3>3. PICK j \in 1..(i + 1 - 1) : q[j] = q[i + 1] - 1
      BY <3>1, <3>2 DEF InOrder
    <3>4. j # 1
      BY <1>1, <1>3, <1>4, <2>1, <3>1, <3>3
    <3>5. j - 1 \in 1..(i - 1) /\ j - 1 \in 1..Len(Tail(q)) /\ j - 1 + 1 = j
      BY <1>1, <3>3, <3>4
    <3>6. Tail(q)[j - 1] = q[j]
      BY <1>1, <3>5
    <3>7. QED
      BY <3>1, <3>3, <3>5, <3>6
  <2>2. ASSUME m > k PROVE \E j \in 1..Len(Tail(q)) : Tail(q)[j] = m
    <3>1. m > n
      BY <2>2
    <3>2. PICK j \in 1..Len(q) : q[j] = m
      BY <3>1 DEF InOrder
    <3>3. j # 1
      BY <1>1, <1>3, <1>4, <2>2, <3>2
    <3>4. j - 1 \in 1..Len(Tail(q)) /\ j - 1 + 1 = j
      BY <1>1, <3>2, <3>3
    <3>5. Tail(q)[j - 1] = q[j]
      BY <1>1, <3>4
    <3>6. QED
      BY <3>2, <3>4, <3>5
  <2>3. QED
    BY <2>1, <2>2 DEF InOrder
<1>5. QED
  BY <1>3, <1>4

\* What continues the packets sent so far is in order behind them.
LEMMA InOrderBurst ==
    ASSUME NEW q \in Seq(Nat), NEW b \in Seq(Nat), NEW n \in Nat, NEW m \in Nat,
           InOrder(q, n, m), \A i \in 1..Len(b) : b[i] = m + i
    PROVE  InOrder(q \o b, n, m + Len(b))
<1>1. /\ q \o b \in Seq(Nat) /\ Len(q \o b) = Len(q) + Len(b)
      /\ \A i \in 1..(Len(q) + Len(b)) :
           (q \o b)[i] = IF i <= Len(q) THEN q[i] ELSE b[i - Len(q)]
      /\ Len(q) \in Nat /\ Len(b) \in Nat
  BY ConcatProperties
<1>2. ASSUME NEW j \in 1..Len(q) PROVE (q \o b)[j] = q[j]
  BY <1>1
<1>3. ASSUME NEW j \in 1..Len(b)
      PROVE  Len(q) + j \in 1..Len(q \o b) /\ (q \o b)[Len(q) + j] = m + j
  <2>1. Len(q) + j \in 1..(Len(q) + Len(b)) /\ ~ (Len(q) + j <= Len(q))
        /\ Len(q) + j - Len(q) = j
    BY <1>1
  <2>2. QED
    BY <1>1, <2>1
<1>4. ASSUME NEW i \in 1..Len(q \o b), (q \o b)[i] > n + 1
      PROVE  \E j \in 1..(i - 1) : (q \o b)[j] = (q \o b)[i] - 1
  <2>1. CASE i <= Len(q)
    <3>1. i \in 1..Len(q) /\ (q \o b)[i] = q[i]
      BY <1>1, <2>1
    <3>2. PICK j \in 1..(i - 1) : q[j] = q[i] - 1
      BY <1>4, <3>1 DEF InOrder
    <3>3. j \in 1..Len(q)
      BY <3>1, <3>2
    <3>4. QED
      BY <1>2, <3>1, <3>2, <3>3
  <2>2. CASE i = Len(q) + 1
    <3>1. 1 \in 1..Len(b) /\ (q \o b)[i] = m + 1
      BY <1>1, <1>3, <2>2
    <3>2. PICK j \in 1..Len(q) : q[j] = m
      BY <1>4, <3>1 DEF InOrder
    <3>3. j \in 1..(i - 1)
      BY <1>1, <2>2, <3>2
    <3>4. QED
      BY <1>2, <3>1, <3>2, <3>3
  <2>3. CASE i > Len(q) + 1
    <3>1. i - Len(q) \in 1..Len(b) /\ i - 1 - Len(q) \in 1..Len(b)
          /\ Len(q) + (i - Len(q)) = i /\ Len(q) + (i - 1 - Len(q)) = i - 1
          /\ i - 1 \in 1..(i - 1)
      BY <1>1, <2>3
    <3>2. (q \o b)[i] = m + (i - Len(q)) /\ (q \o b)[i - 1] = m + (i - 1 - Len(q))
      BY <1>3, <3>1
    <3>3. (q \o b)[i - 1] = (q \o b)[i] - 1
      BY <1>1, <3>2
    <3>4. QED
      BY <3>1, <3>3
  <2>4. i \in Int /\ Len(q) \in Int
    BY <1>1
  <2>5. i <= Len(q) \/ i = Len(q) + 1 \/ i > Len(q) + 1
    BY <2>4
  <2>6. QED
    BY <2>1, <2>2, <2>3, <2>5
<1>5. ASSUME m + Len(b) > n PROVE \E j \in 1..Len(q \o b) : (q \o b)[j] = m + Len(b)
  <2>1. CASE Len(b) = 0
    <3>1. PICK j \in 1..Len(q) : q[j] = m
      BY <1>5, <2>1 DEF InOrder
    <3>2. (q \o b)[j] = m /\ j \in 1..Len(q \o b)
      BY <1>1, <1>2, <2>1, <3>1
    <3>3. m + Len(b) = m
      BY <2>1
    <3>4. QED
      BY <3>2, <3>3
  <2>2. CASE Len(b) > 0
    <3>1. Len(b) \in 1..Len(b)
      BY <1>1, <2>2
    <3>2. QED
      BY <1>3, <3>1
  <2>3. QED
    BY <1>1, <2>1, <2>2
<1>6. QED
  BY <1>4, <1>5 DEF InOrder

\* A packet that is sent again does not disturb the order.
LEMMA InOrderAppend ==
    ASSUME NEW q \in Seq(Nat), NEW n \in Nat, NEW m \in Nat, InOrder(q, n, m),
           NEW p \in Nat, p <= n + 1
    PROVE  InOrder(Append(q, p), n, m)
<1>1. /\ Append(q, p) \in Seq(Nat) /\ Len(Append(q, p)) = Len(q) + 1 /\ Len(q) \in Nat
      /\ \A i \in 1..Len(q) : Append(q, p)[i] = q[i]
      /\ Append(q, p)[Len(q) + 1] = p
  OBVIOUS
<1> DEFINE r == Append(q, p)
<1> HIDE DEF r
<1>2. /\ Len(r) = Len(q) + 1 /\ Len(q) \in Nat
      /\ \A i \in 1..Len(q) : r[i] = q[i]
      /\ r[Len(q) + 1] = p
  BY <1>1 DEF r
<1>3. ASSUME NEW i \in 1..Len(r), r[i] > n + 1
      PROVE  \E j \in 1..(i - 1) : r[j] = r[i] - 1
  <2>1. i # Len(q) + 1
    BY <1>2, <1>3
  <2>2. i \in 1..Len(q) /\ r[i] = q[i]
    BY <1>2, <2>1
  <2>3. PICK j \in 1..(i - 1) : q[j] = q[i] - 1
    BY <1>3, <2>2 DEF InOrder
  <2>4. j \in 1..Len(q)
    BY <1>2, <2>2, <2>3
  <2>5. QED
    BY <1>2, <2>2, <2>3, <2>4
<1>4. ASSUME m > n PROVE \E j \in 1..Len(r) : r[j] = m
  BY <1>2, <1>4 DEF InOrder
<1>5. QED
  BY <1>3, <1>4 DEF InOrder, r

\* Nor does a packet that comes twice.
LEMMA InOrderTwice ==
    ASSUME NEW q \in Seq(Nat), NEW n \in Nat, NEW m \in Nat, InOrder(q, n, m),
           NEW i \in 1..Len(q)
    PROVE  InOrder(InsertAt(q, i, q[i]), n, m)
<1> DEFINE r == InsertAt(q, i, q[i])
<1> HIDE DEF r
<1>1. /\ Len(r) = Len(q) + 1 /\ Len(q) \in Nat
      /\ \A k \in 1..(Len(q) + 1) : r[k] = IF k <= i THEN q[k] ELSE q[k - 1]
  <2>1. Len(q) \in Nat
    OBVIOUS
  <2>2. QED
    BY <2>1, Twice DEF r
\* The place in r of what is at place j of q.
<1>2. ASSUME NEW j \in 1..Len(q)
      PROVE  \E k \in 1..Len(r) : r[k] = q[j] /\ (j <= i => k = j) /\ (j > i => k = j + 1)
  <2>1. CASE j <= i
    BY <1>1, <2>1
  <2>2. CASE j > i
    <3>1. j + 1 \in 1..(Len(q) + 1) /\ j + 1 - 1 = j /\ ~ (j + 1 <= i)
      BY <1>1, <2>2
    <3>2. r[j + 1] = q[j]
      BY <1>1, <3>1
    <3>3. QED
      BY <1>1, <2>2, <3>1, <3>2
  <2>3. QED
    BY <2>1, <2>2
<1>3. ASSUME NEW k \in 1..Len(r), r[k] > n + 1
      PROVE  \E j \in 1..(k - 1) : r[j] = r[k] - 1
  <2>1. PICK h \in 1..Len(q) : r[k] = q[h] /\ h \in {k, k - 1} /\ (k <= i <=> h = k)
    <3>1. CASE k <= i
      BY <1>1, <3>1
    <3>2. CASE ~ (k <= i)
      BY <1>1, <3>2
    <3>3. QED
      BY <3>1, <3>2
  <2>2. PICK j \in 1..(h - 1) : q[j] = q[h] - 1
    BY <1>3, <2>1 DEF InOrder
  <2>3. j \in 1..Len(q)
    BY <1>1, <2>2
  <2>4. PICK l \in 1..Len(r) : r[l] = q[j] /\ (j <= i => l = j) /\ (j > i => l = j + 1)
    BY <1>2, <2>3
  <2>5. l \in 1..(k - 1)
    BY <1>1, <2>1, <2>2, <2>3, <2>4
  <2>6. QED
    BY <2>1, <2>2, <2>4, <2>5
<1>4. ASSUME m > n PROVE \E j \in 1..Len(r) : r[j] = m
  BY <1>2, <1>4 DEF InOrder
<1>5. QED
  BY <1>3, <1>4 DEF InOrder, r

\* The ack at the front is the last one taken or the one after it.
LEMMA ClimbsTail ==
    ASSUME NEW q \in Seq(Nat), q # <<>>, NEW m \in Nat, NEW n \in Nat, Climbs(q, m, n)
    PROVE  Head(q) \in {m, m + 1} /\ Climbs(Tail(q), Head(q), n)
<1> DEFINE r == Tail(q)
<1>1. /\ r \in Seq(Nat) /\ Len(r) = Len(q) - 1
      /\ \A i \in 1..Len(r) : r[i] = q[i + 1]
      /\ Len(q) \in Nat \ {0} /\ Head(q) = q[1]
  BY HeadTailProperties, EmptySeq
<1>2. r = <<>> <=> Len(r) = 0
  BY <1>1, EmptySeq
<1> HIDE DEF r
<1>3. Head(q) \in {m, m + 1}
  BY <1>1 DEF Climbs
<1>4. ASSUME r = <<>> PROVE Head(q) = n
  <2>1. Len(q) = 1
    BY <1>1, <1>2, <1>4
  <2>2. QED
    BY <1>1, <2>1 DEF Climbs
<1>5. ASSUME r # <<>> PROVE r[1] \in {Head(q), Head(q) + 1} /\ r[Len(r)] = n
  <2>1. 1 \in 1..Len(r) /\ Len(r) \in 1..Len(r) /\ 2 \in 2..Len(q) /\ 1 + 1 = 2 /\ 2 - 1 = 1
        /\ Len(r) + 1 = Len(q)
    BY <1>1, <1>2, <1>5
  <2>2. r[1] = q[2] /\ r[Len(r)] = q[Len(q)]
    BY <1>1, <2>1
  <2>3. q[2] \in {q[1], q[1] + 1}
    <3>1. q[2] \in {q[2 - 1], q[2 - 1] + 1}
      BY <2>1 DEF Climbs
    <3>2. QED
      BY <2>1, <3>1
  <2>4. q[Len(q)] = n
    BY DEF Climbs
  <2>5. QED
    BY <1>1, <2>2, <2>3, <2>4
<1>6. ASSUME NEW i \in 2..Len(r) PROVE r[i] \in {r[i - 1], r[i - 1] + 1}
  <2>1. i \in 1..Len(r) /\ i - 1 \in 1..Len(r) /\ i + 1 \in 2..Len(q)
        /\ i - 1 + 1 = i /\ i + 1 - 1 = i
    BY <1>1
  <2>2. r[i] = q[i + 1] /\ r[i - 1] = q[i]
    <3>1. r[i] = q[i + 1] /\ r[i - 1] = q[i - 1 + 1]
      BY <1>1, <2>1
    <3>2. QED
      BY <2>1, <3>1
  <2>3. q[i + 1] \in {q[i], q[i] + 1}
    <3>1. q[i + 1] \in {q[i + 1 - 1], q[i + 1 - 1] + 1}
      BY <2>1 DEF Climbs
    <3>2. QED
      BY <2>1, <3>1
  <2>4. QED
    BY <2>2, <2>3
<1>7. QED
  BY <1>3, <1>4, <1>5, <1>6 DEF Climbs, r

\* An ack that repeats the last one, or is the one after it, goes on.
LEMMA ClimbsAppend ==
    ASSUME NEW q \in Seq(Nat), NEW m \in Nat, NEW n \in Nat, Climbs(q, m, n),
           NEW a \in {n, n + 1}
    PROVE  Climbs(Append(q, a), m, a)
<1> DEFINE r == Append(q, a)
<1>1. /\ Len(r) = Len(q) + 1 /\ Len(q) \in Nat
      /\ \A i \in 1..Len(q) : r[i] = q[i]
      /\ r[Len(q) + 1] = a
      /\ r # <<>>
  <2>1. a \in Nat
    OBVIOUS
  <2>2. QED
    BY <2>1
<1>2. q = <<>> <=> Len(q) = 0
  BY EmptySeq
<1> HIDE DEF r
<1>3. r[1] \in {m, m + 1} /\ r[Len(r)] = a
  BY <1>1, <1>2 DEF Climbs
<1>4. ASSUME NEW i \in 2..Len(r) PROVE r[i] \in {r[i - 1], r[i - 1] + 1}
  <2>1. i - 1 \in 1..Len(q) /\ r[i - 1] = q[i - 1]
    BY <1>1
  <2>2. CASE i \in 2..Len(q)
    <3>1. r[i] = q[i]
      BY <1>1, <2>2
    <3>2. QED
      BY <2>1, <2>2, <3>1 DEF Climbs
  <2>3. CASE i = Len(q) + 1
    <3>1. r[i] = a /\ q[Len(q)] = n /\ i - 1 = Len(q)
      BY <1>1, <1>2, <2>1, <2>3 DEF Climbs
    <3>2. QED
      BY <2>1, <3>1
  <2>4. i \in 2..Len(q) \/ i = Len(q) + 1
    BY <1>1
  <2>5. QED
    BY <2>2, <2>3, <2>4
<1>5. QED
  BY <1>1, <1>3, <1>4 DEF Climbs, r

\* So does an ack that comes twice.
LEMMA ClimbsTwice ==
    ASSUME NEW q \in Seq(Nat), NEW m \in Nat, NEW n \in Nat, Climbs(q, m, n),
           NEW i \in 1..Len(q)
    PROVE  Climbs(InsertAt(q, i, q[i]), m, n)
<1> DEFINE r == InsertAt(q, i, q[i])
<1>0. r \in Seq(Nat) /\ Len(r) = Len(q) + 1
  BY Twice
<1>1. r # <<>>
  BY <1>0, EmptySeq
<1> HIDE DEF r
<1>2. /\ Len(r) = Len(q) + 1 /\ Len(q) \in Nat
      /\ \A k \in 1..(Len(q) + 1) : r[k] = IF k <= i THEN q[k] ELSE q[k - 1]
  <2>1. Len(q) \in Nat
    OBVIOUS
  <2>2. QED
    BY <2>1, Twice DEF r
<1>3. q # <<>>
  BY EmptySeq
<1>4. r[1] \in {m, m + 1}
  <2>1. 1 \in 1..(Len(q) + 1) /\ 1 <= i
    BY <1>2
  <2>2. r[1] = q[1]
    BY <1>2, <2>1
  <2>3. QED
    BY <1>3, <2>2 DEF Climbs
<1>5. r[Len(r)] = n
  <2>1. Len(r) \in 1..(Len(q) + 1) /\ ~ (Len(r) <= i) /\ Len(r) - 1 = Len(q)
    BY <1>2
  <2>2. r[Len(r)] = q[Len(q)]
    BY <1>2, <2>1
  <2>3. QED
    BY <1>3, <2>2 DEF Climbs
<1>6. ASSUME NEW k \in 2..Len(r) PROVE r[k] \in {r[k - 1], r[k - 1] + 1}
  <2>1. k \in 1..(Len(q) + 1) /\ k - 1 \in 1..(Len(q) + 1) /\ k \in Int /\ i \in Int
    BY <1>2
  <2>2. CASE k <= i
    <3>1. r[k] = q[k] /\ r[k - 1] = q[k - 1] /\ k \in 2..Len(q)
      BY <1>2, <2>1, <2>2
    <3>2. QED
      BY <3>1 DEF Climbs
  <2>3. CASE k = i + 1
    <3>1. ~ (k <= i) /\ k - 1 <= i /\ k - 1 = i
      BY <2>1, <2>3
    <3>2. r[k] = q[k - 1] /\ r[k - 1] = q[k - 1]
      BY <1>2, <2>1, <3>1
    <3>3. QED
      BY <3>2
  <2>4. CASE k > i + 1
    <3>1. ~ (k <= i) /\ ~ (k - 1 <= i) /\ k - 1 \in 2..Len(q)
      BY <1>2, <2>1, <2>4
    <3>2. r[k] = q[k - 1] /\ r[k - 1] = q[k - 1 - 1]
      BY <1>2, <2>1, <3>1
    <3>3. QED
      BY <3>1, <3>2 DEF Climbs
  <2>5. k <= i \/ k = i + 1 \/ k > i + 1
    BY <2>1
  <2>6. QED
    BY <2>2, <2>3, <2>4, <2>5
<1>7. QED
  BY <1>1, <1>4, <1>5, <1>6 DEF Climbs, r

----------------------------------------------------------------------------
(***************************************************************************)
(* The sender on a network that keeps its acks in order.                   *)
(***************************************************************************)

\* A batch is not empty while there is something to load.
LEMMA BatchNotEmpty ==
    ASSUME SenderInv, Total <= FILE_PACKETS, bytes_count > 0
    PROVE  LoadCount \in Nat /\ LoadCount > 0
<1>1. /\ package_id \in Nat /\ bytes_count \in Nat /\ bytes_count > 0
      /\ package_id - 1 + bytes_count <= FILE_PACKETS
  BY DEF SenderInv, SenderTypeOK, Total
<1>2. BATCH \in Nat \ {0} /\ FILE_PACKETS \in Nat
  BY SenderAssumption
<1>3. QED
  BY <1>1, <1>2 DEF LoadCount, Smaller

\* The loop starts with packets to send and room for them.
LEMMA ReliablyTransferOrder ==
    ASSUME SenderInv, SenderNeverIdle, ReliablyTransfer
    PROVE  SenderNeverIdle'
<1>1. Total' = Total /\ Acked = 0 /\ Acked' = 0 /\ last_ack' = last_ack
  BY ReliablyTransferInv DEF ReliablyTransfer
<1>2. spc = "start" /\ spc' = "loop" /\ pkt_q_copy' = <<>> /\ state' = 0
      /\ bytes_count > 0 /\ bytes_count \in Nat
  BY DEF ReliablyTransfer, SenderInv, SenderTypeOK, SenderFlags, SenderNeverIdle
<1>3. pkt_q' # <<>>
  <2>1. LoadCount > 0
    BY <1>2, BatchNotEmpty DEF SenderNeverIdle
  <2>2. pkt_q' \in Seq(Nat) /\ Len(pkt_q') = LoadCount
    BY DividePacket DEF ReliablyTransfer
  <2>3. Len(<<>>) = 0
    BY EmptySeq
  <2>4. QED
    BY <2>1, <2>2, <2>3
<1>4. Len(pkt_q_copy') = 0
  BY <1>2, EmptySeq
<1>5. bytes_count' = 0 => read_all_flag' = 1
  BY DEF ReliablyTransfer, dividepacket
<1>6. Len(pkt_q_copy') < WINDOW
  BY <1>4, SenderAssumption
<1>7. Total' <= FILE_PACKETS /\ Acked' = last_ack'
  BY <1>1 DEF SenderNeverIdle
<1>8. QED
  BY <1>2, <1>3, <1>5, <1>6, <1>7 DEF SenderNeverIdle, Dispatch

\* send_new() sends at least one packet.
LEMMA SendNewOrder ==
    ASSUME SenderInv, SenderNeverIdle, SendNew
    PROVE  SenderNeverIdle'
<1>1. Total' = Total /\ Acked' = Acked /\ last_ack' = last_ack
  BY SendNewInv DEF SendNew
<1>2. /\ spc = "loop" /\ spc' = "loop" /\ state' = 2
      /\ Dispatch(0)
      /\ pkt_q # <<>> \/ read_all_flag = 0
      /\ pkt_q_copy' = pkt_q_copy \o Burst
  BY DEF SendNew, Dispatch
<1>3. bytes_count' = 0 => read_all_flag' = 1
  BY <1>2 DEF SendNew, dividepacket, SenderNeverIdle
<1>4. Len(Queue) \in Nat /\ Len(Queue) > 0
  <2>1. CASE pkt_q # <<>>
    <3>1. pkt_q \in Seq(Nat) /\ Queue = pkt_q
      BY <2>1 DEF SenderInv, SenderTypeOK, Queue
    <3>2. QED
      BY <2>1, <3>1, EmptySeq
  <2>2. CASE pkt_q = <<>>
    <3>1. bytes_count > 0
      BY <1>2, <2>2 DEF SenderNeverIdle, SenderInv, SenderTypeOK
    <3>2. LoadCount \in Nat /\ LoadCount > 0
      BY <3>1, BatchNotEmpty DEF SenderNeverIdle
    <3>3. Len(NewPackets) = LoadCount
      BY <2>2, DividePacket DEF SendNew
    <3>4. QED
      BY <2>2, <3>2, <3>3 DEF Queue
  <2>3. QED
    BY <2>1, <2>2
<1>5. Len(Burst) > 0 /\ Burst \in Seq(Nat)
  <2>1. Len(pkt_q_copy) \in Nat /\ Len(pkt_q_copy) < WINDOW
    BY <1>2, Lengths DEF SenderNeverIdle
  <2> DEFINE n == Smaller(Len(Queue), WINDOW - Len(pkt_q_copy))
  <2>2. n \in Nat /\ n > 0 /\ n <= Len(Queue)
    <3>1. \A a, b \in Nat : a > 0 /\ b > 0
            => Smaller(a, b) \in Nat /\ Smaller(a, b) > 0 /\ Smaller(a, b) <= a
      BY DEF Smaller
    <3>2. WINDOW \in Nat
      BY SenderAssumption
    <3>3. WINDOW - Len(pkt_q_copy) \in Nat /\ WINDOW - Len(pkt_q_copy) > 0
      BY <2>1, <3>2
    <3>4. QED
      BY <1>4, <3>1, <3>3
  <2>3. Burst = SubSeq(Queue, 1, n) /\ Queue \in Seq(Nat)
    BY QueueProperties DEF Burst
  <2> HIDE DEF n
  <2>4. \A i \in 1..n : Queue[i] \in Nat
    BY <1>4, <2>2, <2>3, ElementOfSeq
  <2>5. Len(Burst) = IF 1 <= n THEN n - 1 + 1 ELSE 0
    BY <2>2, <2>3, <2>4, SubSeqProperties
  <2>6. QED
    BY <2>2, <2>5, BurstProperties
<1>6. pkt_q_copy' # <<>>
  <2>1. pkt_q_copy \in Seq(Nat)
    BY DEF SenderInv, SenderTypeOK
  <2>2. Burst # <<>>
    BY <1>5, EmptySeq
  <2>3. QED
    BY <1>2, <1>5, <2>1, <2>2, ConcatEqualIffEmpty
<1>7. QED
  BY <1>1, <1>2, <1>3, <1>6 DEF SenderNeverIdle, Dispatch

\* The handlers that leave the queues alone; send_new() never finds the whole
\* transfer sent, and wait() never finds the window empty.
LEMMA QuietOrder ==
    ASSUME SenderInv, SenderNeverIdle,
           NothingLeft \/ Crash \/ Timeout \/ WaitEagain \/ Finish
    PROVE  SenderNeverIdle' /\ ~ NothingLeft /\ ~ Crash
<1>1. ~ NothingLeft /\ ~ Crash
  BY DEF NothingLeft, Crash, UndefinedFront, SenderNeverIdle
<1>2. Total' = Total /\ Acked' = Acked
  BY QuietStepInv
<1>3. UNCHANGED <<pkt_q, pkt_q_copy, bytes_count, read_all_flag, last_ack>>
  BY DEF NothingLeft, Crash, Timeout, WaitEagain, Finish
<1>4. /\ spc = "loop" /\ spc' \in {"loop", "closed"}
      /\ spc' = "loop" => /\ state' \in {1, 2}
                          /\ Dispatch(1) \/ Dispatch(2)
  BY <1>1 DEF Timeout, WaitEagain, Finish, Dispatch
<1>5. QED
  BY <1>1, <1>2, <1>3, <1>4 DEF SenderNeverIdle, Dispatch

\* An ack that repeats the last one or is the one after it pops at most the front.
LEMMA WaitAckOrder ==
    ASSUME SenderInv, SenderNeverIdle, NEW ack \in {last_ack, last_ack + 1},
           WaitAck(ack)
    PROVE  SenderNeverIdle' /\ last_ack' = ack /\ Sent' = Sent
<1>1. /\ Dispatch(2) /\ pkt_q_copy # <<>> /\ Acked = last_ack
      /\ Acked \in Nat /\ last_ack \in Nat /\ ack \in Nat
      /\ Head(pkt_q_copy) = Acked + 1 /\ FrontIds = {Acked + 1}
  BY Lengths, FrontProperties
     DEF WaitAck, DupAck, OldAck, HeadAck, SkipAck, SenderNeverIdle, SenderInv, SenderTypeOK
<1>2. ~ SkipAck(ack)
  BY <1>1 DEF SkipAck
<1>3. CASE DupAck(ack) \/ OldAck(ack)
  <2>1. Sent' = Sent /\ Acked' = Acked /\ Total' = Total /\ last_ack' = ack
    BY <1>1, <1>3, DupOrOldAckInv
  <2>2. ack = last_ack
    <3>1. CASE DupAck(ack)
      BY <3>1 DEF DupAck, ThirdDuplicate
    <3>2. CASE OldAck(ack)
      <4>1. Acked + 1 > ack
        BY <1>1, <3>2 DEF OldAck
      <4>2. QED
        BY <1>1, <4>1
    <3>3. QED
      BY <1>3, <3>1, <3>2
  <2>3. /\ UNCHANGED <<spc, pkt_q, pkt_q_copy, bytes_count, read_all_flag, ack_all_flag>>
        /\ state' \in {1, 2}
    BY <1>1, <1>3 DEF DupAck, OldAck, Dispatch
  <2>4. QED
    BY <1>1, <2>1, <2>2, <2>3 DEF SenderNeverIdle, Dispatch
<1>4. CASE HeadAck(ack)
  <2>1. ack = Acked + 1
    BY <1>1, <1>4 DEF HeadAck
  <2>2. Sent = Acked + Len(pkt_q_copy) /\ Len(pkt_q_copy) \in Nat
        /\ Len(pkt_q_copy) <= WINDOW /\ Len(pkt_q_copy) > 0 /\ WINDOW \in Nat
    <3>1. pkt_q_copy \in Seq(Nat)
      BY DEF SenderInv, SenderTypeOK
    <3>2. QED
      BY <1>1, <3>1, Lengths, EmptySeq, SenderAssumption DEF SenderInv, WindowRespected
  <2>3. ack \in 0..Sent
    BY <1>1, <2>1, <2>2
  <2>4. /\ SenderInv' /\ Sent' = Sent /\ Acked' = ack /\ Total' = Total /\ last_ack' = ack
    BY <1>4, <2>3, PopAckInv
  <2>5. Len(pkt_q_copy') < WINDOW
    <3>1. pkt_q_copy' = Tail(pkt_q_copy) /\ pkt_q_copy \in Seq(Nat)
      BY <1>4 DEF HeadAck, Popped, SenderInv, SenderTypeOK
    <3>2. Len(Tail(pkt_q_copy)) = Len(pkt_q_copy) - 1
      BY <1>1, <3>1, HeadTailProperties
    <3>3. QED
      BY <2>2, <3>1, <3>2
  <2>6. /\ UNCHANGED <<spc, pkt_q, bytes_count, read_all_flag>>
        /\ \/ /\ pkt_q = <<>> /\ read_all_flag = 1
              /\ ack_all_flag' = IF pkt_q_copy' = <<>> THEN 1 ELSE ack_all_flag
              /\ state' = state
           \/ /\ ~ (pkt_q = <<>> /\ read_all_flag = 1)
              /\ state' = 0 /\ ack_all_flag' = ack_all_flag
    BY <1>4 DEF HeadAck, EndReached
  <2>7. state = 2 /\ spc = "loop" /\ read_all_flag \in {0, 1}
    BY <1>1 DEF Dispatch, SenderInv, SenderTypeOK
  <2>8. QED
    BY <2>4, <2>5, <2>6, <2>7 DEF SenderNeverIdle, Dispatch
<1>5. QED
  BY <1>2, <1>3, <1>4 DEF WaitAck

----------------------------------------------------------------------------
(***************************************************************************)
(* The receiver on a network that keeps its packets in order.              *)
(***************************************************************************)

\* A packet of the run received so far is acknowledged again; the one after it is
\* written alone and acknowledged.
LEMMA ReceiverOrder ==
    ASSUME ReceiverInv, ReceiverInOrder, NEW pid \in Nat, pid <= old_pid + 1,
           NEW ack, ReceiveOther(pid, ack) \/ ReceiveHead(pid, ack)
    PROVE  /\ ReceiverInOrder'
           /\ ack = old_pid'
           /\ \/ /\ pid # old_pid + 1 /\ old_pid' = old_pid /\ written' = written
              \/ /\ pid = old_pid + 1 /\ old_pid' = pid
                 /\ written' = written \o Interval(pid, pid)
<1>1. /\ old_pid \in Nat /\ array = 1..old_pid /\ written \in Seq(Nat)
      /\ Len(written) = old_pid
  BY DEF ReceiverInv, ReceiverTypeOK, ReceiverInOrder
<1>2. CASE ReceiveOther(pid, ack)
  <2>1. /\ pid # 0 /\ pid # old_pid + 1 /\ array' = array \cup {pid} /\ ack = old_pid
        /\ old_pid' = old_pid /\ written' = written
    BY <1>2 DEF ReceiveOther, StartsRun, RepeatedAck, FIN
  <2>2. pid \in 1..old_pid
    BY <1>1, <2>1
  <2>3. array' = array
    BY <1>1, <2>1, <2>2
  <2>4. QED
    BY <1>1, <2>1, <2>3 DEF ReceiverInOrder
<1>3. CASE ReceiveHead(pid, ack)
  <2>1. /\ pid = old_pid + 1 /\ array' = array \cup {pid} /\ old_pid' = pid
        /\ ack \in array' /\ pid <= ack
        /\ written' = written \o Interval(pid, ack)
    BY <1>3 DEF ReceiveHead, StartsRun, IsRunEnd
  <2>2. array' = 1..pid
    BY <1>1, <2>1
  <2>3. ack = pid
    BY <1>1, <2>1, <2>2
  <2>4. Interval(pid, pid) \in Seq(Nat) /\ Len(Interval(pid, pid)) = 1
    <3>1. pid \in Int /\ pid <= pid + 1 /\ pid - pid + 1 = 1
      OBVIOUS
    <3>2. QED
      BY <3>1, IntervalProperties
  <2>5. Len(written') = pid
    <3>1. Len(written \o Interval(pid, pid)) = Len(written) + Len(Interval(pid, pid))
      BY <1>1, <2>4, ConcatProperties
    <3>2. QED
      BY <1>1, <2>1, <2>3, <2>4, <3>1
  <2>6. QED
    BY <2>1, <2>2, <2>3, <2>5 DEF ReceiverInOrder
<1>4. QED
  BY <1>2, <1>3

----------------------------------------------------------------------------
(***************************************************************************)
(* Both, and the queues between them.                                      *)
(***************************************************************************)
LEMMA OrderInit ==
    ASSUME RequestsFit, TransportInit
    PROVE  OrderInv
<1>1. /\ dataInFlight = <<>> /\ acksInFlight = <<>> /\ Len(<<>>) = 0
      /\ old_pid = 0 /\ array = {} /\ written = <<>> /\ last_ack = 0
      /\ spc = "start" /\ package_id = 1
      /\ bytes_count \in 1..FILE_PACKETS
  BY EmptySeq DEF TransportInit, Init, SenderInit, ReceiverInit, RequestsFit
<1>2. Sent = 0 /\ Acked = 0
  BY SenderInitInv DEF TransportInit, Init
<1>3. InOrder(dataInFlight, old_pid, Sent)
  BY <1>1, <1>2 DEF InOrder
<1>4. Climbs(acksInFlight, last_ack, old_pid)
  <2>1. 2..0 = {}
    OBVIOUS
  <2>2. QED
    BY <1>1, <2>1 DEF Climbs
<1>5. ReceiverInOrder
  BY <1>1 DEF ReceiverInOrder
<1>6. Total <= FILE_PACKETS /\ bytes_count > 0
  BY <1>1, SenderAssumption DEF Total
<1>7. SenderNeverIdle
  BY <1>1, <1>2, <1>6 DEF SenderNeverIdle, Dispatch
<1>8. QED
  BY <1>3, <1>4, <1>5, <1>7 DEF OrderInv

\* The types of what the queues hold.
LEMMA QueueTypes ==
    ASSUME IInv, QueuesWereSent
    PROVE  /\ dataInFlight \in Seq(Nat) /\ acksInFlight \in Seq(Nat)
           /\ Sent \in Nat /\ Acked \in Nat /\ old_pid \in Nat /\ last_ack \in Nat
           /\ SenderInv /\ ReceiverInv
<1>1. Sent \in Nat /\ Acked \in Nat /\ SenderInv /\ ReceiverInv
  BY Lengths DEF IInv
<1>2. data \subseteq Nat /\ acks \subseteq Nat
  BY <1>1 DEF IInv, Network
<1>3. dataInFlight \in Seq(Nat) /\ acksInFlight \in Seq(Nat)
  BY <1>2, SeqMonotonic DEF QueuesWereSent
<1>4. QED
  BY <1>1, <1>3 DEF SenderInv, SenderTypeOK, ReceiverInv, ReceiverTypeOK

\* One turn of the receiver's loop, as the queues see it.
LEMMA ReceiverTurn ==
    ASSUME IInv, QueuesWereSent, OrderInv, TakePacket, NEW pid, pid = Head(dataInFlight)
    PROVE  \/ ReceiveFin(pid) /\ UNCHANGED acksInFlight
           \/ /\ pid \in Nat /\ pid <= old_pid + 1
              /\ rpc = "receiving" /\ rpc' = rpc
              /\ ReceiverInOrder'
              /\ acksInFlight' = Append(acksInFlight, old_pid')
              /\ \/ /\ pid # old_pid + 1 /\ old_pid' = old_pid /\ written' = written
                 \/ /\ pid = old_pid + 1 /\ old_pid' = pid
                    /\ written' = written \o Interval(pid, pid)
<1>1. /\ dataInFlight \in Seq(Nat) /\ dataInFlight # <<>>
      /\ Sent \in Nat /\ old_pid \in Nat /\ ReceiverInv
  BY QueueTypes DEF TakePacket
<1>2. pid \in Nat /\ pid <= old_pid + 1
  BY <1>1, InOrderTail, HeadTailProperties DEF OrderInv
<1>3. \/ ReceiveFin(pid) /\ UNCHANGED acksInFlight
      \/ \E ack \in array \cup {old_pid, pid} :
           /\ ReceiveOther(pid, ack) \/ ReceiveHead(pid, ack)
           /\ acksInFlight' = Append(acksInFlight, ack)
  BY DEF TakePacket, PutAck
<1>4. ASSUME NEW ack \in array \cup {old_pid, pid},
             ReceiveOther(pid, ack) \/ ReceiveHead(pid, ack),
             acksInFlight' = Append(acksInFlight, ack)
      PROVE  /\ rpc = "receiving" /\ rpc' = rpc
             /\ ReceiverInOrder'
             /\ acksInFlight' = Append(acksInFlight, old_pid')
             /\ \/ /\ pid # old_pid + 1 /\ old_pid' = old_pid /\ written' = written
                \/ /\ pid = old_pid + 1 /\ old_pid' = pid
                   /\ written' = written \o Interval(pid, pid)
  <2>1. rpc = "receiving" /\ rpc' = rpc
    BY <1>4 DEF ReceiveOther, ReceiveHead
  <2>2. /\ ReceiverInOrder'
        /\ ack = old_pid'
        /\ \/ /\ pid # old_pid + 1 /\ old_pid' = old_pid /\ written' = written
           \/ /\ pid = old_pid + 1 /\ old_pid' = pid
              /\ written' = written \o Interval(pid, pid)
    <3>1. ReceiverInv /\ ReceiverInOrder /\ pid \in Nat /\ pid <= old_pid + 1
          /\ (ReceiveOther(pid, ack) \/ ReceiveHead(pid, ack))
      BY <1>1, <1>2, <1>4 DEF OrderInv
    <3>2. QED
      BY <3>1, ReceiverOrder
  <2>3. QED
    BY <1>4, <2>1, <2>2
<1>5. QED
  BY <1>2, <1>3, <1>4

\* What the invariant says of the receiver and the acks does not change with them.
LEMMA ReceiverIdle ==
    ASSUME OrderInv, UNCHANGED <<receiverVars, acksInFlight, last_ack>>,
           SenderNeverIdle', InOrder(dataInFlight', old_pid, Sent')
    PROVE  OrderInv'
  BY DEF OrderInv, ReceiverInOrder, receiverVars, InOrder, Climbs

LEMMA OrderNext ==
    ASSUME OnlyDuplicates, IInv, QueuesWereSent, OrderInv, [TransportNext]_transportVars
    PROVE  OrderInv'
<1>1. /\ dataInFlight \in Seq(Nat) /\ acksInFlight \in Seq(Nat)
      /\ Sent \in Nat /\ Acked \in Nat /\ old_pid \in Nat /\ last_ack \in Nat
      /\ SenderInv /\ ReceiverInv
      /\ InOrder(dataInFlight, old_pid, Sent)
      /\ Climbs(acksInFlight, last_ack, old_pid)
      /\ ReceiverInOrder /\ SenderNeverIdle /\ Acked = last_ack
  BY QueueTypes DEF OrderInv, SenderNeverIdle
<1>2. CASE RunLocally
  <2>1. UNCHANGED <<receiverVars, dataInFlight, acksInFlight>>
    BY <1>2 DEF RunLocally, queueVars
  <2>2. ReliablyTransfer
    BY <1>1, <1>2, QuietOrder DEF RunLocally
  <2>3. SenderNeverIdle' /\ Sent' = Sent /\ last_ack' = last_ack
    BY <1>1, <2>2, ReliablyTransferOrder, ReliablyTransferInv DEF ReliablyTransfer
  <2>4. QED
    BY <1>1, <2>1, <2>3, ReceiverIdle
<1>3. CASE PutBurst
  <2>1. /\ UNCHANGED <<receiverVars, acksInFlight>> /\ SendNew
        /\ dataInFlight' = dataInFlight \o Burst
    BY <1>3 DEF PutBurst, SendNewStep
  <2>2. SenderNeverIdle' /\ Sent' = Sent + Len(Burst) /\ last_ack' = last_ack
    BY <1>1, <2>1, SendNewOrder, SendNewInv DEF SendNew
  <2>3. Burst \in Seq(Nat) /\ \A i \in 1..Len(Burst) : Burst[i] = Sent + i
    BY <1>1, <2>1, BurstProperties
  <2>4. InOrder(dataInFlight \o Burst, old_pid, Sent + Len(Burst))
    BY <1>1, <2>3, InOrderBurst
  <2>5. QED
    BY <2>1, <2>2, <2>4, ReceiverIdle
<1>4. CASE PutResent \/ PutFin
  <2>1. /\ UNCHANGED <<receiverVars, acksInFlight>>
        /\ Timeout \/ Finish
        /\ \/ Timeout /\ dataInFlight' = Append(dataInFlight, Resent)
           \/ dataInFlight' = Append(dataInFlight, FIN)
    BY <1>4 DEF PutResent, PutFin, TimeoutStep, FinishStep
  <2>2. SenderNeverIdle' /\ Sent' = Sent /\ last_ack' = last_ack
    BY <1>1, <2>1, QuietOrder, QuietStepInv DEF Timeout, Finish
  <2>3. last_ack <= old_pid
    <3>1. 1..last_ack \subseteq WrittenIds
      BY DEF IInv, AcksAreCumulative
    <3>2. WrittenIds \subseteq 1..old_pid
      BY <1>1 DEF ReceiverInOrder, ReceiverInv, WrittenWasStored
    <3>3. last_ack > 0 => last_ack \in 1..last_ack
      BY <1>1
    <3>4. QED
      BY <1>1, <3>1, <3>2, <3>3
  <2>4. ASSUME Timeout PROVE Resent \in Nat /\ Resent <= old_pid + 1
    <3>1. pkt_q_copy # <<>>
      BY <1>1, <2>4 DEF Timeout, SenderNeverIdle
    <3>2. Resent = Acked + 1
      BY <1>1, <3>1, FrontProperties DEF Resent
    <3>3. QED
      BY <1>1, <2>3, <3>2
  <2>5. FIN \in Nat /\ FIN <= old_pid + 1
    BY <1>1 DEF FIN
  <2>6. InOrder(dataInFlight', old_pid, Sent)
    BY <1>1, <2>1, <2>4, <2>5, InOrderAppend
  <2>7. QED
    BY <2>1, <2>2, <2>6, ReceiverIdle
<1>5. CASE TakeAck
  <2>1. /\ acksInFlight # <<>> /\ acksInFlight' = Tail(acksInFlight)
        /\ WaitAck(Head(acksInFlight))
        /\ UNCHANGED <<receiverVars, dataInFlight>>
    BY <1>5 DEF TakeAck
  <2>2. /\ Head(acksInFlight) \in {last_ack, last_ack + 1}
        /\ Climbs(Tail(acksInFlight), Head(acksInFlight), old_pid)
    BY <1>1, <2>1, ClimbsTail
  <2>3. SenderNeverIdle' /\ last_ack' = Head(acksInFlight) /\ Sent' = Sent
    BY <1>1, <2>1, <2>2, WaitAckOrder
  <2>4. QED
    BY <1>1, <2>1, <2>2, <2>3 DEF OrderInv, ReceiverInOrder, receiverVars
<1>6. CASE IdleTimeout \/ EarlyTimeout
  <2>1. /\ UNCHANGED <<receiverVars, dataInFlight, acksInFlight>> /\ WaitEagain
    BY <1>6 DEF IdleTimeout, EarlyTimeout, queueVars
  <2>2. SenderNeverIdle' /\ Sent' = Sent /\ last_ack' = last_ack
    BY <1>1, <2>1, QuietOrder, QuietStepInv DEF WaitEagain
  <2>3. QED
    BY <1>1, <2>1, <2>2, ReceiverIdle
<1>7. CASE TakePacket
  <2>1. /\ dataInFlight # <<>> /\ dataInFlight' = Tail(dataInFlight)
        /\ UNCHANGED senderVars
    BY <1>7 DEF TakePacket
  <2>2. /\ Sent' = Sent /\ last_ack' = last_ack /\ SenderNeverIdle'
    BY <1>1, <2>1 DEF senderVars, Sent, Acked, Total, SenderNeverIdle, Dispatch
  <2> DEFINE pid == Head(dataInFlight)
  <2>3. /\ pid <= old_pid + 1
        /\ pid = old_pid + 1 => InOrder(Tail(dataInFlight), old_pid + 1, Sent)
        /\ pid # old_pid + 1 => InOrder(Tail(dataInFlight), old_pid, Sent)
    BY <1>1, <2>1, InOrderTail
  <2>4. \/ ReceiveFin(pid) /\ UNCHANGED acksInFlight
        \/ /\ pid \in Nat
           /\ ReceiverInOrder'
           /\ acksInFlight' = Append(acksInFlight, old_pid')
           /\ \/ pid # old_pid + 1 /\ old_pid' = old_pid
              \/ pid = old_pid + 1 /\ old_pid' = pid
    BY <1>7, ReceiverTurn
  <2> HIDE DEF pid
  <2>5. CASE ReceiveFin(pid) /\ UNCHANGED acksInFlight
    <3>1. pid = 0 /\ old_pid' = old_pid /\ array' = array /\ written' = written
      BY <2>5 DEF ReceiveFin, FIN
    <3>2. pid # old_pid + 1
      BY <1>1, <3>1
    <3>3. QED
      BY <1>1, <2>1, <2>2, <2>3, <2>5, <3>1, <3>2 DEF OrderInv, ReceiverInOrder
  <2>6. CASE /\ ReceiverInOrder'
             /\ acksInFlight' = Append(acksInFlight, old_pid')
             /\ \/ pid # old_pid + 1 /\ old_pid' = old_pid
                \/ pid = old_pid + 1 /\ old_pid' = pid
    <3>1. old_pid' \in {old_pid, old_pid + 1}
      BY <2>6
    <3>2. Climbs(acksInFlight', last_ack', old_pid')
      BY <1>1, <2>2, <2>6, <3>1, ClimbsAppend
    <3>3. InOrder(dataInFlight', old_pid', Sent')
      BY <2>1, <2>2, <2>3, <2>6
    <3>4. QED
      BY <2>2, <2>6, <3>2, <3>3 DEF OrderInv
  <2>7. QED
    BY <2>4, <2>5, <2>6
<1>8. CASE Fault
  <2>1. UNCHANGED vars
    BY <1>8 DEF Fault
  <2>2. /\ Sent' = Sent /\ last_ack' = last_ack /\ SenderNeverIdle'
        /\ UNCHANGED receiverVars
    BY <1>1, <2>1 DEF vars, senderVars, Sent, Acked, Total, SenderNeverIdle, Dispatch
  <2>3. CASE dataInFlight' \in Faulty(dataInFlight) /\ UNCHANGED acksInFlight
    <3>1. PICK i \in DOMAIN dataInFlight :
            dataInFlight' = InsertAt(dataInFlight, i, dataInFlight[i])
      BY <2>3, FaultyIsTwice
    <3>2. i \in 1..Len(dataInFlight)
      BY <1>1, <3>1
    <3>3. InOrder(dataInFlight', old_pid, Sent)
      BY <1>1, <3>1, <3>2, InOrderTwice
    <3>4. QED
      BY <2>2, <2>3, <3>3, ReceiverIdle
  <2>4. CASE acksInFlight' \in Faulty(acksInFlight) /\ UNCHANGED dataInFlight
    <3>1. PICK i \in DOMAIN acksInFlight :
            acksInFlight' = InsertAt(acksInFlight, i, acksInFlight[i])
      BY <2>4, FaultyIsTwice
    <3>2. i \in 1..Len(acksInFlight)
      BY <1>1, <3>1
    <3>3. Climbs(acksInFlight', last_ack, old_pid)
      BY <1>1, <3>1, <3>2, ClimbsTwice
    <3>4. QED
      BY <1>1, <2>2, <2>4, <3>3 DEF OrderInv, ReceiverInOrder, receiverVars
  <2>5. QED
    BY <1>8, <2>3, <2>4 DEF Fault
<1>9. CASE Terminated \/ UNCHANGED transportVars
  <2>1. UNCHANGED <<vars, dataInFlight, acksInFlight>>
    BY <1>9 DEF Terminated, transportVars, queueVars
  <2>2. /\ Sent' = Sent /\ last_ack' = last_ack /\ SenderNeverIdle'
        /\ UNCHANGED receiverVars
    BY <1>1, <2>1 DEF vars, senderVars, Sent, Acked, Total, SenderNeverIdle, Dispatch
  <2>3. QED
    BY <1>1, <2>1, <2>2, ReceiverIdle
<1>10. QED
  BY <1>2, <1>3, <1>4, <1>5, <1>6, <1>7, <1>8, <1>9 DEF TransportNext, SenderStep

----------------------------------------------------------------------------
(***************************************************************************)
(* The stream: each packet is written once, in order.                      *)
(***************************************************************************)
LEMMA StreamInit == TransportInit => Stream!Init
<1> SUFFICES ASSUME TransportInit
             PROVE  Stream!Init
  OBVIOUS
<1>1. Total \in Nat
  BY SenderInitInv DEF TransportInit, Init
<1>2. written = <<>> /\ rpc = "receiving" /\ spc # "closed"
  BY DEF TransportInit, Init, SenderInit, ReceiverInit
<1>3. QED
  BY <1>1, <1>2 DEF Stream!Init

\* The receiver writes the packet after those it has written.
LEMMA StreamWrites ==
    ASSUME IInv, QueuesWereSent, OrderInv, IInv', OrderInv', Total' = Total, TakePacket
    PROVE  [Stream!Next]_(Stream!vars)
<1> DEFINE pid == Head(dataInFlight)
<1>1. /\ spc' = spc /\ Sent' = Sent
      /\ pid \in data
  BY HeadTailProperties DEF TakePacket, senderVars, QueuesWereSent, Sent
<1>2. \/ ReceiveFin(pid)
      \/ /\ rpc = "receiving" /\ rpc' = rpc
         /\ \/ written' = written
            \/ /\ pid = old_pid + 1 /\ old_pid' = pid
               /\ written' = written \o Interval(pid, pid)
  BY ReceiverTurn
<1> HIDE DEF pid
<1>3. CASE ReceiveFin(pid)
  <2>1. pid = FIN /\ rpc = "receiving" /\ rpc' = "closed" /\ written' = written
    BY <1>3 DEF ReceiveFin
  <2>2. spc = "closed"
    BY <1>1, <2>1 DEF IInv, Network
  <2>3. Stream!ReceiverCloses
    BY <1>1, <2>1, <2>2 DEF Stream!ReceiverCloses
  <2>4. QED
    BY <2>3 DEF Stream!Next
<1>4. CASE rpc' = rpc /\ written' = written
  BY <1>1, <1>4 DEF Stream!vars
<1>5. CASE /\ rpc = "receiving" /\ rpc' = rpc
           /\ pid = old_pid + 1 /\ old_pid' = pid
           /\ written' = written \o Interval(pid, pid)
  <2>1. old_pid \in Nat /\ Len(written) = old_pid /\ array' = 1..pid
        /\ Sent \in Nat
    BY <1>5, QueueTypes DEF OrderInv, ReceiverInOrder
  <2>2. pid \in Nat /\ pid \in 1..pid
    BY <1>5, <2>1
  <2>3. pid \in 1..Sent
    BY <1>1, <2>1, <2>2 DEF IInv, StoredWasSent
  <2>4. Sent <= Total /\ Total \in Nat
    <3>1. bytes_count \in Nat
      BY DEF IInv, SenderInv, SenderTypeOK
    <3>2. Total = package_id - 1 + bytes_count
      BY DEF Total
    <3>3. QED
      BY <3>1, <3>2, Lengths DEF IInv
  <2>5. pid \in 1..Total /\ pid <= Total
    BY <2>1, <2>3, <2>4
  <2>6. pid - 1 = Len(written)
    BY <1>5, <2>1
  <2>7. written' = written \o Stream!Interval(pid, pid)
    BY <1>5 DEF Interval, Stream!Interval
  <2>8. Stream!WriteRun(pid, pid)
    BY <1>1, <1>5, <2>2, <2>5, <2>6, <2>7 DEF Stream!WriteRun
  <2>9. QED
    BY <2>5, <2>8 DEF Stream!Next
<1>6. QED
  BY <1>2, <1>3, <1>4, <1>5

\* The other steps close the sender, when everything is written, or are invisible.
LEMMA StreamSender ==
    ASSUME IInv, OrderInv, OrderInv', Total' = Total,
           SenderStep \/ EarlyTimeout \/ Fault \/ Terminated \/ UNCHANGED transportVars
    PROVE  [Stream!Next]_(Stream!vars)
<1>1. CASE PutFin
  <2>1. spc = "loop" /\ spc' = "closed" /\ ack_all_flag = 1 /\ UNCHANGED receiverVars
    BY <1>1 DEF PutFin, FinishStep, Finish
  <2>2. 1..Total \subseteq Stream!ToSet(written)
    BY <2>1, AllAcked DEF WrittenIds, ToSet, Stream!ToSet
  <2>3. Stream!SenderCloses
    BY <2>1, <2>2 DEF Stream!SenderCloses, receiverVars
  <2>4. QED
    BY <2>3 DEF Stream!Next
<1>2. CASE RunLocally \/ PutBurst \/ PutResent \/ TakeAck \/ IdleTimeout \/ EarlyTimeout
  <2>1. spc # "closed" /\ spc' # "closed"
    BY <1>2 DEF RunLocally, PutBurst, PutResent, TakeAck, IdleTimeout, EarlyTimeout,
       SendNewStep, TimeoutStep, ReliablyTransfer, NothingLeft, WaitEagain, Crash,
       SendNew, Timeout, WaitAck, DupAck, OldAck, HeadAck, SkipAck, UndefinedFront,
       Dispatch
  <2>2. UNCHANGED receiverVars
    BY <1>2 DEF RunLocally, PutBurst, PutResent, TakeAck, IdleTimeout, EarlyTimeout,
       SendNewStep, TimeoutStep
  <2>3. QED
    BY <2>1, <2>2 DEF Stream!vars, receiverVars
<1>3. CASE Fault \/ Terminated \/ UNCHANGED transportVars
  BY <1>3 DEF Fault, Terminated, transportVars, vars, senderVars, receiverVars,
     Stream!vars
<1>4. QED
  BY <1>1, <1>2, <1>3 DEF SenderStep

LEMMA OrderInvariance ==
    ASSUME OnlyDuplicates, RequestsFit
    PROVE  TransportSpec => [](IInv /\ QueuesWereSent /\ OrderInv)
<1>1. TransportInit => OrderInv
  BY OrderInit
<1>2. IInv /\ QueuesWereSent /\ OrderInv /\ [TransportNext]_transportVars => OrderInv'
  BY OrderNext
<1>3. QED
  BY <1>1, <1>2, TransportInvariance, PTL DEF TransportSpec

\* On a network that may duplicate its messages but keeps their order and loses
\* none, however many it duplicates and however often the timer runs out early,
\* wait() never takes the front of an empty pkt_q_copy.
THEOREM FrontIsDefined ==
    ASSUME OnlyDuplicates, RequestsFit
    PROVE  TransportSpec => []NoUndefinedFront
<1>1. OrderInv => NoUndefinedFront
  BY DEF OrderInv, SenderNeverIdle, NoUndefinedFront, UndefinedFront
<1>2. QED
  BY <1>1, OrderInvariance, PTL

\* There no ack reaches wait() from beyond the front of the window: the loop that
\* skips ahead is never entered.
THEOREM AcksNeverSkip ==
    ASSUME OnlyDuplicates, RequestsFit
    PROVE  TransportSpec => []NoSkippingAck
<1>1. IInv /\ QueuesWereSent /\ OrderInv => NoSkippingAck
  <2> SUFFICES ASSUME IInv, QueuesWereSent, OrderInv,
                      pkt_q_copy # <<>>, acksInFlight # <<>>
               PROVE  Head(acksInFlight) <= Head(pkt_q_copy)
    BY DEF NoSkippingAck
  <2>1. /\ acksInFlight \in Seq(Nat) /\ last_ack \in Nat /\ old_pid \in Nat
        /\ SenderInv /\ Climbs(acksInFlight, last_ack, old_pid) /\ Acked = last_ack
    BY QueueTypes DEF OrderInv, SenderNeverIdle
  <2>2. Head(acksInFlight) \in {last_ack, last_ack + 1}
    BY <2>1, ClimbsTail
  <2>3. Head(pkt_q_copy) = Acked + 1
    BY <2>1, FrontProperties
  <2>4. QED
    BY <2>1, <2>2, <2>3
<1>2. QED
  BY <1>1, OrderInvariance, PTL

\* There mp2 is a stream: each packet of the file is written once, in its order,
\* the sender closes when all of them are, and the receiver after it.
THEOREM StreamRefinement ==
    ASSUME OnlyDuplicates, RequestsFit
    PROVE  TransportSpec => ImplementsStream
<1>1. IInv /\ QueuesWereSent /\ OrderInv /\ OrderInv' /\ [TransportNext]_transportVars
        => [Stream!Next]_(Stream!vars)
  <2> SUFFICES ASSUME IInv, QueuesWereSent, OrderInv, OrderInv',
                      [TransportNext]_transportVars
               PROVE  [Stream!Next]_(Stream!vars)
    OBVIOUS
  <2>1. IInv' /\ Total' = Total
    BY StepRefines, NextInv
  <2>2. CASE TakePacket
    BY <2>1, <2>2, StreamWrites
  <2>3. CASE SenderStep \/ EarlyTimeout \/ Fault \/ Terminated \/ UNCHANGED transportVars
    BY <2>1, <2>3, StreamSender
  <2>4. QED
    BY <2>2, <2>3 DEF TransportNext
<1>2. QED
  BY <1>1, StreamInit, OrderInvariance, PTL
     DEF TransportSpec, ImplementsStream, Stream!Spec

============================================================================
