------------------------ MODULE LossyTransport_proofs ------------------------
(***************************************************************************)
(* IInv is an invariant of LossyTransport, so the properties of its safety *)
(* section hold for every file, request, window and batch size; and        *)
(* LossyTransport implements the replaying FileTransfer.                   *)
(*                                                                         *)
(* First come facts about identifiers, then the handlers of the sender,    *)
(* the branches of the receiver, and both with the network.                *)
(***************************************************************************)
EXTENDS LossyTransport, SequenceTheorems, TLAPS

(***************************************************************************)
(* Intervals of pack_ids, and the set of elements of a sequence.           *)
(***************************************************************************)
\* Interval(a, b) is the sequence a, a+1, ..., b.
LEMMA IntervalProperties ==
    ASSUME NEW a \in Nat, NEW b \in Int, a <= b + 1
    PROVE  /\ Interval(a, b) \in Seq(Nat)
           /\ Len(Interval(a, b)) = b - a + 1
           /\ \A i \in 1..(b - a + 1) : Interval(a, b)[i] = a + i - 1
  <1>1. b - a + 1 \in Nat
    OBVIOUS
  <1>2. \A i \in 1..(b - a + 1) : a + i - 1 \in Nat
    OBVIOUS
  <1>3. Interval(a, b) \in [1..(b - a + 1) -> Nat]
    BY <1>2 DEF Interval
  <1>4. Interval(a, b) \in Seq(Nat)
    BY <1>1, <1>3, SeqDef
  <1>5. Len(Interval(a, b)) = b - a + 1
    BY <1>1, <1>3, <1>4
  <1> QED
    BY <1>4, <1>5 DEF Interval

\* The elements of Interval(a, b) are a..b.
LEMMA IntervalElements ==
    ASSUME NEW a \in Nat, NEW b \in Int, a <= b + 1
    PROVE  ToSet(Interval(a, b)) = a..b
  <1> DEFINE s == Interval(a, b)
  <1>1. /\ s \in Seq(Nat)
        /\ Len(s) = b - a + 1
        /\ \A i \in 1..(b - a + 1) : s[i] = a + i - 1
    BY IntervalProperties
  <1>2. DOMAIN s = 1..(b - a + 1)
    BY <1>1
  <1>3. ASSUME NEW k \in a..b
        PROVE  k \in ToSet(s)
    <2>1. k - a + 1 \in DOMAIN s /\ s[k - a + 1] = k
      BY <1>1, <1>2
    <2> QED
      BY <2>1 DEF ToSet
  <1>4. ASSUME NEW k \in ToSet(s)
        PROVE  k \in a..b
    <2>1. PICK i \in DOMAIN s : s[i] = k
      BY <1>4 DEF ToSet
    <2> QED
      BY <2>1, <1>1, <1>2
  <1> QED
    BY <1>3, <1>4

\* The elements of a concatenation are those of its parts.
LEMMA ConcatElements ==
    ASSUME NEW S, NEW s \in Seq(S), NEW t \in Seq(S)
    PROVE  ToSet(s \o t) = ToSet(s) \cup ToSet(t)
  <1>1. /\ s \o t \in Seq(S)
        /\ Len(s \o t) = Len(s) + Len(t)
        /\ \A i \in 1..(Len(s) + Len(t)) :
             (s \o t)[i] = IF i <= Len(s) THEN s[i] ELSE t[i - Len(s)]
    BY ConcatProperties
  <1>2. /\ Len(s) \in Nat /\ DOMAIN s = 1..Len(s)
        /\ Len(t) \in Nat /\ DOMAIN t = 1..Len(t)
        /\ DOMAIN (s \o t) = 1..(Len(s) + Len(t))
    BY <1>1
  <1>3. ASSUME NEW e \in ToSet(s)
        PROVE  e \in ToSet(s \o t)
    BY <1>1, <1>2 DEF ToSet
  <1>4. ASSUME NEW e \in ToSet(t)
        PROVE  e \in ToSet(s \o t)
    <2>1. PICK i \in DOMAIN t : e = t[i]
      BY DEF ToSet
    <2>2. i + Len(s) \in DOMAIN (s \o t) /\ (s \o t)[i + Len(s)] = e
      BY <1>1, <1>2, <2>1
    <2> QED
      BY <2>2 DEF ToSet
  <1>5. ASSUME NEW e \in ToSet(s \o t)
        PROVE  e \in ToSet(s) \cup ToSet(t)
    <2>1. PICK i \in DOMAIN (s \o t) : e = (s \o t)[i]
      BY DEF ToSet
    <2>2. CASE i <= Len(s)
      BY <1>1, <1>2, <2>1, <2>2 DEF ToSet
    <2>3. CASE ~ (i <= Len(s))
      <3>1. i - Len(s) \in DOMAIN t /\ t[i - Len(s)] = e
        BY <1>1, <1>2, <2>1, <2>3
      <3> QED
        BY <3>1 DEF ToSet
    <2> QED
      BY <2>2, <2>3
  <1> QED
    BY <1>3, <1>4, <1>5

----------------------------------------------------------------------------
(***************************************************************************)
(* Every handler of the sender preserves SenderInv, provided that an ack   *)
(* it receives is of a packet it has sent.  Beside the invariant each      *)
(* lemma says what the handler does to Total, Sent and Acked: this is all  *)
(* that the proofs about the network need to know.                         *)
(***************************************************************************)
USE SenderAssumption DEF SenderAssumption

\* What the invariant says of lengths.
LEMMA Lengths ==
    ASSUME SenderInv
    PROVE  /\ Len(pkt_q) \in Nat
           /\ Len(pkt_q_copy) \in Nat
           /\ package_id = Sent + Len(pkt_q) + 1
           /\ Sent = Acked + Len(pkt_q_copy)
           /\ Sent \in Nat
           /\ Acked \in Nat
           /\ Total \in Nat
  <1>1. Len(pkt_q) \in Nat /\ Len(pkt_q_copy) \in Nat
    BY DEF SenderInv, SenderTypeOK
  <1>2. package_id \in Nat \ {0} /\ bytes_count \in Nat
    BY DEF SenderInv, SenderTypeOK
  <1> QED
    BY <1>1, <1>2 DEF SenderInv, QueuesInOrder, Sent, Acked, Total

LEMMA SenderInitInv ==
    SenderInit => /\ SenderInv
                  /\ Sent = 0
                  /\ Acked = 0
                  /\ Total \in Nat
  <1> SUFFICES ASSUME SenderInit
               PROVE  SenderInv /\ Sent = 0 /\ Acked = 0 /\ Total \in Nat
    OBVIOUS
  <1>1. pkt_q \in Seq(Nat) /\ pkt_q_copy \in Seq(Nat)
    BY EmptySeq DEF SenderInit
  <1>2. Len(pkt_q) = 0 /\ Len(pkt_q_copy) = 0
    BY EmptySeq DEF SenderInit
  <1>3. Sent = 0 /\ Acked = 0 /\ Total \in Nat
    <2>1. package_id = 1 /\ bytes_count \in Nat
      BY DEF SenderInit
    <2>2. Sent = 0
      BY <1>2, <2>1 DEF Sent
    <2>3. Acked = 0
      BY <1>2, <2>2 DEF Acked
    <2>4. Total \in Nat
      BY <2>1 DEF Total
    <2> QED
      BY <2>2, <2>3, <2>4
  <1>4. SenderTypeOK
    BY <1>1 DEF SenderInit, SenderTypeOK, DUP_CAP
  <1> QED
    BY <1>2, <1>3, <1>4 DEF SenderInit, SenderInv, WindowRespected, QueuesInOrder, HeadId, SenderFlags

----------------------------------------------------------------------------
\* dividepacket() loads no more than is left of the request and of the file.
LEMMA LoadCountBounds ==
    ASSUME SenderInv
    PROVE  /\ LoadCount \in Nat
           /\ LoadCount <= bytes_count
           /\ package_id + LoadCount <= FILE_PACKETS + 1
  BY DEF SenderInv, SenderTypeOK, LoadCount, Smaller

\* dividepacket() numbers the packets it loads from package_id on.
LEMMA DividePacket ==
    ASSUME SenderInv, dividepacket
    PROVE  /\ NewPackets \in Seq(Nat)
           /\ Len(NewPackets) = LoadCount
           /\ \A i \in 1..Len(NewPackets) : NewPackets[i] = package_id - 1 + i
           /\ package_id' \in 1..(FILE_PACKETS + 1)
           /\ package_id' = package_id + Len(NewPackets)
           /\ bytes_count' \in Nat
           /\ Total' = Total
           /\ read_all_flag' \in {0, 1}
           /\ read_all_flag' = 1 => bytes_count' = 0
  <1>1. /\ LoadCount \in Nat
        /\ LoadCount <= bytes_count
        /\ package_id + LoadCount <= FILE_PACKETS + 1
    BY LoadCountBounds
  <1>2. /\ package_id \in Nat \ {0}
        /\ bytes_count \in Nat
        /\ read_all_flag \in {0, 1}
        /\ read_all_flag = 1 => bytes_count = 0
    BY DEF SenderInv, SenderTypeOK, SenderFlags
  <1> DEFINE last == package_id + LoadCount - 1
  <1>3. /\ last \in Int
        /\ package_id <= last + 1
        /\ last - package_id + 1 = LoadCount
    BY <1>1, <1>2
  <1>4. NewPackets = Interval(package_id, last)
    BY DEF NewPackets
  <1> HIDE DEF last
  <1>5. /\ Len(NewPackets) = LoadCount
        /\ \A i \in 1..Len(NewPackets) : NewPackets[i] = package_id - 1 + i
        /\ NewPackets \in Seq(Nat)
    <2>1. package_id \in Nat
      BY <1>2
    <2>2. /\ NewPackets \in Seq(Nat)
          /\ Len(NewPackets) = last - package_id + 1
          /\ \A i \in 1..(last - package_id + 1) : NewPackets[i] = package_id + i - 1
      BY <1>3, <1>4, <2>1, IntervalProperties
    <2> QED
      BY <1>1, <1>2, <1>3, <2>2
  <1>6. /\ package_id' = package_id + LoadCount
        /\ bytes_count' = bytes_count - LoadCount
        /\ read_all_flag' = IF bytes_count' = 0 THEN 1 ELSE read_all_flag
    BY DEF dividepacket
  <1>7. Total' = Total
    BY <1>1, <1>2, <1>6 DEF Total
  <1> QED
    BY <1>1, <1>2, <1>5, <1>6, <1>7

----------------------------------------------------------------------------
\* Nothing is sent before the loop begins.
LEMMA ReliablyTransferInv ==
    ASSUME SenderInv, ReliablyTransfer
    PROVE  /\ SenderInv'
           /\ Sent = 0 /\ Sent' = 0
           /\ Acked = 0 /\ Acked' = 0
           /\ Total' = Total
  <1>1. /\ NewPackets \in Seq(Nat)
        /\ \A i \in 1..Len(NewPackets) : NewPackets[i] = package_id - 1 + i
        /\ package_id' \in 1..(FILE_PACKETS + 1)
        /\ package_id' = package_id + Len(NewPackets)
        /\ bytes_count' \in Nat
        /\ Total' = Total
        /\ read_all_flag' \in {0, 1}
        /\ read_all_flag' = 1 => bytes_count' = 0
    BY DividePacket DEF ReliablyTransfer
  <1>2. /\ pkt_q = <<>> /\ pkt_q_copy = <<>> /\ package_id = 1 /\ state = 0
        /\ ack_all_flag = 0
    BY DEF ReliablyTransfer, SenderInv, SenderTypeOK, SenderFlags
  <1>3. Len(pkt_q) = 0 /\ Len(pkt_q_copy) = 0 /\ Len(NewPackets) \in Nat
        /\ Len(pkt_q') = Len(NewPackets) /\ Len(pkt_q_copy') = 0
        /\ package_id = 1
    BY <1>1, <1>2, EmptySeq DEF ReliablyTransfer
  <1>4. Sent = 0 /\ Acked = 0 /\ Sent' = 0 /\ Acked' = 0
    <2>1. Sent = 0
      BY <1>3 DEF Sent
    <2>2. Acked = 0
      BY <1>3, <2>1 DEF Acked
    <2>3. Sent' = 0
      BY <1>1, <1>3 DEF Sent
    <2>4. Acked' = 0
      BY <1>3, <2>3 DEF Acked
    <2> QED
      BY <2>1, <2>2, <2>3, <2>4
  <1>5. SenderTypeOK'
    BY <1>1, <1>2 DEF ReliablyTransfer, SenderInv, SenderTypeOK
  <1>6. QueuesInOrder'
    BY <1>1, <1>2, <1>3, <1>4 DEF ReliablyTransfer, QueuesInOrder
  <1>7. SenderFlags'
    BY <1>1, <1>2 DEF ReliablyTransfer, SenderInv, SenderFlags
  <1>8. WindowRespected' /\ HeadId'
    BY <1>2, <1>3, <1>4 DEF ReliablyTransfer, WindowRespected, HeadId
  <1> QED
    BY <1>1, <1>4, <1>5, <1>6, <1>7, <1>8 DEF SenderInv

----------------------------------------------------------------------------
\* send_new() works on a queue that continues what was sent, refilled or not.
LEMMA QueueProperties ==
    ASSUME SenderInv, SendNew
    PROVE  /\ Queue \in Seq(Nat)
           /\ \A i \in 1..Len(Queue) : Queue[i] = Sent + i
           /\ package_id' \in 1..(FILE_PACKETS + 1)
           /\ package_id' = Sent + Len(Queue) + 1
           /\ bytes_count' \in Nat
           /\ Total' = Total
           /\ read_all_flag' \in {0, 1}
           /\ read_all_flag' = 1 => bytes_count' = 0
  <1>1. /\ package_id = Sent + Len(pkt_q) + 1
        /\ Sent \in Nat
        /\ Len(pkt_q) \in Nat
    BY Lengths
  <1>2. CASE pkt_q = <<>>
    <2>1. dividepacket /\ Queue = NewPackets
      BY <1>2 DEF SendNew, Queue
    <2>2. Len(pkt_q) = 0
      BY <1>2, EmptySeq
    <2>3. package_id - 1 = Sent /\ package_id = Sent + 1
      BY <1>1, <2>2
    <2>4. /\ NewPackets \in Seq(Nat)
          /\ Len(NewPackets) \in Nat
          /\ \A i \in 1..Len(NewPackets) : NewPackets[i] = package_id - 1 + i
          /\ package_id' \in 1..(FILE_PACKETS + 1)
          /\ package_id' = package_id + Len(NewPackets)
          /\ bytes_count' \in Nat
          /\ Total' = Total
          /\ read_all_flag' \in {0, 1}
          /\ read_all_flag' = 1 => bytes_count' = 0
      BY <2>1, DividePacket
    <2>5. \A i \in 1..Len(Queue) : Queue[i] = Sent + i
      BY <2>1, <2>3, <2>4
    <2>6. package_id' = Sent + Len(Queue) + 1
      BY <1>1, <2>1, <2>3, <2>4
    <2> QED
      BY <2>1, <2>4, <2>5, <2>6
  <1>3. CASE pkt_q # <<>>
    <2>1. /\ Queue = pkt_q
          /\ UNCHANGED <<package_id, bytes_count, read_all_flag>>
      BY <1>3 DEF SendNew, Queue
    <2>2. Total' = Total
      BY <2>1 DEF Total
    <2> QED
      BY <1>1, <2>1, <2>2 DEF SenderInv, SenderTypeOK, QueuesInOrder, SenderFlags
  <1> QED
    BY <1>2, <1>3

\* What send_new() sends continues what was sent before and fits the window.
LEMMA BurstProperties ==
    ASSUME SenderInv, SendNew
    PROVE  /\ Burst \in Seq(Nat)
           /\ Len(Burst) \in Nat
           /\ Len(Burst) <= Len(Queue)
           /\ Len(Burst) + Len(pkt_q_copy) <= WINDOW
           /\ \A i \in 1..Len(Burst) : Burst[i] = Sent + i
  <1> DEFINE n == Smaller(Len(Queue), WINDOW - Len(pkt_q_copy))
  <1>1. /\ Queue \in Seq(Nat)
        /\ \A i \in 1..Len(Queue) : Queue[i] = Sent + i
    BY QueueProperties
  <1>2. Len(pkt_q_copy) \in Nat /\ Len(pkt_q_copy) <= WINDOW
    BY Lengths DEF SenderInv, WindowRespected
  <1>3. Len(Queue) \in Nat
    BY <1>1
  <1>4. n \in Nat /\ n <= Len(Queue) /\ n + Len(pkt_q_copy) <= WINDOW
    BY <1>2, <1>3 DEF Smaller
  <1>5. Burst = SubSeq(Queue, 1, n)
    BY DEF Burst
  <1> HIDE DEF n
  <1>6. \A i \in 1..n : Queue[i] \in Nat
    BY <1>1, <1>3, <1>4, ElementOfSeq
  <1>7. /\ Burst \in Seq(Nat)
        /\ Len(Burst) = IF 1 <= n THEN n - 1 + 1 ELSE 0
        /\ \A i \in 1..(n - 1 + 1) : Burst[i] = Queue[1 + i - 1]
    BY <1>4, <1>5, <1>6, SubSeqProperties
  <1>8. Len(Burst) = n
    BY <1>4, <1>7
  <1>9. ASSUME NEW i \in 1..Len(Burst)
        PROVE  Burst[i] = Sent + i
    <2>1. i \in 1..(n - 1 + 1) /\ 1 + i - 1 = i /\ i \in 1..Len(Queue)
      BY <1>3, <1>4, <1>8
    <2> QED
      BY <1>1, <1>7, <2>1
  <1> QED
    BY <1>4, <1>7, <1>8, <1>9

\* send_new() moves the burst from pkt_q to pkt_q_copy.
LEMMA SendNewInv ==
    ASSUME SenderInv, SendNew
    PROVE  /\ SenderInv'
           /\ Sent' = Sent + Len(Burst)
           /\ Acked' = Acked
           /\ Total' = Total
           /\ Burst \in Seq(Nat)
           /\ ToSet(Burst) \subseteq 1..Sent'
  <1>1. /\ Queue \in Seq(Nat)
        /\ \A i \in 1..Len(Queue) : Queue[i] = Sent + i
        /\ package_id' \in 1..(FILE_PACKETS + 1)
        /\ package_id' = Sent + Len(Queue) + 1
        /\ bytes_count' \in Nat
        /\ Total' = Total
        /\ read_all_flag' \in {0, 1}
        /\ read_all_flag' = 1 => bytes_count' = 0
    BY QueueProperties
  <1>2. /\ Burst \in Seq(Nat)
        /\ Len(Burst) \in Nat
        /\ Len(Burst) <= Len(Queue)
        /\ Len(Burst) + Len(pkt_q_copy) <= WINDOW
        /\ \A i \in 1..Len(Burst) : Burst[i] = Sent + i
    BY BurstProperties
  <1>3. /\ Len(pkt_q_copy) \in Nat
        /\ Sent = Acked + Len(pkt_q_copy)
        /\ Sent \in Nat /\ Acked \in Nat
        /\ Len(Queue) \in Nat
    BY <1>1, Lengths
  <1>4. /\ pkt_q' \in Seq(Nat)
        /\ Len(pkt_q') = Len(Queue) - Len(Burst)
        /\ \A i \in 1..Len(pkt_q') : pkt_q'[i] = Sent + Len(Burst) + i
    <2> DEFINE m == Len(Burst) + 1
    <2>1. pkt_q' = SubSeq(Queue, m, Len(Queue))
      BY DEF SendNew
    <2>2. m \in Int /\ Len(Queue) \in Int /\ m >= 1
      BY <1>2, <1>3
    <2>3. \A i \in m..Len(Queue) : Queue[i] \in Nat
      BY <1>1, <2>2, ElementOfSeq
    <2> HIDE DEF m
    <2>4. /\ pkt_q' \in Seq(Nat)
          /\ Len(pkt_q') = IF m <= Len(Queue) THEN Len(Queue) - m + 1 ELSE 0
          /\ \A i \in 1..(Len(Queue) - m + 1) : pkt_q'[i] = Queue[m + i - 1]
      BY <2>1, <2>2, <2>3, SubSeqProperties
    <2>5. Len(pkt_q') = Len(Queue) - Len(Burst)
      BY <1>2, <1>3, <2>4 DEF m
    <2>6. ASSUME NEW i \in 1..Len(pkt_q')
          PROVE  pkt_q'[i] = Sent + Len(Burst) + i
      <3>1. m + i - 1 \in 1..Len(Queue) /\ i \in 1..(Len(Queue) - m + 1)
        BY <1>2, <1>3, <2>5 DEF m
      <3>2. pkt_q'[i] = Sent + (m + i - 1)
        BY <1>1, <2>4, <3>1
      <3> QED
        BY <1>2, <1>3, <3>1, <3>2 DEF m
    <2> QED
      BY <2>4, <2>5, <2>6
  <1>5. /\ pkt_q_copy' \in Seq(Nat)
        /\ Len(pkt_q_copy') = Len(pkt_q_copy) + Len(Burst)
        /\ \A i \in 1..Len(pkt_q_copy') : pkt_q_copy'[i] = Acked + i
    <2>1. pkt_q_copy \in Seq(Nat) /\ pkt_q_copy' = pkt_q_copy \o Burst
      BY DEF SendNew, SenderInv, SenderTypeOK
    <2>2. /\ pkt_q_copy' \in Seq(Nat)
          /\ Len(pkt_q_copy') = Len(pkt_q_copy) + Len(Burst)
          /\ \A i \in 1..(Len(pkt_q_copy) + Len(Burst)) :
               pkt_q_copy'[i] = IF i <= Len(pkt_q_copy) THEN pkt_q_copy[i]
                                ELSE Burst[i - Len(pkt_q_copy)]
      BY <1>2, <2>1, ConcatProperties
    <2>3. \A i \in 1..Len(pkt_q_copy) : pkt_q_copy[i] = Acked + i
      BY DEF SenderInv, QueuesInOrder
    <2>4. ASSUME NEW i \in 1..Len(pkt_q_copy')
          PROVE  pkt_q_copy'[i] = Acked + i
      <3>1. CASE i <= Len(pkt_q_copy)
        <4>1. i \in 1..Len(pkt_q_copy) /\ i \in 1..(Len(pkt_q_copy) + Len(Burst))
          BY <1>2, <1>3, <2>2, <3>1
        <4> QED
          BY <2>2, <2>3, <3>1, <4>1
      <3>2. CASE ~ (i <= Len(pkt_q_copy))
        <4>1. i - Len(pkt_q_copy) \in 1..Len(Burst)
          BY <1>2, <1>3, <2>2, <3>2
        <4>2. pkt_q_copy'[i] = Sent + (i - Len(pkt_q_copy))
          BY <1>2, <2>2, <3>2, <4>1
        <4> QED
          BY <1>3, <2>2, <4>2
      <3> QED
        BY <3>1, <3>2
    <2> QED
      BY <2>2, <2>4
  <1>6. Sent' = Sent + Len(Burst)
    <2>1. /\ package_id' = Sent + Len(Queue) + 1
          /\ Len(pkt_q') = Len(Queue) - Len(Burst)
          /\ Sent \in Nat /\ Len(Queue) \in Nat /\ Len(Burst) \in Nat
      BY <1>1, <1>2, <1>3, <1>4
    <2>2. Sent' = package_id' - 1 - Len(pkt_q')
      BY DEF Sent
    <2> QED
      BY <2>1, <2>2
  <1>7. Acked' = Acked
    BY <1>2, <1>3, <1>5, <1>6 DEF Acked
  <1>8. /\ spc = "loop" /\ spc' = "loop" /\ state = 0 /\ state' = 2
        /\ ack_all_flag = 0 /\ ack_all_flag' = 0
        /\ head_id' = head_id /\ last_ack' = last_ack
        /\ last_ack_num' = last_ack_num
    BY DEF SendNew, Dispatch
  <1>9. SenderTypeOK'
    BY <1>1, <1>4, <1>5, <1>8 DEF SenderInv, SenderTypeOK
  <1>10. QueuesInOrder'
    BY <1>2, <1>3, <1>4, <1>5, <1>6, <1>7 DEF QueuesInOrder
  <1>11. WindowRespected'
    BY <1>2, <1>3, <1>5 DEF WindowRespected
  <1>12. HeadId' /\ SenderFlags'
    BY <1>1, <1>7, <1>8 DEF SenderInv, HeadId, SenderFlags
  <1>13. ToSet(Burst) \subseteq 1..Sent'
    <2> SUFFICES ASSUME NEW e \in ToSet(Burst)
                 PROVE  e \in 1..Sent'
      OBVIOUS
    <2>1. PICK i \in 1..Len(Burst) : e = Burst[i]
      BY <1>2 DEF ToSet
    <2> QED
      BY <1>2, <1>3, <1>6, <2>1
  <1> QED
    BY <1>1, <1>2, <1>6, <1>7, <1>9, <1>10, <1>11, <1>12, <1>13 DEF SenderInv

----------------------------------------------------------------------------
\* Sent, Acked and Total are functions of four variables.
LEMMA QueuesUnchanged ==
    ASSUME UNCHANGED <<pkt_q, pkt_q_copy, package_id, bytes_count>>
    PROVE  Sent' = Sent /\ Acked' = Acked /\ Total' = Total
  BY DEF Sent, Acked, Total

\* front() is the packet after Acked, or a packet that was sent.
LEMMA FrontProperties ==
    ASSUME SenderInv
    PROVE  /\ FrontIds \subseteq 1..Sent
           /\ pkt_q_copy # <<>> => FrontIds = {Acked + 1} /\ Head(pkt_q_copy) = Acked + 1
  <1>1. /\ Len(pkt_q_copy) \in Nat
        /\ Sent = Acked + Len(pkt_q_copy)
        /\ Sent \in Nat /\ Acked \in Nat
    BY Lengths
  <1>2. CASE pkt_q_copy = <<>>
    BY <1>2 DEF FrontIds
  <1>3. CASE pkt_q_copy # <<>>
    <2>1. pkt_q_copy \in Seq(Nat) /\ Len(pkt_q_copy) >= 1
      BY <1>3, EmptySeq DEF SenderInv, SenderTypeOK
    <2>2. Head(pkt_q_copy) = pkt_q_copy[1]
      BY <2>1
    <2>3. pkt_q_copy[1] = Acked + 1
      BY <1>1, <2>1 DEF SenderInv, QueuesInOrder
    <2> QED
      BY <1>1, <1>3, <2>1, <2>2, <2>3 DEF FrontIds
  <1> QED
    BY <1>2, <1>3

\* The handlers that leave the queues alone.
LEMMA QuietStepInv ==
    ASSUME SenderInv, NothingLeft \/ Crash \/ Timeout \/ WaitEagain \/ Finish
    PROVE  /\ SenderInv'
           /\ Sent' = Sent
           /\ Acked' = Acked
           /\ Total' = Total
  <1>1. UNCHANGED <<pkt_q, pkt_q_copy, package_id, bytes_count, read_all_flag,
                    ack_all_flag, last_ack, last_ack_num>>
    BY DEF NothingLeft, Crash, Timeout, WaitEagain, Finish
  <1>2. Sent' = Sent /\ Acked' = Acked /\ Total' = Total
    BY <1>1, QueuesUnchanged
  <1>3. QueuesInOrder' /\ WindowRespected'
    BY <1>1, <1>2 DEF SenderInv, QueuesInOrder, WindowRespected
  <1>4. SenderFlags'
    BY <1>1 DEF SenderInv, SenderFlags, NothingLeft, Crash, Timeout, WaitEagain,
                Finish, UndefinedFront, Dispatch
  <1>5. SenderTypeOK' /\ HeadId'
    <2>1. CASE WaitEagain
      <3>1. /\ head_id' \in 1..Sent
            /\ pkt_q_copy # <<>> => head_id' = Acked + 1
            /\ Sent \in Nat
        BY <2>1, FrontProperties, Lengths DEF WaitEagain
      <3>2. state' = 1 /\ spc' = spc
        BY <2>1 DEF WaitEagain
      <3> QED
        BY <1>1, <1>2, <3>1, <3>2 DEF SenderInv, SenderTypeOK, HeadId
    <2>2. CASE NothingLeft \/ Crash \/ Timeout \/ Finish
      <3>1. /\ head_id' = head_id
            /\ state' = state \/ state' = 2
            /\ spc # "start"
            /\ spc' \in {"loop", "crashed", "closed"}
        BY <2>2 DEF NothingLeft, Crash, Timeout, Finish, UndefinedFront, Dispatch
      <3> QED
        BY <1>1, <1>2, <3>1 DEF SenderInv, SenderTypeOK, HeadId
    <2> QED
      BY <2>1, <2>2
  <1> QED
    BY <1>2, <1>3, <1>4, <1>5 DEF SenderInv

\* timeout() sends a packet that was sent before.
LEMMA ResentWasSent ==
    ASSUME SenderInv, Timeout
    PROVE  Resent \in 1..Sent
  <1>1. CASE pkt_q_copy = <<>>
    BY <1>1 DEF Timeout, Dispatch, Resent, SenderInv, HeadId
  <1>2. CASE pkt_q_copy # <<>>
    BY <1>2, FrontProperties DEF Resent
  <1> QED
    BY <1>1, <1>2

----------------------------------------------------------------------------
\* Counting an ack keeps the counter in its range.
LEMMA CountAckBounds ==
    ASSUME SenderInv, NEW ack, CountAck(ack)
    PROVE  last_ack_num' \in 0..DUP_CAP
  BY DEF CountAck, SenderInv, SenderTypeOK, Smaller, DUP_CAP

\* An ack that pops nothing.
LEMMA DupOrOldAckInv ==
    ASSUME SenderInv, NEW ack \in Nat, DupAck(ack) \/ OldAck(ack)
    PROVE  /\ SenderInv'
           /\ Sent' = Sent
           /\ Acked' = Acked
           /\ Total' = Total
           /\ last_ack' = ack
  <1>1. /\ UNCHANGED <<spc, pkt_q, pkt_q_copy, package_id, bytes_count,
                       read_all_flag, ack_all_flag>>
        /\ spc = "loop"
        /\ last_ack' = ack
    BY DEF DupAck, OldAck, CountAck, Dispatch
  <1>2. last_ack_num' \in 0..DUP_CAP
    <2>1. CountAck(ack)
      BY DEF DupAck, OldAck
    <2> QED
      BY <2>1, CountAckBounds
  <1>3. Sent' = Sent /\ Acked' = Acked /\ Total' = Total
    BY <1>1, QueuesUnchanged
  <1>4. QueuesInOrder' /\ WindowRespected' /\ SenderFlags'
    BY <1>1, <1>3 DEF SenderInv, QueuesInOrder, WindowRespected, SenderFlags
  <1>5. \/ state' = state /\ state = 2 /\ head_id' = head_id
        \/ /\ state' = 1
           /\ head_id' \in 1..Sent
           /\ pkt_q_copy # <<>> => head_id' = Acked + 1
    BY FrontProperties DEF DupAck, OldAck, Dispatch
  <1>6. HeadId'
    BY <1>1, <1>3, <1>5 DEF SenderInv, HeadId
  <1>7. head_id' \in Nat /\ state' \in 0..2
    BY <1>5, Lengths DEF SenderInv, SenderTypeOK
  <1>8. SenderTypeOK'
    BY <1>1, <1>2, <1>7 DEF SenderInv, SenderTypeOK
  <1> QED
    BY <1>1, <1>3, <1>4, <1>6, <1>8 DEF SenderInv

\* An ack of the front of the window, or of a packet behind it, pops the packets
\* up to it.
LEMMA PopAckInv ==
    ASSUME SenderInv, NEW ack \in 0..Sent, HeadAck(ack) \/ SkipAck(ack)
    PROVE  /\ SenderInv'
           /\ Sent' = Sent
           /\ Acked' = ack
           /\ Total' = Total
           /\ last_ack' = ack
  <1>1. /\ UNCHANGED <<spc, pkt_q, package_id, bytes_count, read_all_flag>>
        /\ spc = "loop" /\ state = 2 /\ ack_all_flag = 0
        /\ last_ack' = ack
        /\ head_id' = ack + 1
        /\ pkt_q_copy # <<>>
    BY DEF HeadAck, SkipAck, CountAck, Dispatch, NextHead
  <1>2. last_ack_num' \in 0..DUP_CAP
    <2>1. CountAck(ack)
      BY DEF HeadAck, SkipAck
    <2> QED
      BY <2>1, CountAckBounds
  <1>3. /\ pkt_q_copy \in Seq(Nat)
        /\ Len(pkt_q_copy) \in Nat
        /\ Sent = Acked + Len(pkt_q_copy)
        /\ Sent \in Nat /\ Acked \in Nat
        /\ Len(pkt_q_copy) <= WINDOW
        /\ \A i \in 1..Len(pkt_q_copy) : pkt_q_copy[i] = Acked + i
    BY Lengths DEF SenderInv, SenderTypeOK, WindowRespected, QueuesInOrder
  <1>4. Head(pkt_q_copy) = Acked + 1 /\ head_id = Acked + 1
    BY <1>1, FrontProperties DEF SenderInv, HeadId
  <1>5. Sent' = Sent /\ Total' = Total
    BY <1>1 DEF Sent, Total
  <1>6. /\ pkt_q_copy' \in Seq(Nat)
        /\ Len(pkt_q_copy') = Sent - ack
        /\ \A i \in 1..Len(pkt_q_copy') : pkt_q_copy'[i] = ack + i
    <2>1. CASE HeadAck(ack)
      <3>1. ack = Acked + 1 /\ pkt_q_copy' = Tail(pkt_q_copy)
        BY <1>4, <2>1 DEF HeadAck, Popped
      <3>2. /\ pkt_q_copy' \in Seq(Nat)
            /\ Len(pkt_q_copy') = Len(pkt_q_copy) - 1
            /\ \A i \in 1..Len(pkt_q_copy') : pkt_q_copy'[i] = pkt_q_copy[i + 1]
        BY <1>1, <1>3, <3>1, HeadTailProperties
      <3>3. ASSUME NEW i \in 1..Len(pkt_q_copy')
            PROVE  pkt_q_copy'[i] = ack + i
        <4>1. i + 1 \in 1..Len(pkt_q_copy)
          BY <1>3, <3>2
        <4> QED
          BY <1>3, <3>1, <3>2, <4>1
      <3> QED
        BY <1>3, <3>1, <3>2, <3>3
    <2>2. CASE SkipAck(ack)
      <3> DEFINE m == ack - head_id + 2
      <3>1. /\ m \in Int /\ m = ack - Acked + 1 /\ m >= 1
            /\ m <= Len(pkt_q_copy) + 1
            /\ pkt_q_copy' = SubSeq(pkt_q_copy, m, Len(pkt_q_copy))
        BY <1>3, <1>4, <2>2 DEF SkipAck, NextHead
      <3> HIDE DEF m
      <3>2. \A i \in m..Len(pkt_q_copy) : pkt_q_copy[i] \in Nat
        BY <1>3, <3>1, ElementOfSeq
      <3>3. /\ pkt_q_copy' \in Seq(Nat)
            /\ Len(pkt_q_copy') = IF m <= Len(pkt_q_copy) THEN Len(pkt_q_copy) - m + 1 ELSE 0
            /\ \A i \in 1..(Len(pkt_q_copy) - m + 1) :
                 pkt_q_copy'[i] = pkt_q_copy[m + i - 1]
        BY <1>3, <3>1, <3>2, SubSeqProperties
      <3>4. Len(pkt_q_copy') = Len(pkt_q_copy) - m + 1
        BY <1>3, <3>1, <3>3
      <3>5. ASSUME NEW i \in 1..Len(pkt_q_copy')
            PROVE  pkt_q_copy'[i] = ack + i
        <4>1. m + i - 1 \in 1..Len(pkt_q_copy) /\ i \in 1..(Len(pkt_q_copy) - m + 1)
          BY <1>3, <3>1, <3>4
        <4>2. pkt_q_copy'[i] = Acked + (m + i - 1)
          BY <1>3, <3>3, <4>1
        <4> QED
          BY <1>3, <3>1, <4>1, <4>2
      <3> QED
        BY <1>3, <3>1, <3>3, <3>4, <3>5
    <2> QED
      BY <2>1, <2>2
  <1>7. Acked' = ack
    <2>1. Acked' = Sent' - Len(pkt_q_copy')
      BY DEF Acked
    <2> QED
      BY <1>3, <1>5, <1>6, <2>1
  <1>8. QueuesInOrder'
    <2>1. \A i \in 1..Len(pkt_q) : pkt_q[i] = Sent + i
      BY DEF SenderInv, QueuesInOrder
    <2> QED
      BY <1>1, <1>3, <1>5, <1>6, <1>7, <2>1 DEF QueuesInOrder
  <1>9. WindowRespected'
    <2>1. ack >= Acked /\ Len(pkt_q_copy') <= Len(pkt_q_copy)
      BY <1>3, <1>4, <1>6 DEF HeadAck, SkipAck, Popped
    <2> QED
      BY <1>3, <1>6, <2>1 DEF WindowRespected
  <1>10. /\ state' \in {0, 2}
         /\ ack_all_flag' \in {0, 1}
         /\ ack_all_flag' = 1
              => (pkt_q' = <<>> /\ pkt_q_copy' = <<>> /\ read_all_flag' = 1)
    BY <1>1 DEF HeadAck, SkipAck, EndReached
  <1>11. HeadId' /\ SenderFlags'
    BY <1>1, <1>7, <1>10 DEF SenderInv, HeadId, SenderFlags
  <1>12. SenderTypeOK'
    BY <1>1, <1>2, <1>6, <1>10 DEF SenderInv, SenderTypeOK
  <1> QED
    BY <1>1, <1>5, <1>7, <1>8, <1>9, <1>11, <1>12 DEF SenderInv

----------------------------------------------------------------------------
(***************************************************************************)
(* The receiver's invariant holds whatever packets arrive, and an ack is   *)
(* cumulative over what is written at the moment it is sent.               *)
(***************************************************************************)

\* The receiver starts in its invariant.
LEMMA ReceiverInitInv == ReceiverInit => ReceiverInv
  <1> SUFFICES ASSUME ReceiverInit
               PROVE  ReceiverInv
    OBVIOUS
  <1> USE DEF ReceiverInit
  <1>1. written = <<>> /\ written \in Seq(Nat) /\ Len(written) = 0
    BY EmptySeq
  <1>2. WrittenIds = {}
    BY <1>1 DEF WrittenIds, ToSet
  <1>3. ReceiverTypeOK
    BY <1>1 DEF ReceiverTypeOK, FIN
  <1>4. NoGaps
    BY <1>1 DEF NoGaps
  <1> QED
    BY <1>2, <1>3, <1>4 DEF ReceiverInv, WrittenWasStored

\* A FIN changes nothing that the invariant speaks of.
LEMMA ReceiveFinInv ==
    ASSUME ReceiverInv, NEW pid, ReceiveFin(pid)
    PROVE  /\ ReceiverInv'
           /\ WrittenIds' = WrittenIds
  BY DEF ReceiverInv, ReceiveFin, ReceiverTypeOK, WrittenWasStored, WrittenIds,
         NoGaps

\* A packet that is stored repeats an ack that was cumulative already.
LEMMA ReceiveOtherInv ==
    ASSUME ReceiverInv, NEW pid \in Nat, NEW ack, ReceiveOther(pid, ack)
    PROVE  /\ ReceiverInv'
           /\ WrittenIds' = WrittenIds
           /\ ack \in Nat
           /\ 1..ack \subseteq WrittenIds'
  <1> USE DEF ReceiveOther, StartsRun, RepeatedAck
  <1>1. WrittenIds' = WrittenIds
    BY DEF WrittenIds
  <1>2. ReceiverTypeOK'
    BY DEF ReceiverInv, ReceiverTypeOK
  <1>3. WrittenWasStored'
    BY <1>1 DEF ReceiverInv, WrittenWasStored
  <1>4. NoGaps'
    BY DEF ReceiverInv, NoGaps
  <1> QED
    BY <1>1, <1>2, <1>3, <1>4 DEF ReceiverInv, ReceiverTypeOK

\* The packet after old_pid writes a run that follows what is written, and the
\* ack sent for it covers what is written then.
LEMMA ReceiveHeadInv ==
    ASSUME ReceiverInv, NEW pid \in Nat, NEW ack \in Nat, ReceiveHead(pid, ack)
    PROVE  /\ ReceiverInv'
           /\ WrittenIds' = WrittenIds \cup (pid..ack)
           /\ 1..ack \subseteq WrittenIds'
  <1> DEFINE run == Interval(pid, ack)
  <1> USE DEF ReceiveHead, StartsRun
  <1>1. /\ old_pid \in Nat
        /\ array \subseteq Nat \ {FIN}
        /\ written \in Seq(Nat)
        /\ pid = old_pid + 1
        /\ pid <= ack
        /\ pid..ack \subseteq array'
    BY DEF ReceiverInv, ReceiverTypeOK, IsRunEnd
  <1>2. /\ run \in Seq(Nat)
        /\ Len(run) = ack - pid + 1
        /\ \A i \in 1..(ack - pid + 1) : run[i] = pid + i - 1
    <2>1. ack \in Int /\ pid <= ack + 1
      BY <1>1
    <2> QED
      BY <2>1, IntervalProperties
  <1>3. /\ written' \in Seq(Nat)
        /\ Len(written) \in Nat
        /\ Len(written') = Len(written) + Len(run)
        /\ \A i \in 1..(Len(written) + Len(run)) :
             written'[i] = IF i <= Len(written) THEN written[i]
                           ELSE run[i - Len(written)]
    BY <1>1, <1>2, ConcatProperties
  <1>4. WrittenIds' = WrittenIds \cup (pid..ack)
    <2>1. ToSet(run) = pid..ack
      BY <1>1, IntervalElements
    <2> QED
      BY <1>1, <1>2, <2>1, ConcatElements DEF WrittenIds
  <1>5. ReceiverTypeOK'
    BY <1>1, <1>3 DEF ReceiverInv, ReceiverTypeOK, FIN
  <1>6. WrittenWasStored'
    BY <1>1, <1>4 DEF ReceiverInv, WrittenWasStored
  <1>7. 1..ack \subseteq WrittenIds'
    BY <1>1, <1>4 DEF ReceiverInv
  <1>8. 1..old_pid' \subseteq WrittenIds'
    BY <1>1, <1>7
  <1>9. NoGaps'
    <2> SUFFICES ASSUME NEW i \in 1..Len(written'), written'[i] # 1
                 PROVE  \E j \in 1..(i - 1) : written'[j] = written'[i] - 1
      BY DEF NoGaps
    <2>1. /\ i \in Nat \ {0}
          /\ Len(written) \in Nat
          /\ i <= Len(written) + Len(run)
          /\ Len(run) \in Nat
      BY <1>1, <1>2, <1>3
    <2>2. CASE i <= Len(written)
      <3>1. PICK j \in 1..(i - 1) : written[j] = written[i] - 1
        BY <1>3, <2>2 DEF ReceiverInv, NoGaps
      <3> QED
        BY <1>3, <2>2, <3>1
    <2>3. CASE i = Len(written) + 1
      <3>1. written'[i] = old_pid + 1 /\ old_pid \in 1..old_pid
        BY <1>1, <1>2, <1>3, <2>3
      <3>2. PICK j \in DOMAIN written : old_pid = written[j]
        BY <3>1 DEF ReceiverInv, WrittenIds, ToSet
      <3>3. j \in 1..Len(written)
        BY <1>1, <3>2
      <3> QED
        BY <1>1, <1>3, <2>3, <3>1, <3>2, <3>3
    <2>4. CASE i > Len(written) + 1
      <3>1. /\ written'[i] = pid + (i - Len(written)) - 1
            /\ written'[i - 1] = pid + (i - 1 - Len(written)) - 1
        BY <1>1, <1>2, <1>3, <2>1, <2>4
      <3>2. i - 1 \in 1..(i - 1) /\ written'[i - 1] = written'[i] - 1
        BY <1>1, <2>1, <2>4, <3>1
      <3> QED
        BY <3>2
    <2>5. i <= Len(written) \/ i = Len(written) + 1 \/ i > Len(written) + 1
      BY <2>1
    <2> QED
      BY <2>2, <2>3, <2>4, <2>5
  <1> QED
    BY <1>4, <1>5, <1>6, <1>7, <1>8, <1>9 DEF ReceiverInv

----------------------------------------------------------------------------
(***************************************************************************)
(* Both programs and the network.                                          *)
(***************************************************************************)

\* IInv holds at the start.
LEMMA InitInv == Init => IInv
  <1> SUFFICES ASSUME Init
               PROVE  IInv
    OBVIOUS
  <1>1. SenderInv /\ Sent = 0 /\ Acked = 0
    BY SenderInitInv DEF Init
  <1>2. ReceiverInv
    BY ReceiverInitInv DEF Init
  <1>3. data = {} /\ acks = {} /\ array = {} /\ rpc = "receiving" /\ last_ack = 0
    BY DEF Init, SenderInit, ReceiverInit
  <1> QED
    BY <1>1, <1>2, <1>3 DEF IInv, Network, StoredWasSent, AcksAreCumulative,
                            ForgottenIsWritten

\* Every ack that may be received is of a packet that was sent.
LEMMA AckWasSent ==
    ASSUME IInv, NEW ack \in acks
    PROVE  ack \in 0..Sent
  <1>1. ack \in Nat /\ 1..ack \subseteq WrittenIds
    BY DEF IInv, Network, AcksAreCumulative
  <1>2. WrittenIds \subseteq 1..Sent /\ Sent \in Nat
    BY Lengths DEF IInv, ReceiverInv, WrittenWasStored, StoredWasSent
  <1> QED
    BY <1>1, <1>2

----------------------------------------------------------------------------
\* What is left to check of a step of the sender that has preserved SenderInv:
\* it adds packets it has sent to data, and forgets what an ack allowed.
LEMMA SenderStepInv ==
    ASSUME IInv, SenderInv',
           UNCHANGED <<receiverVars, acks>>,
           data' \subseteq 0..Sent',
           FIN \in data' => spc' = "closed",
           rpc = "closed" => spc' = "closed",
           Sent' >= Sent,
           Acked' = Acked \/ Acked' \in acks,
           last_ack' = last_ack \/ last_ack' \in acks
    PROVE  IInv'
  <1>1. ReceiverInv' /\ WrittenIds' = WrittenIds
    BY DEF IInv, ReceiverInv, ReceiverTypeOK, receiverVars, WrittenWasStored,
           NoGaps, WrittenIds
  <1>2. Sent \in Nat /\ Sent' \in Nat
    BY Lengths DEF IInv, SenderInv, QueuesInOrder
  <1>3. Network'
    BY DEF IInv, Network
  <1>4. StoredWasSent'
    BY <1>2 DEF IInv, StoredWasSent, receiverVars
  <1>5. AcksAreCumulative'
    BY <1>1 DEF IInv, AcksAreCumulative
  <1>6. ForgottenIsWritten'
    BY <1>1 DEF IInv, AcksAreCumulative, ForgottenIsWritten
  <1> QED
    BY <1>1, <1>3, <1>4, <1>5, <1>6 DEF IInv

\* The handlers of the sender, and what they do to the transfer.
LEMMA SenderNextInv ==
    ASSUME IInv,
           SenderLocalStep \/ SendNewStep \/ TimeoutStep \/ WaitAckStep \/ FinishStep
    PROVE  /\ IInv'
           /\ Total' = Total
           /\ UNCHANGED receiverVars
  <1>0. /\ SenderInv /\ Sent \in Nat
        /\ data \subseteq 0..Sent
        /\ FIN \in data => spc = "closed"
        /\ rpc = "closed" => spc = "closed"
    BY Lengths DEF IInv, Network, StoredWasSent
  <1>1. CASE SenderLocalStep
    <2>1. CASE ReliablyTransfer
      <3>1. SenderInv' /\ Sent' = Sent /\ Acked' = Acked /\ Total' = Total
        BY <1>0, <2>1, ReliablyTransferInv
      <3>2. spc = "start" /\ last_ack' = last_ack /\ UNCHANGED <<receiverVars, data, acks>>
        BY <1>1, <2>1 DEF SenderLocalStep, ReliablyTransfer, networkVars
      <3>3. IInv'
        BY <1>0, <3>1, <3>2, SenderStepInv
      <3> QED
        BY <3>1, <3>2, <3>3
    <2>2. CASE NothingLeft \/ WaitEagain \/ Crash
      <3>1. SenderInv' /\ Sent' = Sent /\ Acked' = Acked /\ Total' = Total
        BY <1>0, <2>2, QuietStepInv
      <3>2. spc = "loop" /\ last_ack' = last_ack /\ UNCHANGED <<receiverVars, data, acks>>
        BY <1>1, <2>2 DEF SenderLocalStep, NothingLeft, WaitEagain, Crash,
                          UndefinedFront, Dispatch, networkVars
      <3>3. IInv'
        BY <1>0, <3>1, <3>2, SenderStepInv
      <3> QED
        BY <3>1, <3>2, <3>3
    <2> QED
      BY <1>1, <2>1, <2>2 DEF SenderLocalStep
  <1>2. CASE SendNewStep
    <2>1. /\ SenderInv' /\ Sent' = Sent + Len(Burst) /\ Acked' = Acked /\ Total' = Total
          /\ ToSet(Burst) \subseteq 1..Sent'
          /\ Len(Burst) \in Nat
      BY <1>0, <1>2, SendNewInv, BurstProperties DEF SendNewStep
    <2>2. /\ spc = "loop" /\ spc' = spc /\ last_ack' = last_ack
          /\ data' = data \cup ToSet(Burst)
          /\ UNCHANGED <<receiverVars, acks>>
      BY <1>2 DEF SendNewStep, SendNew, Dispatch
    <2>3. data' \subseteq 0..Sent' /\ FIN \notin data' /\ Sent' >= Sent
      <3>1. Sent' >= Sent /\ 0..Sent \subseteq 0..Sent' /\ 1..Sent' \subseteq 0..Sent'
        BY <1>0, <2>1
      <3>2. FIN \notin data /\ FIN \notin 1..Sent'
        BY <1>0, <2>2 DEF FIN
      <3> QED
        BY <1>0, <2>1, <2>2, <3>1, <3>2
    <2>4. IInv'
      BY <1>0, <2>1, <2>2, <2>3, SenderStepInv
    <2> QED
      BY <2>1, <2>2, <2>4
  <1>3. CASE TimeoutStep
    <2>1. SenderInv' /\ Sent' = Sent /\ Acked' = Acked /\ Total' = Total
      BY <1>0, <1>3, QuietStepInv DEF TimeoutStep
    <2>2. Resent \in 1..Sent
      BY <1>0, <1>3, ResentWasSent DEF TimeoutStep
    <2>3. /\ spc = "loop" /\ spc' = spc /\ last_ack' = last_ack
          /\ data' = data \cup {Resent}
          /\ UNCHANGED <<receiverVars, acks>>
      BY <1>3 DEF TimeoutStep, Timeout, Dispatch
    <2>4. data' \subseteq 0..Sent' /\ FIN \notin data'
      BY <1>0, <2>1, <2>2, <2>3 DEF FIN
    <2>5. IInv'
      BY <1>0, <2>1, <2>3, <2>4, SenderStepInv
    <2> QED
      BY <2>1, <2>3, <2>5
  <1>4. CASE WaitAckStep
    <2>1. PICK ack \in acks : WaitAck(ack)
      BY <1>4 DEF WaitAckStep
    <2>2. ack \in 0..Sent
      BY AckWasSent
    <2>3. /\ SenderInv' /\ Sent' = Sent /\ Total' = Total
          /\ Acked' = Acked \/ Acked' = ack
          /\ last_ack' = ack
      BY <1>0, <2>1, <2>2, DupOrOldAckInv, PopAckInv DEF WaitAck
    <2>4. spc = "loop" /\ UNCHANGED <<receiverVars, data, acks>>
      BY <1>4, <2>1 DEF WaitAckStep, networkVars, WaitAck, DupAck, OldAck, HeadAck,
                        SkipAck, Dispatch
    <2>5. IInv'
      BY <1>0, <2>3, <2>4, SenderStepInv
    <2> QED
      BY <2>3, <2>4, <2>5
  <1>5. CASE FinishStep
    <2>1. SenderInv' /\ Sent' = Sent /\ Acked' = Acked /\ Total' = Total
      BY <1>0, <1>5, QuietStepInv DEF FinishStep
    <2>2. /\ spc' = "closed" /\ last_ack' = last_ack
          /\ data' = data \cup {FIN}
          /\ UNCHANGED <<receiverVars, acks>>
      BY <1>5 DEF FinishStep, Finish
    <2>3. data' \subseteq 0..Sent'
      BY <1>0, <2>1, <2>2 DEF FIN
    <2>4. IInv'
      BY <1>0, <2>1, <2>2, <2>3, SenderStepInv
    <2> QED
      BY <2>1, <2>2, <2>4
  <1> QED
    BY <1>1, <1>2, <1>3, <1>4, <1>5

----------------------------------------------------------------------------
\* A turn of the receiver's loop stores and writes packets that were sent, and
\* acknowledges what is written.
LEMMA ReceiverNextInv ==
    ASSUME IInv, ReceiverStep
    PROVE  /\ IInv'
           /\ Total' = Total
  <1>1. /\ UNCHANGED <<senderVars, data>>
        /\ SenderInv' /\ Sent' = Sent /\ Acked' = Acked /\ Total' = Total
    <2>1. UNCHANGED <<senderVars, data>>
      BY DEF ReceiverStep
    <2>2. Sent' = Sent /\ Acked' = Acked /\ Total' = Total
      BY <2>1 DEF senderVars, Sent, Acked, Total
    <2>3. SenderInv'
      BY <2>1, <2>2 DEF IInv, SenderInv, SenderTypeOK, WindowRespected,
                        QueuesInOrder, HeadId, SenderFlags, senderVars
    <2> QED
      BY <2>1, <2>2, <2>3
  <1>2. PICK pid \in data :
          \/ ReceiveFin(pid) /\ UNCHANGED acks
          \/ \E ack \in array \cup {old_pid, pid} :
               /\ ReceiveOther(pid, ack) \/ ReceiveHead(pid, ack)
               /\ acks' = acks \cup {ack}
    BY DEF ReceiverStep
  <1>3. /\ pid \in 0..Sent /\ pid \in Nat
        /\ Sent \in Nat
        /\ array \subseteq 1..Sent
        /\ acks \subseteq Nat
        /\ old_pid \in Nat
        /\ ReceiverInv
    BY Lengths DEF IInv, Network, StoredWasSent, ReceiverInv, ReceiverTypeOK
  <1>4. CASE ReceiveFin(pid) /\ UNCHANGED acks
    <2>1. ReceiverInv' /\ WrittenIds' = WrittenIds
      BY <1>3, <1>4, ReceiveFinInv
    <2>2. pid = FIN /\ array' = array /\ rpc' = "closed" /\ UNCHANGED acks
      BY <1>4 DEF ReceiveFin
    <2>3. spc' = "closed" /\ last_ack' = last_ack
      BY <1>1, <1>2, <2>2 DEF IInv, Network, senderVars
    <2> QED
      BY <1>1, <2>1, <2>2, <2>3 DEF IInv, Network, StoredWasSent, AcksAreCumulative,
                                    ForgottenIsWritten
  <1>5. CASE ~ (ReceiveFin(pid) /\ UNCHANGED acks)
    <2>1. PICK ack \in array \cup {old_pid, pid} :
            /\ ReceiveOther(pid, ack) \/ ReceiveHead(pid, ack)
            /\ acks' = acks \cup {ack}
      BY <1>2, <1>5
    <2>2. ack \in Nat
      BY <1>3, <2>1
    <2>3. /\ ReceiverInv'
          /\ WrittenIds \subseteq WrittenIds'
          /\ 1..ack \subseteq WrittenIds'
      BY <1>3, <2>1, <2>2, ReceiveOtherInv, ReceiveHeadInv
    <2>4. /\ array' = array \cup {pid} /\ pid # FIN
          /\ rpc' = rpc /\ rpc = "receiving"
      BY <2>1 DEF ReceiveOther, ReceiveHead
    <2>5. array' \subseteq 1..Sent'
      BY <1>1, <1>3, <2>4 DEF FIN
    <2>6. Network' /\ StoredWasSent'
      BY <1>1, <1>3, <2>1, <2>2, <2>4, <2>5
         DEF IInv, Network, StoredWasSent, senderVars
    <2>7. AcksAreCumulative'
      BY <1>1, <2>1, <2>3 DEF IInv, AcksAreCumulative, senderVars
    <2>8. ForgottenIsWritten'
      BY <1>1, <2>3 DEF IInv, ForgottenIsWritten
    <2> QED
      BY <1>1, <2>3, <2>6, <2>7, <2>8 DEF IInv
  <1> QED
    BY <1>1, <1>4, <1>5

\* Stuttering steps.
LEMMA StutterInv ==
    ASSUME IInv, UNCHANGED vars
    PROVE  IInv' /\ Total' = Total
  BY DEF IInv, vars, senderVars, receiverVars, networkVars, SenderInv, SenderTypeOK,
         WindowRespected, QueuesInOrder, HeadId, SenderFlags, ReceiverInv,
         ReceiverTypeOK, WrittenWasStored, NoGaps, WrittenIds, Network, StoredWasSent,
         AcksAreCumulative, ForgottenIsWritten, Sent, Acked, Total

\* Every step preserves IInv and the size of the transfer.
LEMMA NextInv ==
    ASSUME IInv, [Next]_vars
    PROVE  IInv' /\ Total' = Total
  BY SenderNextInv, ReceiverNextInv, StutterInv DEF Next

\* Of LossyTransport: IInv always holds.
THEOREM Invariance == Spec => []IInv
  <1>1. Init => IInv
    BY InitInv
  <1>2. IInv /\ [Next]_vars => IInv'
    BY NextInv
  <1> QED
    BY <1>1, <1>2, PTL DEF Spec

----------------------------------------------------------------------------
\* The types of all variables.
THEOREM TypeCorrectness == Spec => []TypeOK
  <1>1. IInv => TypeOK
    <2> SUFFICES ASSUME IInv
                 PROVE  TypeOK
      OBVIOUS
    <2>1. Sent \in Nat
      BY Lengths DEF IInv
    <2>2. data \subseteq Nat /\ acks \subseteq Nat
      BY <2>1 DEF IInv, Network
    <2> QED
      BY <2>2 DEF IInv, SenderInv, ReceiverInv, TypeOK
  <1> QED
    BY <1>1, Invariance, PTL

\* A packet leaves pkt_q_copy only after it is in the file.
THEOREM NothingForgotten == Spec => []ForgottenIsWritten
  <1>1. IInv => ForgottenIsWritten
    BY DEF IInv
  <1> QED
    BY <1>1, Invariance, PTL

\* Every packet up to an ack, in the network or counted, is in the file.
THEOREM AcksCumulative == Spec => []AcksAreCumulative
  <1>1. IInv => AcksAreCumulative
    BY DEF IInv
  <1> QED
    BY <1>1, Invariance, PTL

\* send_new() never has more in flight than the window.
THEOREM WindowKept == Spec => []WindowRespected
  <1>1. IInv => WindowRespected
    BY DEF IInv, SenderInv
  <1> QED
    BY <1>1, Invariance, PTL

\* The two deques stay one unbroken run of identifiers.
THEOREM QueuesKeptInOrder == Spec => []QueuesInOrder
  <1>1. IInv => QueuesInOrder
    BY DEF IInv, SenderInv
  <1> QED
    BY <1>1, Invariance, PTL

\* The receiver writes no packet before the one it follows.
THEOREM FileHasNoGaps == Spec => []NoGaps
  <1>1. IInv => NoGaps
    BY DEF IInv, ReceiverInv
  <1> QED
    BY <1>1, Invariance, PTL

\* The loop of pop_front() in wait() stays inside pkt_q_copy.
THEOREM PopsStayInRange == Spec => []PopsInRange
  <1>1. IInv => PopsInRange
    <2> SUFFICES ASSUME IInv,
                        NEW ack \in acks,
                        Dispatch(2), pkt_q_copy # <<>>, Head(pkt_q_copy) < ack
                 PROVE  ack - head_id + 1 \in 1..Len(pkt_q_copy)
      BY DEF PopsInRange
    <2>1. /\ Len(pkt_q_copy) \in Nat
          /\ Sent = Acked + Len(pkt_q_copy)
          /\ Sent \in Nat /\ Acked \in Nat
      BY Lengths DEF IInv
    <2>2. Head(pkt_q_copy) = Acked + 1 /\ head_id = Acked + 1
      BY FrontProperties DEF IInv, SenderInv, HeadId, Dispatch
    <2>3. ack \in 0..Sent
      BY AckWasSent
    <2> QED
      BY <2>1, <2>2, <2>3
  <1> QED
    BY <1>1, Invariance, PTL

\* Once ack_all_flag is set the file is complete.
LEMMA AllAcked ==
    ASSUME IInv, ack_all_flag = 1
    PROVE  WrittenIds = 1..Total
  <1>1. pkt_q = <<>> /\ pkt_q_copy = <<>> /\ bytes_count = 0
    BY DEF IInv, SenderInv, SenderFlags
  <1>2. Len(pkt_q) = 0 /\ Len(pkt_q_copy) = 0
    BY <1>1, EmptySeq
  <1>3. Acked = Sent /\ package_id - 1 = Sent
    BY <1>2, Lengths DEF IInv
  <1>4. Total = Sent
    BY <1>1, <1>3, Lengths DEF IInv, Total
  <1>5. 1..Sent \subseteq WrittenIds /\ WrittenIds \subseteq 1..Sent
    BY <1>3 DEF IInv, ForgottenIsWritten, ReceiverInv, WrittenWasStored, StoredWasSent
  <1> QED
    BY <1>4, <1>5

\* A program that has ended leaves a complete file.
THEOREM ClosedTransferIsComplete == Spec => []ClosedIsComplete
  <1>1. IInv => ClosedIsComplete
    BY AllAcked DEF ClosedIsComplete, IInv, SenderInv, SenderFlags, StoredWasSent
  <1> QED
    BY <1>1, Invariance, PTL

----------------------------------------------------------------------------
(***************************************************************************)
(* The refinement: each step is one of FileTransfer's or leaves its        *)
(* variables alone.                                                        *)
(***************************************************************************)
LEMMA RefinesInit == Init => Abstract!Init
  <1> SUFFICES ASSUME Init
               PROVE  Abstract!Init
    OBVIOUS
  <1>1. Total \in Nat
    BY SenderInitInv DEF Init
  <1>2. written = <<>> /\ rpc = "receiving" /\ spc # "closed"
    BY DEF Init, SenderInit, ReceiverInit
  <1> QED
    BY <1>1, <1>2 DEF Abstract!Init

\* A step of the sender closes it, when everything is written, or is invisible.
LEMMA RefinesSender ==
    ASSUME IInv, IInv', Total' = Total, UNCHANGED receiverVars,
           SenderLocalStep \/ SendNewStep \/ TimeoutStep \/ WaitAckStep \/ FinishStep
    PROVE  [Abstract!Next]_(Abstract!vars)
  <1>1. CASE FinishStep
    <2>1. spc = "loop" /\ spc' = "closed" /\ ack_all_flag = 1
      BY <1>1 DEF FinishStep, Finish
    <2>2. 1..Total \subseteq Abstract!ToSet(written)
      BY <2>1, AllAcked DEF WrittenIds, ToSet, Abstract!ToSet
    <2>3. Abstract!SenderCloses
      BY <2>1, <2>2 DEF Abstract!SenderCloses, receiverVars
    <2> QED
      BY <2>3 DEF Abstract!Next
  <1>2. CASE SenderLocalStep \/ SendNewStep \/ TimeoutStep \/ WaitAckStep
    <2>1. spc # "closed" /\ spc' # "closed"
      BY <1>2 DEF SenderLocalStep, SendNewStep, TimeoutStep, WaitAckStep,
                  ReliablyTransfer, NothingLeft, WaitEagain, Crash, SendNew, Timeout,
                  WaitAck, DupAck, OldAck, HeadAck, SkipAck, UndefinedFront, Dispatch
    <2> QED
      BY <2>1 DEF Abstract!vars, receiverVars
  <1> QED
    BY <1>1, <1>2

\* A turn of the receiver's loop writes a run, closes it, or is invisible.
LEMMA RefinesReceiver ==
    ASSUME IInv, IInv', Total' = Total, ReceiverStep
    PROVE  [Abstract!Next]_(Abstract!vars)
  <1>1. spc' = spc
    BY DEF ReceiverStep, senderVars
  <1>2. PICK pid \in data :
          \/ ReceiveFin(pid)
          \/ \E ack \in array \cup {old_pid, pid} :
               ReceiveOther(pid, ack) \/ ReceiveHead(pid, ack)
    BY DEF ReceiverStep
  <1>3. CASE ReceiveFin(pid)
    <2>1. pid = FIN /\ rpc = "receiving" /\ rpc' = "closed" /\ written' = written
      BY <1>3 DEF ReceiveFin
    <2>2. spc = "closed"
      BY <1>2, <2>1 DEF IInv, Network
    <2>3. Abstract!ReceiverCloses
      BY <1>1, <2>1, <2>2 DEF Abstract!ReceiverCloses
    <2> QED
      BY <2>3 DEF Abstract!Next
  <1>4. ASSUME NEW ack \in array \cup {old_pid, pid}, ReceiveOther(pid, ack)
        PROVE  [Abstract!Next]_(Abstract!vars)
    <2>1. rpc' = rpc /\ written' = written
      BY <1>4 DEF ReceiveOther, RepeatedAck
    <2> QED
      BY <1>1, <2>1 DEF Abstract!vars
  <1>5. ASSUME NEW ack \in array \cup {old_pid, pid}, ReceiveHead(pid, ack)
        PROVE  [Abstract!Next]_(Abstract!vars)
    <2>1. /\ rpc = "receiving" /\ rpc' = rpc
          /\ pid = old_pid + 1
          /\ ack \in array' /\ pid <= ack
          /\ written' = written \o Interval(pid, ack)
      BY <1>5 DEF ReceiveHead, StartsRun, IsRunEnd
    <2>2. /\ old_pid \in Nat
          /\ 1..old_pid \subseteq ToSet(written)
          /\ array' \subseteq 1..Sent'
      BY DEF IInv, ReceiverInv, ReceiverTypeOK, WrittenIds, StoredWasSent
    <2>3. Sent' = Sent /\ Sent <= Total /\ Sent \in Nat /\ Total \in Nat
      <3>1. Sent' = Sent
        BY DEF ReceiverStep, senderVars, Sent
      <3>2. Sent <= Total
        <4>1. bytes_count \in Nat
          BY DEF IInv, SenderInv, SenderTypeOK
        <4>2. Total = package_id - 1 + bytes_count
          BY DEF Total
        <4> QED
          BY <4>1, <4>2, Lengths DEF IInv
      <3> QED
        BY <3>1, <3>2, Lengths DEF IInv
    <2>4. pid \in 1..ack /\ ack \in 1..Total /\ pid \in 1..Total
      BY <2>1, <2>2, <2>3
    <2>5. /\ pid - 1 \in {0} \cup Abstract!ToSet(written)
          /\ written' = written \o Abstract!Interval(pid, ack)
      BY <2>1, <2>2 DEF ToSet, Abstract!ToSet, Interval, Abstract!Interval
    <2>6. ack <= Total
      BY <2>3, <2>4
    <2>7. Abstract!WriteRun(pid, ack)
      BY <1>1, <2>1, <2>4, <2>5, <2>6 DEF Abstract!WriteRun
    <2> QED
      BY <2>4, <2>7 DEF Abstract!Next
  <1> QED
    BY <1>2, <1>3, <1>4, <1>5

\* LossyTransport implements the transfer that may write packets again but skips
\* none.
THEOREM Refinement == Spec => ImplementsReplayingTransfer
  <1>1. IInv /\ [Next]_vars => [Abstract!Next]_(Abstract!vars)
    <2> SUFFICES ASSUME IInv, [Next]_vars
                 PROVE  [Abstract!Next]_(Abstract!vars)
      OBVIOUS
    <2>1. IInv' /\ Total' = Total
      BY NextInv
    <2>2. CASE UNCHANGED vars
      BY <2>1, <2>2 DEF vars, senderVars, receiverVars, Abstract!vars
    <2>3. CASE ReceiverStep
      BY <2>1, <2>3, RefinesReceiver
    <2>4. CASE SenderLocalStep \/ SendNewStep \/ TimeoutStep \/ WaitAckStep \/ FinishStep
      BY <2>1, <2>4, SenderNextInv, RefinesSender
    <2> QED
      BY <2>2, <2>3, <2>4 DEF Next
  <1> QED
    BY <1>1, RefinesInit, Invariance, PTL
       DEF Spec, ImplementsReplayingTransfer, Abstract!Spec

============================================================================
