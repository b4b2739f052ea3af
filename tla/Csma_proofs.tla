---------------------------- MODULE Csma_proofs ----------------------------
(***************************************************************************)
(* The simulator keeps its counters consistent, for every number of nodes, *)
(* frame length, limit of collisions, list of ranges and number of ticks.  *)
(***************************************************************************)
EXTENDS Csma, TLAPS

\* A quotient and a remainder determine the number, and it them.
LEMMA Division ==
    ASSUME NEW L \in Nat \ {0}, NEW a \in Nat
    PROVE  /\ a % L \in 0..(L - 1)
           /\ a \div L \in Nat
           /\ a = (a \div L) * L + (a % L)
  OBVIOUS

LEMMA Remainder ==
    ASSUME NEW L \in Nat \ {0}, NEW q \in Nat, NEW r \in 0..(L - 1)
    PROVE  (q * L + r) % L = r
  OBVIOUS

\* Counting one slot more within a frame, or the last one of a frame.
LEMMA NextRemainder ==
    ASSUME NEW L \in Nat \ {0}, NEW a \in Nat
    PROVE  (a + 1) % L = IF a % L = L - 1 THEN 0 ELSE (a % L) + 1
<1> DEFINE q == a \div L
           r == a % L
<1>1. q \in Nat /\ r \in 0..(L - 1) /\ a = q * L + r
  BY Division
<1> HIDE DEF q, r
<1>2. CASE r = L - 1
  <2>1. a + 1 = (q + 1) * L + 0
    BY <1>1, <1>2
  <2>2. ((q + 1) * L + 0) % L = 0
    BY <1>1, Remainder
  <2>3. QED
    BY <2>1, <2>2, <1>2 DEF r
<1>3. CASE r # L - 1
  <2>1. a + 1 = q * L + (r + 1) /\ r + 1 \in 0..(L - 1)
    BY <1>1, <1>3
  <2>2. (q * L + (r + 1)) % L = r + 1
    BY <1>1, <2>1, Remainder
  <2>3. QED
    BY <2>1, <2>2, <1>3 DEF r
<1>4. QED
  BY <1>2, <1>3

\* What the assumption on the input says of the one that was read.
LEMMA InputFacts ==
    ASSUME input \in Inputs
    PROVE  /\ input.N \in Nat \ {0} /\ input.L \in Nat \ {0} /\ input.M \in Nat \ {0}
           /\ \A c \in 0..(input.M - 1) : input.Rarray[c + 1] \in Nat \ {0}
  BY CsmaAssumption

\* set_backoff() draws from the range of the collisions it is given.
LEMMA BackoffDrawn ==
    ASSUME input \in Inputs, NEW n \in Nodes, NEW c \in 0..(input.M - 1), NEW t \in Nat
    PROVE  set_backoff(n, c, t) \in 0..(input.Rarray[c + 1] - 1)
<1> DEFINE R == input.Rarray[c + 1]
<1>1. R \in Nat \ {0} /\ t + n \in Nat
  BY InputFacts DEF Nodes
<1>2. (t + n) % R \in 0..(R - 1)
  BY <1>1, Division
<1>3. QED
  BY <1>2 DEF set_backoff

\* The count of collisions stays below M.
LEMMA CountedBelowM ==
    ASSUME input \in Inputs, NEW c \in 0..(input.M - 1)
    PROVE  /\ Counted(c) \in 0..(input.M - 1)
           /\ Counted(c) \in {0, c + 1}
  BY InputFacts DEF Counted

LEMMA InitIInv == Init => IInv
<1> SUFFICES ASSUME Init PROVE IInv
  OBVIOUS
<1>1. input \in Inputs /\ T \in Nat
  BY CsmaAssumption DEF Init
<1>2. 0 \in 0..(input.M - 1) /\ 0 % input.L = 0
  <2>1. input.L \in Nat \ {0} /\ 0 \in 0..(input.M - 1) /\ 0 \in 0..(input.L - 1)
    BY <1>1, InputFacts
  <2>2. (0 * input.L + 0) % input.L = 0
    BY <2>1, Remainder
  <2>3. QED
    BY <2>1, <2>2
<1>3. \A n \in Nodes : set_backoff(n, 0, 0) \in 0..(input.Rarray[0 + 1] - 1)
  BY <1>1, <1>2, BackoffDrawn
<1>4. input.Rarray[0 + 1] \in Nat
  BY <1>1, <1>2, InputFacts
<1>5. TypeOK
  BY <1>1, <1>2, <1>3, <1>4, InputFacts DEF Init, TypeOK, Nodes
<1>6. BackoffInRange
  BY <1>3 DEF Init, BackoffInRange
<1>7. SlotsAreFrames
  BY <1>2 DEF Init, SlotsAreFrames
<1>8. OccupiedForFrame /\ SoleTransmitter /\ DroppedInTime
  BY DEF Init, OccupiedForFrame, SoleTransmitter, DroppedInTime
<1>9. QED
  BY <1>5, <1>6, <1>7, <1>8 DEF IInv

(***************************************************************************)
(* One lemma for each branch of the loop.                                  *)
(***************************************************************************)

\* What every branch keeps: the input, and one tick more.
LEMMA TickKeeps ==
    ASSUME IInv, NEW occupied, Tick(occupied)
    PROVE  /\ input' = input /\ input' \in Inputs /\ Nodes' = Nodes
           /\ tick \in Nat /\ tick' = tick + 1 /\ tick' \in 0..T
           /\ channelOccupied = occupied
  BY CsmaAssumption DEF IInv, TypeOK, Tick, Nodes

\* Only a node that is not ready counts down.
LEMMA CountDownKeeps == ASSUME IInv, CountDown PROVE IInv'
<1>1. /\ Tick(0) /\ Ready = {}
      /\ backoff' = [n \in Nodes |-> backoff[n] - 1]
      /\ UNCHANGED <<collisions, channelOccupied, transmitime_left, cur_node_id,
                     slots_num, attempts>>
  BY DEF CountDown, channelVars
<1>2. /\ input' = input /\ input' \in Inputs /\ Nodes' = Nodes
      /\ tick \in Nat /\ tick' = tick + 1 /\ tick' \in 0..T
      /\ channelOccupied = 0
  BY <1>1, TickKeeps
<1>3. \A n \in Nodes : backoff[n] \in Nat \ {0} /\ backoff'[n] = backoff[n] - 1
  BY <1>1 DEF Ready, IInv, TypeOK
<1>4. TypeOK'
  BY <1>1, <1>2, <1>3 DEF IInv, TypeOK
<1>5. BackoffInRange'
  BY <1>1, <1>2, <1>3, InputFacts DEF IInv, TypeOK, BackoffInRange
<1>6. OccupiedForFrame' /\ SoleTransmitter' /\ SlotsAreFrames' /\ DroppedInTime'
  BY <1>1, <1>2 DEF IInv, OccupiedForFrame, SoleTransmitter, SlotsAreFrames,
     DroppedInTime
<1>7. QED
  BY <1>4, <1>5, <1>6 DEF IInv

\* Giving the channel back, with a count of collisions that is recorded as well.
LEMMA GiveBackKeeps ==
    ASSUME IInv, input' = input, tick \in Nat, NEW n \in Nodes, NEW c \in 0..(input.M - 1),
           GiveBack(n, c),
           collisions' \in [Nodes -> 0..(input.M - 1)],
           collisions'[n] = c,
           \A m \in Nodes \ {n} : collisions'[m] = collisions[m]
    PROVE  /\ channelOccupied' = 0
           /\ backoff' \in [Nodes -> Nat]
           /\ attempts' \in [Nodes -> Nat]
           /\ BackoffInRange'
           /\ \A m \in Nodes : attempts'[m] <= collisions'[m]
           /\ (c = 0 /\ input.L > 1) => \A m \in Nodes : attempts'[m] = collisions'[m]
<1>1. input \in Inputs /\ Nodes' = Nodes /\ backoff \in [Nodes -> Nat]
      /\ attempts \in [Nodes -> Nat] /\ tick + 1 \in Nat
  BY DEF IInv, TypeOK, Nodes
<1>2. set_backoff(n, c, tick + 1) \in 0..(input.Rarray[c + 1] - 1)
  BY <1>1, BackoffDrawn
<1>3. input.Rarray[c + 1] \in Nat
  BY <1>1, InputFacts
<1>4. /\ backoff' \in [Nodes -> Nat]
      /\ backoff'[n] = set_backoff(n, c, tick + 1)
      /\ \A m \in Nodes \ {n} : backoff'[m] = backoff[m]
  BY <1>1, <1>2, <1>3 DEF GiveBack
<1>5. /\ attempts' \in [Nodes -> Nat]
      /\ attempts'[n] = 0
      /\ \A m \in Nodes \ {n} : attempts'[m] = attempts[m]
  BY <1>1 DEF GiveBack
<1>6. BackoffInRange'
  BY <1>1, <1>2, <1>4 DEF IInv, BackoffInRange
<1>7. \A m \in Nodes : attempts'[m] <= collisions'[m]
  BY <1>5 DEF IInv, DroppedInTime
<1>8. (c = 0 /\ input.L > 1) => \A m \in Nodes : attempts'[m] = collisions'[m]
  BY <1>5 DEF IInv, DroppedInTime
<1>9. QED
  BY <1>4, <1>5, <1>6, <1>7, <1>8 DEF GiveBack

\* The first slot of a frame: the sender alone was ready, and after a frame of
\* one slot it is its old collisions that its backoff is drawn for.
LEMMA TransmitKeeps == ASSUME IInv, Transmit PROVE IInv'
<1> DEFINE n == cur_node_id'
<1>1. /\ Tick(0) /\ n \in Alone
      /\ transmitime_left' = input.L - 1
      /\ slots_num' = slots_num + 1
      /\ collisions' = collisions
  BY DEF Transmit, UseSlot
<1>2. /\ input' = input /\ input' \in Inputs /\ Nodes' = Nodes
      /\ tick \in Nat /\ tick' = tick + 1 /\ tick' \in 0..T
      /\ channelOccupied = 0
  BY <1>1, TickKeeps
<1>3. n \in Nodes /\ Ready = {n}
  BY <1>1 DEF Alone, Ready
<1>4. input.L \in Nat \ {0} /\ collisions[n] \in 0..(input.M - 1)
      /\ slots_num \in 0..tick /\ collisions \in [Nodes -> 0..(input.M - 1)]
  BY <1>2, <1>3, InputFacts DEF IInv, TypeOK
<1>5. slots_num % input.L = 0
  BY <1>2 DEF IInv, SlotsAreFrames
<1>6. slots_num' % input.L = IF input.L = 1 THEN 0 ELSE 1
  <2>1. (slots_num + 1) % input.L = IF slots_num % input.L = input.L - 1 THEN 0
                                    ELSE (slots_num % input.L) + 1
    <3>1. slots_num \in Nat
      BY <1>2, <1>4
    <3>2. QED
      BY <1>4, <3>1, NextRemainder
  <2>2. QED
    BY <1>1, <1>4, <1>5, <2>1
<1>7. CASE input.L = 1
  <2>1. GiveBack(n, collisions[n])
    BY <1>7 DEF Transmit
  <2>2. /\ channelOccupied' = 0 /\ backoff' \in [Nodes -> Nat]
        /\ attempts' \in [Nodes -> Nat] /\ BackoffInRange'
        /\ \A m \in Nodes : attempts'[m] <= collisions'[m]
    <3> HIDE DEF n
    <3>1. QED
      BY <1>1, <1>2, <1>3, <1>4, <2>1, GiveBackKeeps
  <2>3. TypeOK'
    BY <1>1, <1>2, <1>3, <1>4, <1>7, <2>2 DEF TypeOK
  <2>4. OccupiedForFrame' /\ SoleTransmitter'
    BY <1>1, <1>7, <2>2 DEF OccupiedForFrame, SoleTransmitter
  <2>5. SlotsAreFrames' /\ DroppedInTime'
    BY <1>2, <1>6, <1>7, <2>2 DEF SlotsAreFrames, DroppedInTime
  <2>6. QED
    BY <2>2, <2>3, <2>4, <2>5 DEF IInv
<1>8. CASE input.L # 1
  <2>1. channelOccupied' = 1 /\ backoff' = backoff /\ attempts' = attempts
    BY <1>8 DEF Transmit
  <2>2. TypeOK'
    BY <1>1, <1>2, <1>3, <1>4, <2>1 DEF IInv, TypeOK
  <2>3. OccupiedForFrame'
    BY <1>1, <1>4, <1>8, <2>1 DEF OccupiedForFrame
  <2>4. BackoffInRange' /\ DroppedInTime'
    BY <1>1, <1>2, <2>1 DEF IInv, BackoffInRange, DroppedInTime
  <2>5. SoleTransmitter'
    BY <1>2, <1>3, <2>1 DEF SoleTransmitter, Ready
  <2>6. SlotsAreFrames'
    BY <1>1, <1>2, <1>4, <1>6, <1>8, <2>1 DEF SlotsAreFrames
  <2>7. QED
    BY <2>2, <2>3, <2>4, <2>5, <2>6 DEF IInv
<1>9. QED
  BY <1>7, <1>8

\* Every node that collides counts the collision, drops its packet at the M-th,
\* and draws from the range of what it has counted.
LEMMA CollideKeeps == ASSUME IInv, Collide PROVE IInv'
<1>1. /\ Tick(0)
      /\ collisions' = [n \in Nodes |-> IF n \in Ready THEN Counted(collisions[n])
                                                      ELSE collisions[n]]
      /\ backoff' = [n \in Nodes |-> IF n \in Ready
                                     THEN set_backoff(n, collisions'[n], tick + 1)
                                     ELSE backoff[n]]
      /\ attempts' = [n \in Nodes |->
              IF n \in Ready
              THEN IF collisions'[n] = 0 THEN 0 ELSE attempts[n] + 1
              ELSE attempts[n]]
      /\ UNCHANGED <<channelOccupied, transmitime_left, cur_node_id, slots_num>>
  BY DEF Collide, channelVars
<1>2. /\ input' = input /\ input' \in Inputs /\ Nodes' = Nodes
      /\ tick \in Nat /\ tick' = tick + 1 /\ tick' \in 0..T
      /\ channelOccupied = 0
  BY <1>1, TickKeeps
<1>3. collisions \in [Nodes -> 0..(input.M - 1)] /\ backoff \in [Nodes -> Nat]
      /\ attempts \in [Nodes -> Nat]
  BY DEF IInv, TypeOK
<1>4. \A n \in Nodes :
        /\ Counted(collisions[n]) \in 0..(input.M - 1)
        /\ Counted(collisions[n]) \in {0, collisions[n] + 1}
  BY <1>2, <1>3, CountedBelowM
<1>5. collisions' \in [Nodes -> 0..(input.M - 1)]
  BY <1>1, <1>3, <1>4
<1>6. \A n \in Nodes : backoff'[n] \in 0..(input.Rarray[collisions'[n] + 1] - 1)
  <2> SUFFICES ASSUME NEW n \in Nodes
               PROVE  backoff'[n] \in 0..(input.Rarray[collisions'[n] + 1] - 1)
    OBVIOUS
  <2>1. CASE n \in Ready
    <3>1. backoff'[n] = set_backoff(n, collisions'[n], tick + 1)
      BY <1>1, <2>1
    <3>2. collisions'[n] \in 0..(input.M - 1) /\ tick + 1 \in Nat
      BY <1>2, <1>5
    <3>3. QED
      BY <1>2, <3>1, <3>2, BackoffDrawn
  <2>2. CASE n \notin Ready
    <3>1. backoff'[n] = backoff[n] /\ collisions'[n] = collisions[n]
      BY <1>1, <2>2
    <3>2. QED
      BY <3>1 DEF IInv, BackoffInRange
  <2>3. QED
    BY <2>1, <2>2
<1>7. backoff' \in [Nodes -> Nat]
  <2>1. \A n \in Nodes : backoff'[n] \in Nat
    BY <1>2, <1>5, <1>6, InputFacts
  <2>2. QED
    BY <1>1, <2>1
<1>8. \A n \in Nodes :
        /\ attempts'[n] \in Nat
        /\ attempts'[n] <= collisions'[n]
        /\ input.L > 1 => attempts'[n] = collisions'[n]
  <2> SUFFICES ASSUME NEW n \in Nodes
               PROVE  /\ attempts'[n] \in Nat
                      /\ attempts'[n] <= collisions'[n]
                      /\ input.L > 1 => attempts'[n] = collisions'[n]
    OBVIOUS
  <2>1. /\ attempts[n] \in Nat /\ collisions[n] \in Nat
        /\ attempts[n] <= collisions[n]
        /\ input.L > 1 => attempts[n] = collisions[n]
    BY <1>3 DEF IInv, DroppedInTime
  <2>2. CASE n \in Ready
    BY <1>1, <1>4, <2>1, <2>2
  <2>3. CASE n \notin Ready
    BY <1>1, <2>1, <2>3
  <2>4. QED
    BY <2>2, <2>3
<1>9. TypeOK'
  <2>1. attempts' \in [Nodes -> Nat]
    BY <1>1, <1>8
  <2>2. QED
    BY <1>1, <1>2, <1>5, <1>7, <2>1 DEF IInv, TypeOK
<1>10. BackoffInRange' /\ DroppedInTime'
  BY <1>2, <1>6, <1>8 DEF BackoffInRange, DroppedInTime
<1>11. OccupiedForFrame' /\ SoleTransmitter' /\ SlotsAreFrames'
  BY <1>1, <1>2 DEF IInv, OccupiedForFrame, SoleTransmitter, SlotsAreFrames
<1>12. QED
  BY <1>9, <1>10, <1>11 DEF IInv

\* A slot in the middle of a frame.
LEMMA OccupiedKeeps == ASSUME IInv, Occupied PROVE IInv'
<1>1. /\ Tick(1) /\ transmitime_left # 1
      /\ transmitime_left' = transmitime_left - 1
      /\ slots_num' = slots_num + 1
      /\ UNCHANGED <<collisions, backoff, channelOccupied, cur_node_id, attempts>>
  BY DEF Occupied, UseSlot, nodeVars
<1>2. /\ input' = input /\ input' \in Inputs /\ Nodes' = Nodes
      /\ tick \in Nat /\ tick' = tick + 1 /\ tick' \in 0..T
      /\ channelOccupied = 1
  BY <1>1, TickKeeps
<1>3. input.L \in Nat \ {0} /\ slots_num \in Nat
      /\ transmitime_left \in 2..(input.L - 1)
  BY <1>1, <1>2, InputFacts DEF IInv, TypeOK, OccupiedForFrame
<1>4. slots_num % input.L = input.L - transmitime_left
  BY <1>2 DEF IInv, SlotsAreFrames
<1>5. slots_num' % input.L = input.L - transmitime_left'
  <2>1. (slots_num + 1) % input.L = IF slots_num % input.L = input.L - 1 THEN 0
                                    ELSE (slots_num % input.L) + 1
    BY <1>3, NextRemainder
  <2>2. QED
    BY <1>1, <1>3, <1>4, <2>1
<1>6. TypeOK'
  BY <1>1, <1>2, <1>3 DEF IInv, TypeOK
<1>7. OccupiedForFrame' /\ SlotsAreFrames'
  BY <1>1, <1>2, <1>3, <1>5 DEF OccupiedForFrame, SlotsAreFrames
<1>8. BackoffInRange' /\ SoleTransmitter' /\ DroppedInTime'
  BY <1>1, <1>2 DEF IInv, BackoffInRange, SoleTransmitter, Ready, DroppedInTime
<1>9. QED
  BY <1>6, <1>7, <1>8 DEF IInv

\* The last slot of a frame: the owner's collisions are reset before it draws.
LEMMA EndFrameKeeps == ASSUME IInv, EndFrame PROVE IInv'
<1>1. /\ Tick(1) /\ transmitime_left = 1
      /\ transmitime_left' = 0
      /\ slots_num' = slots_num + 1
      /\ collisions' = [collisions EXCEPT ![cur_node_id] = 0]
      /\ GiveBack(cur_node_id, collisions'[cur_node_id])
      /\ cur_node_id' = cur_node_id
  BY DEF EndFrame, UseSlot, AfterFrame
<1>2. /\ input' = input /\ input' \in Inputs /\ Nodes' = Nodes
      /\ tick \in Nat /\ tick' = tick + 1 /\ tick' \in 0..T
      /\ channelOccupied = 1
  BY <1>1, TickKeeps
<1>3. /\ input.L \in Nat \ {0} /\ slots_num \in 0..tick
      /\ 1 \in 0..(input.L - 1) /\ 0 \in 0..(input.M - 1)
      /\ cur_node_id \in Nodes
      /\ collisions \in [Nodes -> 0..(input.M - 1)]
  BY <1>1, <1>2, InputFacts DEF IInv, TypeOK
<1>4. slots_num' % input.L = 0
  <2>1. slots_num % input.L = input.L - 1
    BY <1>1, <1>2 DEF IInv, SlotsAreFrames
  <2>2. QED
    BY <1>1, <1>3, <2>1, NextRemainder
<1>5. /\ collisions' \in [Nodes -> 0..(input.M - 1)]
      /\ collisions'[cur_node_id] = 0
      /\ \A m \in Nodes \ {cur_node_id} : collisions'[m] = collisions[m]
  BY <1>1, <1>3
<1>6. /\ channelOccupied' = 0
      /\ backoff' \in [Nodes -> Nat]
      /\ attempts' \in [Nodes -> Nat]
      /\ BackoffInRange'
      /\ \A m \in Nodes : attempts'[m] <= collisions'[m]
      /\ input.L > 1 => \A m \in Nodes : attempts'[m] = collisions'[m]
  BY <1>1, <1>2, <1>3, <1>5, GiveBackKeeps
<1>7. TypeOK'
  BY <1>1, <1>2, <1>3, <1>5, <1>6 DEF TypeOK
<1>8. OccupiedForFrame' /\ SoleTransmitter' /\ SlotsAreFrames' /\ DroppedInTime'
  BY <1>1, <1>2, <1>4, <1>6 DEF OccupiedForFrame, SoleTransmitter, SlotsAreFrames,
     DroppedInTime
<1>9. QED
  BY <1>6, <1>7, <1>8 DEF IInv

LEMMA Inductive == IInv /\ [Next]_vars => IInv'
<1> SUFFICES ASSUME IInv, [Next]_vars PROVE IInv'
  OBVIOUS
<1>1. CASE UNCHANGED vars
  BY <1>1 DEF vars, nodeVars, channelVars, IInv, TypeOK, Nodes, OccupiedForFrame,
     BackoffInRange, SoleTransmitter, Ready, SlotsAreFrames, DroppedInTime
<1>2. CASE CountDown
  BY <1>2, CountDownKeeps
<1>3. CASE Transmit
  BY <1>3, TransmitKeeps
<1>4. CASE Collide
  BY <1>4, CollideKeeps
<1>5. CASE Occupied
  BY <1>5, OccupiedKeeps
<1>6. CASE EndFrame
  BY <1>6, EndFrameKeeps
<1>7. QED
  BY <1>1, <1>2, <1>3, <1>4, <1>5, <1>6 DEF Next, Finished

LEMMA Invariance == Spec => []IInv
<1>1. QED
  BY InitIInv, Inductive, PTL DEF Spec

----------------------------------------------------------------------------
\* No counter of toy_simulator() leaves its range: the collisions of a node stay
\* below M, so that set_backoff() never reads beyond Rarray.
THEOREM TypeCorrectness == Spec => []TypeOK
<1>1. IInv => TypeOK
  BY DEF IInv
<1>2. QED
  BY <1>1, Invariance, PTL

\* After every branch the backoff of each node is one its present collisions allow.
THEOREM BackoffsInRange == Spec => []BackoffInRange
<1>1. IInv => BackoffInRange
  BY DEF IInv
<1>2. QED
  BY <1>1, Invariance, PTL

\* Nobody counts down or collides behind the frame of another node.
THEOREM OneTransmitter == Spec => []SoleTransmitter
<1>1. IInv => SoleTransmitter
  BY DEF IInv
<1>2. QED
  BY <1>1, Invariance, PTL

\* slots_num, the numerator of the utilization, is made of whole frames.
THEOREM WholeFrames == Spec => []SlotsAreFrames
<1>1. IInv => SlotsAreFrames
  BY DEF IInv
<1>2. QED
  BY <1>1, Invariance, PTL

\* A packet is dropped no later than at its M-th collision, and exactly then
\* unless frames are one slot long.
THEOREM PacketsDroppedInTime == Spec => []DroppedInTime
<1>1. IInv => DroppedInTime
  BY DEF IInv
<1>2. QED
  BY <1>1, Invariance, PTL

============================================================================
