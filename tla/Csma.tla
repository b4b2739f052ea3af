-------------------------------- MODULE Csma --------------------------------
(***************************************************************************)
(* The simulator of mp4 (mp4/src/csma.cpp): N nodes share a channel in     *)
(* time slots.  A node counts its backoff down while nobody is ready, and  *)
(* is ready at 0; a ready node that is alone occupies the channel for L    *)
(* slots; ready nodes that are not alone collide and draw a new backoff    *)
(* from a larger range.  At M collisions a node drops its packet.          *)
(*                                                                         *)
(* Each action is one tick of the loop in toy_simulator().                 *)
(* transmitime_left is a local without an initial value that is assigned   *)
(* before it is read; it starts at 0 here.                                 *)
(***************************************************************************)
EXTENDS Integers, Sequences

CONSTANTS
    Inputs,         \* the contents input.txt may have, [N, L, M, Rarray]
    T               \* the number of ticks

\* What the program needs of its input: a backoff range for every count of
\* collisions below M, and frames of at least one slot.
ASSUME CsmaAssumption ==
    /\ T \in Nat
    /\ \A in \in Inputs :
        /\ in.N \in Nat \ {0} /\ in.L \in Nat \ {0} /\ in.M \in Nat \ {0}
        /\ in.Rarray \in Seq(Nat \ {0})
        /\ in.M <= Len(in.Rarray)

VARIABLES
    input,
    tick,
    collisions, backoff,    \* the fields of NodeArray, by node_id
    channelOccupied,
    transmitime_left,
    cur_node_id,
    slots_num,
    attempts        \* history: the collisions of the packet each node has now

nodeVars == <<collisions, backoff>>
channelVars == <<channelOccupied, transmitime_left, cur_node_id, slots_num>>
vars == <<input, tick, nodeVars, channelVars, attempts>>

Nodes == 0..(input.N - 1)

\* The backoff set_backoff() gives node n after c collisions at time t.
set_backoff(n, c, t) == (t + n) % input.Rarray[c + 1]

Ready == {n \in Nodes : backoff[n] = 0}

Init ==
    /\ input \in Inputs
    /\ tick = 0
    /\ collisions = [n \in Nodes |-> 0]
    /\ backoff = [n \in Nodes |-> set_backoff(n, 0, 0)]
    /\ channelOccupied = 0
    /\ transmitime_left = 0
    /\ cur_node_id = 0
    /\ slots_num = 0
    /\ attempts = [n \in Nodes |-> 0]

----------------------------------------------------------------------------
Tick(occupied) ==
    /\ tick < T
    /\ tick' = tick + 1
    /\ channelOccupied = occupied
    /\ UNCHANGED input

\* Nobody is ready.
CountDown ==
    /\ Tick(0)
    /\ Ready = {}
    /\ backoff' = [n \in Nodes |-> backoff[n] - 1]
    /\ UNCHANGED <<collisions, channelVars, attempts>>

\* Mutant: a ready node does not look for another one.
Alone_NoCarrierSense == Ready

\* The node that is ready when no other is.
Alone == {n \in Ready : Ready = {n}}

\* Mutant: the last slot of a frame is not counted.
UseSlot_LastNotCounted(left) ==
    /\ transmitime_left' = left
    /\ slots_num' = IF left = 0 THEN slots_num ELSE slots_num + 1

\* One slot of a frame of which `left` slots remain.
UseSlot(left) ==
    /\ transmitime_left' = left
    /\ slots_num' = slots_num + 1

\* Mutant: the backoff is drawn for the collisions before they are reset.
GiveBack_OldRange(n, c) ==
    /\ channelOccupied' = 0
    /\ backoff' = [backoff EXCEPT ![n] = set_backoff(n, collisions[n], tick + 1)]
    /\ attempts' = [attempts EXCEPT ![n] = 0]

\* Node n has had its frame, with c collisions left over: it draws a backoff.
GiveBack(n, c) ==
    /\ channelOccupied' = 0
    /\ backoff' = [backoff EXCEPT ![n] = set_backoff(n, c, tick + 1)]
    /\ attempts' = [attempts EXCEPT ![n] = 0]

\* One node is ready: it takes the channel, and when a frame is one slot long it
\* gives it back at once, but with its old collisions.
Transmit ==
    /\ Tick(0)
    /\ cur_node_id' \in Alone
    /\ UseSlot(input.L - 1)
    /\ IF input.L = 1 THEN GiveBack(cur_node_id', collisions[cur_node_id'])
       ELSE channelOccupied' = 1 /\ UNCHANGED <<backoff, attempts>>
    /\ UNCHANGED collisions

\* Mutant: a packet is never dropped.
Counted_NeverDrops(count) == count + 1

\* A count of collisions after one more; at M the packet is dropped.
Counted(count) == IF count + 1 = input.M THEN 0 ELSE count + 1

\* Several nodes are ready: all of them collide.
Collide ==
    /\ Tick(0)
    /\ \E m, n \in Ready : m # n
    /\ collisions' = [n \in Nodes |-> IF n \in Ready THEN Counted(collisions[n])
                                                    ELSE collisions[n]]
    /\ backoff' = [n \in Nodes |-> IF n \in Ready
                                   THEN set_backoff(n, collisions'[n], tick + 1)
                                   ELSE backoff[n]]
    /\ attempts' = [n \in Nodes |->
            IF n \in Ready
            THEN IF collisions'[n] = 0 THEN 0 ELSE attempts[n] + 1
            ELSE attempts[n]]
    /\ UNCHANGED channelVars

\* The channel is occupied by a frame that goes on.
Occupied ==
    /\ Tick(1)
    /\ transmitime_left # 1
    /\ UseSlot(transmitime_left - 1)
    /\ UNCHANGED <<nodeVars, channelOccupied, cur_node_id, attempts>>

\* Mutant: the end of a frame does not reset the collisions.
AfterFrame_KeepsCollisions == collisions

\* The collisions once the frame on the channel is over.
AfterFrame == [collisions EXCEPT ![cur_node_id] = 0]

\* The last slot of a frame.
EndFrame ==
    /\ Tick(1)
    /\ transmitime_left = 1
    /\ UseSlot(0)
    /\ collisions' = AfterFrame
    /\ GiveBack(cur_node_id, collisions'[cur_node_id])
    /\ UNCHANGED cur_node_id

\* The T ticks are over.
Finished == tick = T /\ UNCHANGED vars

Next ==
    \/ CountDown
    \/ Transmit
    \/ Collide
    \/ Occupied
    \/ EndFrame
    \/ Finished

Spec == Init /\ [][Next]_vars

----------------------------------------------------------------------------
TypeOK ==
    /\ input \in Inputs
    /\ tick \in 0..T
    /\ collisions \in [Nodes -> 0..(input.M - 1)]
    /\ backoff \in [Nodes -> Nat]
    /\ channelOccupied \in {0, 1}
    /\ transmitime_left \in 0..(input.L - 1)
    /\ cur_node_id \in Nodes
    /\ slots_num \in 0..tick
    /\ attempts \in [Nodes -> Nat]

\* A node waits for less than the range its present collisions give it: it is
\* neither past 0, where it would never be ready again, nor held back by the
\* collisions of an earlier packet.
BackoffInRange ==
    \A n \in Nodes : backoff[n] \in 0..(input.Rarray[collisions[n] + 1] - 1)

\* While the channel is occupied its owner alone is ready: nobody else has
\* counted down, or collided, behind the frame.
SoleTransmitter == channelOccupied = 1 => Ready = {cur_node_id}

\* slots_num, of which the utilization is computed, is made of whole frames of L
\* slots and the slots so far of the frame on the channel.
SlotsAreFrames ==
    slots_num % input.L = IF channelOccupied = 1 THEN input.L - transmitime_left ELSE 0

\* A node drops its packet no later than at the M-th collision of that packet,
\* and no earlier either unless frames are one slot long.
DroppedInTime ==
    \A n \in Nodes :
        /\ attempts[n] <= collisions[n]
        /\ input.L > 1 => attempts[n] = collisions[n]

\* "When a node's collision count reaches a maximum value of M, the node gives up
\* and drops this packet": the count is of this packet's collisions.
CountsThisPacket == \A n \in Nodes : collisions[n] = attempts[n]

----------------------------------------------------------------------------
\* The channel is occupied exactly while slots of a frame remain.
OccupiedForFrame == channelOccupied = IF transmitime_left = 0 THEN 0 ELSE 1

\* The inductive invariant behind the properties above.
IInv ==
    /\ TypeOK
    /\ OccupiedForFrame
    /\ BackoffInRange
    /\ SoleTransmitter
    /\ SlotsAreFrames
    /\ DroppedInTime

============================================================================
