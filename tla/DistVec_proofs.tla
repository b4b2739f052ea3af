--------------------------- MODULE DistVec_proofs ---------------------------
(***************************************************************************)
(* The rows of the distance-vector program never rise and never lead in a  *)
(* circle while they are computed in place; as many rounds as there are    *)
(* nodes are enough, and the rows are then the least costs, with the       *)
(* smallest next hop among equal ones; a message pays what was announced.  *)
(* All for every number of nodes, every topology and every list of         *)
(* changes.                                                                *)
(*                                                                         *)
(* The theorems about routes assume that no file names node MAX_NODE,      *)
(* whose row and column of the cost matrix are not initialized.            *)
(***************************************************************************)
EXTENDS DistVec, Routing_proofs

----------------------------------------------------------------------------
\* The nodes are natural numbers, and so many that they can be counted.
LEMMA NodeFacts ==
    ASSUME iter_node \subseteq Ids
    PROVE  /\ iter_node \subseteq Nat
           /\ noend_num \in Nat
           /\ iter_node # {} => noend_num >= 1
<1>1. Ids \subseteq Nat /\ IsFiniteSet(Ids)
  BY RoutingAssumption, FS_Interval DEF Ids
<1>2. IsFiniteSet(iter_node)
  BY <1>1, FS_Subset
<1>3. noend_num \in Nat /\ (noend_num = 0 <=> iter_node = {})
  BY <1>2, FS_CardinalityType, FS_EmptySet DEF noend_num
<1>4. \A n \in Nat : n # 0 => n >= 1
  OBVIOUS
<1>5. QED
  BY <1>1, <1>3, <1>4

Entries == [first : iter_node, second : CostOrNone]

\* The lowest cost that neighbours of a offer for the way to b, and the one with the
\* smallest number of those that offer it.
Best(a, b) == Min({Offered(a, b, c) : c \in Via(a, b)})

BestHop(a, b) == Min({c \in Via(a, b) : Offered(a, b, c) = Best(a, b)})

LEMMA BestFacts ==
    ASSUME p \in [Ids \X Ids -> CostOrNone], iter_node \subseteq Ids,
           table \in [iter_node \X iter_node -> Entries],
           NEW a \in iter_node, NEW b \in iter_node, Via(a, b) # {}
    PROVE  /\ Best(a, b) \in Nat
           /\ \A c \in Via(a, b) : Offered(a, b, c) \in Nat /\ Best(a, b) <= Offered(a, b, c)
           /\ BestHop(a, b) \in Via(a, b)
           /\ Offered(a, b, BestHop(a, b)) = Best(a, b)
           /\ \A c \in Via(a, b) : Offered(a, b, c) = Best(a, b) => BestHop(a, b) <= c
           /\ Updated(a, b) =
                IF table[<<a, b>>].second # 0
                   /\ Improves(table[<<a, b>>], Best(a, b), BestHop(a, b))
                THEN [first |-> BestHop(a, b), second |-> Best(a, b)]
                ELSE table[<<a, b>>]
<1> DEFINE Costing == {Offered(a, b, c) : c \in Via(a, b)}
           Offering == {c \in Via(a, b) : Offered(a, b, c) = Best(a, b)}
<1>1. \A c \in Via(a, b) : Offered(a, b, c) \in Nat
  <2>1. \A c \in Via(a, b) : p[<<a, c>>] \in Nat /\ table[<<c, b>>].second \in Nat
    BY CostFacts DEF Via, Entries
  <2>2. \A x, y \in Nat : x + y \in Nat
    OBVIOUS
  <2>3. QED
    BY <2>1, <2>2 DEF Offered
<1>2. Best(a, b) \in Costing /\ \A x \in Costing : Best(a, b) <= x
  <2>1. Costing \in SUBSET Nat /\ Costing # {}
    BY <1>1
  <2>2. QED
    BY <2>1, MinOfNaturals DEF Best
<1>3. PICK c0 \in Via(a, b) : Best(a, b) = Offered(a, b, c0)
  BY <1>2
<1>4. BestHop(a, b) \in Offering /\ \A c \in Offering : BestHop(a, b) <= c
  <2>1. Offering \in SUBSET Nat /\ Offering # {}
    BY <1>3, NodeFacts DEF Via
  <2>2. QED
    BY <2>1, MinOfNaturals DEF BestHop
<1>5. Updated(a, b) =
        IF table[<<a, b>>].second # 0 /\ Improves(table[<<a, b>>], Best(a, b), BestHop(a, b))
        THEN [first |-> BestHop(a, b), second |-> Best(a, b)]
        ELSE table[<<a, b>>]
  BY Zenon DEF Updated, Entry, Best, BestHop
<1>6. QED
  BY <1>1, <1>2, <1>3, <1>4, <1>5

\* What a turn makes of an entry: nothing, or the offer of a neighbour, which is
\* not higher than the cost that was there.
LEMMA UpdatedEntry ==
    ASSUME p \in [Ids \X Ids -> CostOrNone], iter_node \subseteq Ids,
           table \in [iter_node \X iter_node -> Entries],
           NEW a \in iter_node, NEW b \in iter_node
    PROVE  \/ Updated(a, b) = table[<<a, b>>]
           \/ \E c \in Via(a, b) :
                /\ Updated(a, b).first = c
                /\ Updated(a, b).second = Offered(a, b, c)
                /\ Updated(a, b) \in Entries
                /\ Updated(a, b).second \in Nat
                /\ table[<<a, b>>].second # 0
                /\ table[<<a, b>>].second >= 0 => Updated(a, b).second <= table[<<a, b>>].second
<1> DEFINE old == table[<<a, b>>]
           best == Best(a, b)
           hop == BestHop(a, b)
<1>1. old \in Entries /\ old.second \in Int
  BY CostFacts DEF Entries
<1>2. CASE Via(a, b) = {}
  BY <1>2 DEF Updated
<1>3. CASE Via(a, b) # {}
  <2>1. /\ best \in Nat /\ hop \in Via(a, b) /\ Offered(a, b, hop) = best /\ hop \in iter_node
        /\ Updated(a, b) = IF old.second # 0 /\ Improves(old, best, hop)
                           THEN [first |-> hop, second |-> best] ELSE old
    BY <1>3, BestFacts DEF Via
  <2> HIDE DEF old, best, hop
  <2>2. CASE old.second # 0 /\ Improves(old, best, hop)
    <3>1. Updated(a, b).first = hop /\ Updated(a, b).second = best /\ Updated(a, b) \in Entries
      BY <2>1, <2>2 DEF Entries, CostOrNone
    <3>2. old.second >= 0 => best <= old.second
      BY <1>1, <2>1, <2>2 DEF Improves
    <3>3. QED
      BY <2>1, <2>2, <3>1, <3>2 DEF old
  <2>3. CASE ~ (old.second # 0 /\ Improves(old, best, hop))
    BY <2>1, <2>3 DEF old
  <2>4. QED
    BY <2>2, <2>3
<1>4. QED
  BY <1>2, <1>3

\* So the entry is no worse than any offer.
LEMMA UpdatedLowest ==
    ASSUME p \in [Ids \X Ids -> CostOrNone], iter_node \subseteq Ids,
           table \in [iter_node \X iter_node -> Entries],
           NEW a \in iter_node, NEW b \in iter_node, NEW c \in Via(a, b)
    PROVE  Updated(a, b).second \in 0..Offered(a, b, c)
<1> DEFINE old == table[<<a, b>>]
           best == Best(a, b)
           hop == BestHop(a, b)
           offer == Offered(a, b, c)
<1>1. /\ best \in Nat /\ offer \in Nat /\ best <= offer
      /\ Updated(a, b) = IF old.second # 0 /\ Improves(old, best, hop)
                         THEN [first |-> hop, second |-> best] ELSE old
  BY BestFacts
<1>2. old.second \in Int
  BY CostFacts DEF Entries
<1> HIDE DEF old, best, hop, offer
<1>3. CASE old.second # 0 /\ Improves(old, best, hop)
  <2>1. Updated(a, b).second = best
    BY <1>1, <1>3
  <2>2. best \in 0..offer
    BY <1>1
  <2>3. QED
    BY <2>1, <2>2 DEF offer
<1>4. CASE ~ (old.second # 0 /\ Improves(old, best, hop))
  <2>1. Updated(a, b) = old
    BY <1>1, <1>4
  <2>2. old.second = 0 \/ (~ (old.second < 0) /\ ~ (best < old.second))
    BY <1>4 DEF Improves
  <2>3. old.second \in 0..offer
    BY <1>1, <1>2, <2>2
  <2>4. QED
    BY <2>1, <2>3 DEF offer
<1>5. QED
  BY <1>3, <1>4

----------------------------------------------------------------------------
\* The type invariant is not inductive alone: a forwarded message is at a node
\* whose table is asked next.
TypeInv ==
    /\ TypeOK
    /\ phase # "reading" => iter_node # {}
    /\ phase = "forwarding" => msg.at \in iter_node /\ msg.to \in iter_node

TableType == table \in [iter_node \X iter_node -> Entries]

LEMMA TypeFacts ==
    ASSUME TypeOK
    PROVE  /\ p \in [Ids \X Ids -> CostOrNone]
           /\ links \in [Ids \X Ids -> CostOrNone]
           /\ iter_node \subseteq Ids
           /\ phase # "reading" => TableType
  BY DEF TypeOK, RoutingTypeOK, TableType, Entries, CostOrNone

\* dv_method() starts the rows, the rounds and the turns.
LEMMA RowsStarted ==
    ASSUME p' \in [Ids \X Ids -> CostOrNone], iter_node \subseteq Ids,
           iter_node # {}, UNCHANGED iter_node, dv_method
    PROVE  /\ table' \in [iter_node \X iter_node -> Entries]
           /\ round' \in 1..noend_num
           /\ turn' \in iter_node
<1>1. \A e \in iter_node \X iter_node : [first |-> e[2], second |-> p'[e]] \in Entries
  BY DEF Entries
<1>2. table' \in [iter_node \X iter_node -> Entries]
  BY <1>1 DEF dv_method
<1>3. round' \in 1..noend_num
  <2>1. round' = 1 /\ noend_num \in Nat /\ noend_num >= 1
    BY NodeFacts DEF dv_method
  <2>2. QED
    BY <2>1
<1>4. turn' \in iter_node
  <2>1. iter_node \in SUBSET Nat
    BY NodeFacts
  <2>2. QED
    BY <2>1, MinOfNaturals DEF dv_method
<1>5. QED
  BY <1>2, <1>3, <1>4

LEMMA InitTypes == Init => TypeInv
<1> SUFFICES ASSUME Init PROVE TypeInv
  OBVIOUS
<1>1. 0 \in CostOrNone /\ VAL_INF \in CostOrNone
  BY DEF CostOrNone
<1>2. p \in [Ids \X Ids -> CostOrNone] /\ links \in [Ids \X Ids -> CostOrNone]
  BY <1>1 DEF Init, RoutingInit, init_top
<1>3. msg \in [at : iter_node \cup {0}, to : iter_node \cup {0}, cost : Nat, paid : Int]
  BY DEF Init, RoutingInit, NoMessage
<1>4. QED
  BY <1>2, <1>3 DEF Init, RoutingInit, TypeInv, TypeOK, RoutingTypeOK, CostOrNone

LEMMA NextTypes == TypeInv /\ [Next]_vars => TypeInv'
<1> SUFFICES ASSUME TypeInv, [Next]_vars PROVE TypeInv'
  OBVIOUS
<1>0. /\ p \in [Ids \X Ids -> CostOrNone]
      /\ links \in [Ids \X Ids -> CostOrNone]
      /\ iter_node \subseteq Ids
      /\ phase # "reading" => TableType
  BY TypeFacts DEF TypeInv
<1>1. CASE ReadLine
  <2>1. PICK e \in Pairs, cost \in Costs :
            /\ iter_node' = iter_node \cup {e[1], e[2]}
            /\ p' = Connected(p, e, cost)
            /\ links' = Connected(links, e, cost)
    BY <1>1 DEF ReadLine, read_top
  <2>2. cost \in Costs \cup {VAL_INF}
    OBVIOUS
  <2>3. p' \in [Ids \X Ids -> CostOrNone] /\ links' \in [Ids \X Ids -> CostOrNone]
    BY <1>0, <2>1, <2>2, ConnectedMatrix
  <2>4. iter_node' \subseteq Ids
    BY <1>0, <2>1, CostFacts
  <2>5. phase' = "reading" /\ phase = "reading" /\ UNCHANGED msg
    BY <1>1 DEF ReadLine, read_top
  <2>6. msg' \in [at : iter_node' \cup {0}, to : iter_node' \cup {0}, cost : Nat, paid : Int]
    BY <2>1, <2>5 DEF TypeInv, TypeOK, RoutingTypeOK
  <2>7. QED
    BY <2>3, <2>4, <2>5, <2>6 DEF TypeInv, TypeOK, RoutingTypeOK, CostOrNone
<1>2. CASE ReadEnd
  <2>1. /\ UNCHANGED <<p, iter_node, msg, links>> /\ iter_node # {}
        /\ phase' = "computing" /\ dv_method
    BY <1>2 DEF ReadEnd
  <2>2. /\ table' \in [iter_node \X iter_node -> Entries]
        /\ round' \in 1..noend_num
        /\ turn' \in iter_node
    BY <1>0, <2>1, RowsStarted
  <2>3. noend_num' = noend_num
    BY <2>1 DEF noend_num
  <2>4. QED
    BY <2>1, <2>2, <2>3 DEF TypeInv, TypeOK, RoutingTypeOK, Entries, CostOrNone
<1>3. CASE Change
  <2>1. PICK e \in Pairs, cost \in Costs \cup {VAL_INF} :
            /\ p' = Connected(p, e, cost)
            /\ links' = Connected(links, e, cost)
    BY <1>3 DEF Change, change_top, Changed
  <2>2. /\ phase' = "computing" /\ phase = "sending"
        /\ UNCHANGED <<iter_node, msg>> /\ dv_method /\ iter_node # {}
    BY <1>3 DEF Change, change_top, TypeInv
  <2>3. p' \in [Ids \X Ids -> CostOrNone] /\ links' \in [Ids \X Ids -> CostOrNone]
    BY <1>0, <2>1, ConnectedMatrix
  <2>4. /\ table' \in [iter_node \X iter_node -> Entries]
        /\ round' \in 1..noend_num
        /\ turn' \in iter_node
    BY <1>0, <2>2, <2>3, RowsStarted
  <2>5. noend_num' = noend_num
    BY <2>2 DEF noend_num
  <2>6. QED
    BY <2>2, <2>3, <2>4, <2>5 DEF TypeInv, TypeOK, RoutingTypeOK, Entries, CostOrNone
<1>4. CASE Turn
  <2>1. /\ phase = "computing" /\ UNCHANGED <<p, iter_node, msg, links>>
        /\ phase' \in {"computing", "sending"}
        /\ table' = [e \in iter_node \X iter_node |->
                        IF e[1] = turn THEN Updated(turn, e[2]) ELSE table[e]]
    BY <1>4 DEF Turn, dvVars
  <2>2. iter_node # {} /\ turn \in iter_node /\ round \in 1..noend_num /\ noend_num \in Nat
    BY <1>0, <2>1, NodeFacts DEF TypeInv, TypeOK
  <2>3. table \in [iter_node \X iter_node -> Entries]
    BY <1>0, <2>1 DEF TableType
  <2>4. \A e \in iter_node \X iter_node :
            (IF e[1] = turn THEN Updated(turn, e[2]) ELSE table[e]) \in Entries
    <3>1. \A b \in iter_node : Updated(turn, b) \in Entries
      <4>1. TAKE b \in iter_node
      <4>2. table[<<turn, b>>] \in Entries
        BY <2>2, <2>3
      <4>3. QED
        BY <1>0, <2>2, <2>3, <4>2, UpdatedEntry
    <3>2. \A e \in iter_node \X iter_node : e[2] \in iter_node /\ table[e] \in Entries
      BY <2>3
    <3>3. QED
      BY <3>1, <3>2
  <2>5. table' \in [iter_node \X iter_node -> Entries]
    BY <2>1, <2>4
  <2>6. turn' \in iter_node
    <3>1. Later \in SUBSET Nat /\ iter_node \in SUBSET Nat /\ Later \subseteq iter_node
      BY <1>0, NodeFacts DEF Later
    <3>2. Later # {} => Min(Later) \in iter_node
      BY <3>1, MinOfNaturals
    <3>3. Min(iter_node) \in iter_node
      BY <2>2, <3>1, MinOfNaturals
    <3>4. turn' \in {turn, Min(iter_node)} \/ (Later # {} /\ turn' = Min(Later))
      BY <1>4 DEF Turn, dvVars
    <3>5. QED
      BY <2>2, <3>2, <3>3, <3>4
  <2>7. round' \in 1..noend_num
    <3>1. round' = round \/ (round < noend_num /\ round' = round + 1)
      BY <1>4 DEF Turn, dvVars
    <3>2. QED
      BY <2>2, <3>1
  <2>8. noend_num' = noend_num
    BY <2>1 DEF noend_num
  <2>9. QED
    BY <2>1, <2>2, <2>5, <2>6, <2>7, <2>8 DEF TypeInv, TypeOK, RoutingTypeOK, Entries, CostOrNone
<1>5. CASE SendMessages
  <2>1. /\ UNCHANGED <<p, iter_node, table, links, round, turn>>
        /\ phase # "reading" /\ phase' \in {"sending", "forwarding"}
    BY <1>5 DEF SendMessages, Send, Forward, Deliver, dvVars
  <2>2. noend_num' = noend_num
    BY <2>1 DEF noend_num
  <2>3. /\ msg' \in [at : iter_node \cup {0}, to : iter_node \cup {0}, cost : Nat, paid : Int]
        /\ phase' = "forwarding" => msg'.at \in iter_node /\ msg'.to \in iter_node
    <3>1. CASE Send
      <4>1. PICK s \in iter_node, e \in iter_node :
                /\ table[<<s, e>>].second > 0
                /\ msg' = [at |-> s, to |-> e, cost |-> table[<<s, e>>].second, paid |-> 0]
        BY <3>1 DEF Send
      <4>2. table[<<s, e>>].second \in CostOrNone
        BY <1>0, <2>1 DEF TableType, Entries
      <4>3. table[<<s, e>>].second \in Nat
        <5>1. \A x \in CostOrNone : x > 0 => x \in Nat
          BY DEF CostOrNone, VAL_INF
        <5>2. QED
          BY <4>1, <4>2, <5>1
      <4>4. 0 \in Int
        OBVIOUS
      <4>5. /\ msg'.at = s /\ msg'.to = e
            /\ msg' \in [at : iter_node, to : iter_node, cost : Nat, paid : Int]
        BY <4>1, <4>3, <4>4
      <4>6. QED
        BY <4>5
    <3>2. CASE Forward
      <4> DEFINE next == table[<<msg.at, msg.to>>].first
      <4>1. msg.at \in iter_node /\ msg.to \in iter_node
        BY <3>2 DEF Forward, TypeInv
      <4>2. next \in iter_node
        BY <1>0, <2>1, <4>1 DEF TableType, Entries
      <4>3. msg.paid \in Int /\ links[<<msg.at, next>>] \in Int /\ INF \in Int
        <5>1. links[<<msg.at, next>>] \in CostOrNone /\ CostOrNone \subseteq Int
          BY <1>0, <4>1, <4>2, CostFacts
        <5>2. msg.paid \in Int
          BY DEF TypeInv, TypeOK, RoutingTypeOK
        <5>3. INF \in Int
          BY RoutingAssumption
        <5>4. QED
          BY <5>1, <5>2, <5>3
      <4>4. Min({INF, msg.paid + links[<<msg.at, next>>]}) \in Int
        <5>1. msg.paid + links[<<msg.at, next>>] \in Int
          <6>1. \A x, y \in Int : x + y \in Int
            OBVIOUS
          <6>2. QED
            BY <4>3, <6>1
        <5>2. QED
          BY <4>3, <5>1, MinOfTwo
      <4>5. msg' = [msg EXCEPT !.at = next, !.paid = Min({INF, msg.paid + links[<<msg.at, next>>]})]
        BY <3>2 DEF Forward
      <4> HIDE DEF next
      <4>6. QED
        BY <4>1, <4>2, <4>4, <4>5 DEF TypeInv, TypeOK, RoutingTypeOK
    <3>3. CASE Deliver
      BY <3>3 DEF Deliver, NoMessage
    <3>4. QED
      BY <1>5, <3>1, <3>2, <3>3 DEF SendMessages
  <2>4. QED
    BY <2>1, <2>2, <2>3 DEF TypeInv, TypeOK, RoutingTypeOK
<1>6. CASE UNCHANGED vars
  BY <1>6 DEF vars, routingVars, dvVars, TypeInv, TypeOK, RoutingTypeOK, noend_num
<1>7. QED
  BY <1>1, <1>2, <1>3, <1>4, <1>5, <1>6 DEF Next

\* The matrices, the rows, the rounds and the messages have their types.
THEOREM TypeCorrectness == Spec => []TypeOK
<1>1. TypeInv => TypeOK
  BY DEF TypeInv
<1>2. QED
  BY InitTypes, NextTypes, <1>1, PTL DEF Spec

----------------------------------------------------------------------------
\* Every step keeps both matrices so.
LEMMA MatrixKept ==
    ASSUME LastUnused, TypeInv, MatrixInv, LinksOK, [Next]_vars
    PROVE  MatrixInv' /\ LinksOK'
<1>0. p \in [Ids \X Ids -> CostOrNone] /\ links \in [Ids \X Ids -> CostOrNone]
  BY TypeFacts DEF TypeInv
<1>1. CASE ReadLine
  <2>1. PICK e \in Pairs, cost \in Costs :
            /\ iter_node' = iter_node \cup {e[1], e[2]}
            /\ p' = Connected(p, e, cost)
            /\ links' = Connected(links, e, cost)
    BY <1>1 DEF ReadLine, read_top
  <2>2. cost \in Costs \cup {VAL_INF}
    OBVIOUS
  <2>3. QED
    BY <1>0, <2>1, <2>2, LineKeepsMatrix, LineKeepsLinks
<1>2. CASE Change
  <2>1. PICK e \in Pairs, cost \in Costs \cup {VAL_INF} :
            /\ p' = Connected(p, e, cost)
            /\ links' = Connected(links, e, cost)
    BY <1>2 DEF Change, change_top, Changed
  <2>2. iter_node' \subseteq iter_node \cup {e[1], e[2]}
    BY <1>2 DEF Change, change_top
  <2>3. QED
    BY <1>0, <2>1, <2>2, LineKeepsMatrix, LineKeepsLinks
<1>3. ASSUME UNCHANGED <<p, links, iter_node>> PROVE MatrixInv' /\ LinksOK'
  BY <1>3 DEF MatrixInv, LinksOK, Ids, CostOrNone, VAL_INF
<1>4. QED
  BY <1>1, <1>2, <1>3 DEF Next, ReadEnd, Turn, SendMessages, Send, Forward, Deliver,
                          vars, routingVars

\* The rest of the way, from the next hop of s, is shorter than from s.
Descends(s, e) ==
    LET hop == table[<<s, e>>].first IN
    /\ links[<<s, hop>>] > 0
    /\ table[<<hop, e>>].second \in 0..(table[<<s, e>>].second - links[<<s, hop>>])

RowsDescend ==
    /\ \A e \in iter_node : table[<<e, e>>].second = 0
    /\ \A s, e \in iter_node : s # e /\ table[<<s, e>>].second >= 0 => Descends(s, e)

LEMMA StartDescends ==
    ASSUME iter_node \subseteq Ids, UNCHANGED iter_node, dv_method, MatrixInv',
           links' \in [Ids \X Ids -> CostOrNone]
    PROVE  RowsDescend'
<1>1. /\ iter_node' = iter_node
      /\ \A s, e \in iter_node : /\ table'[<<s, e>>] = [first |-> e, second |-> p'[<<s, e>>]]
                                 /\ p'[<<s, e>>] = links'[<<s, e>>]
  BY DEF dv_method, MatrixInv
<1>2. \A s, e \in iter_node :
        /\ table'[<<s, e>>].first = e /\ table'[<<s, e>>].second = links'[<<s, e>>]
        /\ links'[<<e, e>>] = 0
        /\ links'[<<s, e>>] \in CostOrNone
        /\ s # e => links'[<<s, e>>] # 0
  <2>1. TAKE s \in iter_node, e \in iter_node
  <2>2. s \in Ids /\ e \in Ids
    OBVIOUS
  <2>3. links'[<<e, e>>] = 0 /\ (s # e => links'[<<s, e>>] # 0)
    BY <2>2 DEF MatrixInv, Ids
  <2>4. links'[<<s, e>>] \in CostOrNone
    BY <2>2
  <2>5. /\ table'[<<s, e>>] = [first |-> e, second |-> p'[<<s, e>>]]
        /\ p'[<<s, e>>] = links'[<<s, e>>]
    BY <1>1
  <2>6. table'[<<s, e>>].first = e /\ table'[<<s, e>>].second = links'[<<s, e>>]
    BY <2>5
  <2>7. QED
    BY <2>3, <2>4, <2>6
<1>3. \A e \in iter_node' : table'[<<e, e>>].second = 0
  BY <1>1, <1>2
<1>4. ASSUME NEW s \in iter_node, NEW e \in iter_node, s # e, table'[<<s, e>>].second >= 0
      PROVE  Descends(s, e)'
  <2> DEFINE cost == links'[<<s, e>>]
  <2>1. /\ table'[<<s, e>>].first = e /\ table'[<<s, e>>].second = cost
        /\ table'[<<e, e>>].second = 0 /\ cost \in CostOrNone /\ cost # 0 /\ cost >= 0
    BY <1>2, <1>4
  <2> HIDE DEF cost
  <2>2. cost \in Nat
    BY <2>1, CostFacts
  <2>3. cost > 0 /\ 0 \in 0..(cost - cost)
    BY <2>1, <2>2
  <2>4. QED
    BY <2>1, <2>3 DEF Descends, cost
<1>5. QED
  BY <1>1, <1>3, <1>4 DEF RowsDescend

\* A turn lowers entries of one row only, to what neighbours have in rows that it
\* leaves as they are.
LEMMA TurnDescends ==
    ASSUME TypeInv, MatrixInv, RowsDescend, Turn
    PROVE  RowsDescend'
<1>1. /\ p \in [Ids \X Ids -> CostOrNone] /\ links \in [Ids \X Ids -> CostOrNone]
      /\ iter_node \subseteq Ids /\ iter_node \subseteq Ids \ {MAX_NODE}
      /\ table \in [iter_node \X iter_node -> Entries]
      /\ turn \in iter_node
      /\ iter_node' = iter_node /\ links' = links
      /\ table' = [e \in iter_node \X iter_node |->
                      IF e[1] = turn THEN Updated(turn, e[2]) ELSE table[e]]
  BY TypeFacts DEF Turn, TypeInv, TypeOK, TableType, MatrixInv
<1>2. \A s, e \in iter_node :
        table'[<<s, e>>] = IF s = turn THEN Updated(turn, e) ELSE table[<<s, e>>]
  BY <1>1
<1>3. \A s, e \in iter_node :
        /\ table[<<s, e>>].first \in iter_node
        /\ table[<<s, e>>].second \in CostOrNone
        /\ table[<<s, e>>].second \in Int
        /\ links[<<s, e>>] \in CostOrNone
        /\ links[<<s, e>>] \in Int
  <2>1. TAKE s \in iter_node, e \in iter_node
  <2>2. table[<<s, e>>] \in Entries
    BY <1>1
  <2>3. table[<<s, e>>].first \in iter_node /\ table[<<s, e>>].second \in CostOrNone
    BY <2>2 DEF Entries
  <2>4. links[<<s, e>>] \in CostOrNone
    BY <1>1
  <2>5. QED
    BY <2>3, <2>4, CostFacts
\* What is there already is not raised.
<1>4. \A s, e \in iter_node :
        table[<<s, e>>].second \in Nat =>
            /\ table'[<<s, e>>].second \in Nat
            /\ table'[<<s, e>>].second <= table[<<s, e>>].second
  <2>1. TAKE s \in iter_node, e \in iter_node
  <2>2. HAVE table[<<s, e>>].second \in Nat
  <2>3. \A x \in Nat : x <= x /\ x >= 0
    OBVIOUS
  <2>4. CASE table'[<<s, e>>] = table[<<s, e>>]
    BY <2>2, <2>3, <2>4
  <2>5. CASE table'[<<s, e>>] # table[<<s, e>>]
    <3>1. s = turn /\ table'[<<s, e>>] = Updated(s, e) /\ Updated(s, e) # table[<<s, e>>]
      BY <1>2, <2>5
    <3>2. PICK c \in Via(s, e) :
            /\ Updated(s, e).second \in Nat
            /\ table[<<s, e>>].second >= 0 => Updated(s, e).second <= table[<<s, e>>].second
      BY <1>1, <3>1, UpdatedEntry
    <3>3. QED
      BY <2>2, <2>3, <3>1, <3>2
  <2>6. QED
    BY <2>4, <2>5
<1>5. \A e \in iter_node : table'[<<e, e>>].second = 0
  <2>1. TAKE e \in iter_node
  <2>2. table[<<e, e>>].second = 0
    BY DEF RowsDescend
  <2>3. CASE e = turn
    <3>1. Updated(e, e) = table[<<e, e>>]
      BY <1>1, <2>2, UpdatedEntry
    <3>2. QED
      BY <1>2, <2>2, <2>3, <3>1
  <2>4. CASE e # turn
    BY <1>2, <2>2, <2>4
  <2>5. QED
    BY <2>3, <2>4
<1>6. ASSUME NEW s \in iter_node, NEW e \in iter_node, s # e, table'[<<s, e>>].second >= 0
      PROVE  Descends(s, e)'
  <2>1. CASE table'[<<s, e>>] = table[<<s, e>>]
    <3> DEFINE hop == table[<<s, e>>].first
               cost == table[<<s, e>>].second
               rest == table[<<hop, e>>].second
               link == links[<<s, hop>>]
    <3>1. Descends(s, e)
      BY <1>6, <2>1 DEF RowsDescend
    <3>2. hop \in iter_node /\ cost \in Int /\ link \in Int
      BY <1>3
    <3>3. link > 0 /\ rest \in 0..(cost - link)
      BY <3>1 DEF Descends
    <3>4. /\ table'[<<s, e>>].first = hop /\ table'[<<s, e>>].second = cost
          /\ links'[<<s, hop>>] = link
      BY <1>1, <2>1
    <3>5. rest \in Nat
      <4> HIDE DEF rest, cost, link
      <4>1. QED
        BY <3>2, <3>3
    <3> DEFINE after == table'[<<hop, e>>].second
    <3>6. after \in Nat /\ after <= rest
      BY <1>4, <3>2, <3>5
    <3> HIDE DEF hop, cost, rest, link, after
    <3>7. after \in 0..(cost - link)
      BY <3>2, <3>3, <3>5, <3>6
    <3>8. QED
      BY <3>3, <3>4, <3>7 DEF Descends, after
  <2>2. CASE table'[<<s, e>>] # table[<<s, e>>]
    <3>1. s = turn /\ table'[<<s, e>>] = Updated(s, e) /\ Updated(s, e) # table[<<s, e>>]
      BY <1>2, <2>2
    <3>2. PICK c \in Via(s, e) :
            /\ Updated(s, e).first = c
            /\ Updated(s, e).second = Offered(s, e, c)
      BY <1>1, <3>1, UpdatedEntry
    <3> DEFINE rest == table[<<c, e>>].second
               link == links[<<s, c>>]
    <3>3. /\ c \in iter_node /\ c # s /\ p[<<s, c>>] >= 0 /\ rest >= 0
          /\ Updated(s, e).second = p[<<s, c>>] + rest
      BY <3>2 DEF Via, Offered
    <3>4. p[<<s, c>>] = link /\ link # 0 /\ link \in Int /\ rest \in Int
      BY <1>1, <1>3, <3>3 DEF MatrixInv
    <3>5. table'[<<c, e>>] = table[<<c, e>>]
      BY <1>2, <3>1, <3>3
    <3>6. /\ table'[<<s, e>>].first = c
          /\ table'[<<s, e>>].second = link + rest
          /\ links'[<<s, c>>] = link
          /\ table'[<<c, e>>].second = rest
      BY <1>1, <3>1, <3>2, <3>3, <3>4, <3>5
    <3>7. link >= 0
      BY <3>3, <3>4
    <3> HIDE DEF rest, link
    <3>8. link > 0 /\ rest \in 0..((link + rest) - link)
      BY <3>3, <3>4, <3>7
    <3>9. QED
      BY <3>6, <3>8 DEF Descends
  <2>3. QED
    BY <2>1, <2>2
<1>7. QED
  BY <1>1, <1>5, <1>6 DEF RowsDescend

RouteInv ==
    /\ TypeInv
    /\ MatrixInv
    /\ LinksOK
    /\ phase # "reading" => RowsDescend

LEMMA InitRoutes == Init => RouteInv
<1> SUFFICES ASSUME Init PROVE RouteInv
  OBVIOUS
<1>1. MatrixInv /\ LinksOK
  BY MatrixStarts, LinksStart DEF Init
<1>2. QED
  BY <1>1, InitTypes DEF RouteInv, Init, RoutingInit

LEMMA NextRoutes == LastUnused /\ RouteInv /\ [Next]_vars => RouteInv'
<1> SUFFICES ASSUME LastUnused, RouteInv, [Next]_vars PROVE RouteInv'
  OBVIOUS
<1>1. TypeInv' /\ MatrixInv' /\ LinksOK'
  BY NextTypes, MatrixKept DEF RouteInv
<1>2. iter_node \subseteq Ids /\ links' \in [Ids \X Ids -> CostOrNone]
  <2>1. iter_node \subseteq Ids
    BY TypeFacts DEF RouteInv, TypeInv
  <2>2. links' \in [Ids \X Ids -> CostOrNone]
    BY <1>1 DEF TypeInv, TypeOK, RoutingTypeOK, CostOrNone, Ids
  <2>3. QED
    BY <2>1, <2>2
<1>3. phase' # "reading" => RowsDescend'
  <2>1. CASE ReadLine
    BY <2>1 DEF ReadLine, read_top
  <2>2. CASE ReadEnd \/ Change
    <3>1. UNCHANGED iter_node /\ dv_method
      BY <2>2 DEF ReadEnd, Change, change_top
    <3>2. QED
      BY <1>1, <1>2, <3>1, StartDescends
  <2>3. CASE Turn
    <3>1. phase # "reading"
      BY <2>3 DEF Turn
    <3>2. QED
      BY <2>3, <3>1, TurnDescends DEF RouteInv
  <2>4. ASSUME UNCHANGED <<table, links, iter_node>>, phase' # "reading" => phase # "reading"
        PROVE  phase' # "reading" => RowsDescend'
    BY <2>4 DEF RouteInv, RowsDescend, Descends
  <2>5. QED
    BY <2>1, <2>2, <2>3, <2>4 DEF Next, SendMessages, Send, Forward, Deliver, vars, routingVars
<1>4. QED
  BY <1>1, <1>3 DEF RouteInv

\* Whoever's turn it is, the next hop of an entry is a neighbour that accounts for
\* the rest of the cost, or for less.
THEOREM HopsAlwaysDescend ==
    ASSUME LastUnused
    PROVE  Spec => []HopsDescend
<1>1. RouteInv => HopsDescend
  BY DEF RouteInv, RowsDescend, Descends, HopsDescend
<1>2. RouteInv /\ [Next]_vars => RouteInv'
  BY NextRoutes
<1>3. QED
  BY InitRoutes, <1>1, <1>2, PTL DEF Spec

----------------------------------------------------------------------------
(***************************************************************************)
(* What the rounds reach.                                                  *)
(***************************************************************************)

\* The facts about the matrices and the rows that the next lemmas use.
RowsReady == phase # "reading" /\ RouteInv

LEMMA ReadyFacts ==
    ASSUME RowsReady
    PROVE  /\ p \in [Ids \X Ids -> CostOrNone]
           /\ table \in [iter_node \X iter_node -> Entries]
           /\ iter_node \subseteq Ids
           /\ IsMatrix(iter_node, links) /\ IsFree(iter_node, links)
           /\ IsWalk(iter_node, links, Walk)
           /\ IsFiniteSet(iter_node) /\ noend_num \in Nat /\ noend_num - 1 \in Nat
           /\ RowsDescend
           /\ \A s, e \in iter_node :
                /\ p[<<s, e>>] = links[<<s, e>>]
                /\ links[<<s, e>>] \in CostOrNone
                /\ table[<<s, e>>].first \in iter_node
                /\ table[<<s, e>>].second \in CostOrNone
                /\ \A n \in Nat : Walk[n][<<s, e>>] \in CostOrNone
<1>1. /\ p \in [Ids \X Ids -> CostOrNone] /\ iter_node \subseteq Ids /\ iter_node # {}
      /\ table \in [iter_node \X iter_node -> Entries]
      /\ RowsDescend /\ MatrixInv /\ LinksOK
  BY TypeFacts DEF RowsReady, RouteInv, TypeInv, TableType
<1>2. /\ IsMatrix(iter_node, links) /\ IsFree(iter_node, links) /\ IsFiniteSet(iter_node)
      /\ noend_num \in Nat /\ noend_num - 1 \in Nat
  BY <1>1, LinkFacts DEF noend_num
<1>3. IsWalk(iter_node, links, Walk)
  BY WalkEquation
<1>4. ASSUME NEW s \in iter_node, NEW e \in iter_node
      PROVE  /\ p[<<s, e>>] = links[<<s, e>>]
             /\ links[<<s, e>>] \in CostOrNone
             /\ table[<<s, e>>].first \in iter_node
             /\ table[<<s, e>>].second \in CostOrNone
             /\ \A n \in Nat : Walk[n][<<s, e>>] \in CostOrNone
  <2>1. table[<<s, e>>] \in Entries
    BY <1>1
  <2>2. p[<<s, e>>] = links[<<s, e>>] /\ links[<<s, e>>] \in CostOrNone
    BY <1>1, <1>2 DEF MatrixInv, IsMatrix
  <2>3. \A n \in Nat : Walk[n][<<s, e>>] \in CostOrNone
    BY <1>2, <1>3, WalkSteps
  <2>4. QED
    BY <2>1, <2>2, <2>3 DEF Entries
<1>5. QED
  BY <1>1, <1>2, <1>3, <1>4

\* A row never has a cost below the least.
LEMMA NeverBelow ==
    ASSUME RowsReady, NEW s \in iter_node, NEW e \in iter_node
    PROVE  NoWorse(Least[<<s, e>>], table[<<s, e>>].second)
<1> DEFINE r == [c \in iter_node |-> table[<<c, e>>].second]
           w == [x \in iter_node \X iter_node |-> links[<<x[2], x[1]>>]]
<1>1. \A c \in iter_node : r[c] = table[<<c, e>>].second
  OBVIOUS
<1>2. \A v, c \in iter_node : w[<<v, c>>] = links[<<c, v>>]
  OBVIOUS
<1>3. w = [x \in iter_node \X iter_node |-> links[<<x[2], x[1]>>]]
  OBVIOUS
<1> HIDE DEF r, w
<1>4. r[e] = 0 /\ \A c \in iter_node : r[c] \in CostOrNone
  BY <1>1, ReadyFacts DEF RowsDescend
<1>5. ASSUME NEW c \in iter_node \ {e}, r[c] >= 0
      PROVE  \E v \in iter_node : From(w, r, c, v)
  <2> DEFINE v == table[<<c, e>>].first
             x == r[c]
             y == r[v]
             z == links[<<c, v>>]
  <2>1. v \in iter_node
    BY ReadyFacts
  <2>2. x \in Int /\ y \in Int /\ z \in Int
    BY <1>4, <2>1, ReadyFacts, CostFacts
  <2>3. z > 0 /\ y \in 0..(x - z)
    <3>1. RowsDescend /\ table[<<c, e>>].second >= 0
      BY <1>1, <1>5, ReadyFacts
    <3>2. Descends(c, e)
      BY <3>1 DEF RowsDescend
    <3>3. QED
      BY <1>1, <2>1, <3>2 DEF Descends
  <2>4. w[<<v, c>>] = z
    BY <1>2, <2>1
  <2> HIDE DEF v, x, y, z
  <2>5. z >= 0 /\ y >= 0 /\ y < x /\ y + z <= x
    BY <2>2, <2>3
  <2>6. From(w, r, c, v)
    BY <2>4, <2>5 DEF From, x, y
  <2>7. QED
    BY <2>1, <2>6
<1>6. /\ IsFiniteSet(iter_node) /\ IsMatrix(iter_node, links) /\ IsFree(iter_node, links)
      /\ IsWalk(iter_node, links, Walk)
  BY ReadyFacts
<1>7. \A c \in iter_node : NoWorse(Walk[Cardinality(iter_node) - 1][<<c, e>>], r[c])
  BY <1>3, <1>4, <1>5, <1>6, AttainedTo
<1>8. QED
  BY <1>1, <1>7 DEF Least

\* The row of s accounts for every route of up to n links.
Reaches(s, n) == \A e \in iter_node : NoWorse(table[<<s, e>>].second, Walk[n][<<s, e>>])

LEMMA ReachesLess ==
    ASSUME RowsReady, NEW s \in iter_node, NEW n \in Nat, NEW k \in Nat, Reaches(s, n + k)
    PROVE  Reaches(s, n)
<1>1. ASSUME NEW e \in iter_node
      PROVE  NoWorse(table[<<s, e>>].second, Walk[n][<<s, e>>])
  <2>1. NoWorse(Walk[n + k][<<s, e>>], Walk[n][<<s, e>>])
    BY ReadyFacts, WalkGrows
  <2>2. NoWorse(table[<<s, e>>].second, Walk[n + k][<<s, e>>])
    BY DEF Reaches
  <2>3. n + k \in Nat
    OBVIOUS
  <2>4. /\ table[<<s, e>>].second \in CostOrNone /\ Walk[n][<<s, e>>] \in CostOrNone
        /\ Walk[n + k][<<s, e>>] \in CostOrNone
    BY <2>3, ReadyFacts
  <2>5. QED
    BY <2>1, <2>2, <2>4, NoWorseFacts
<1>2. QED
  BY <1>1 DEF Reaches

\* After as many rounds as there are nodes, less one, the row has the least costs.
LEMMA ReachesAll ==
    ASSUME RowsReady, NEW s \in iter_node, Reaches(s, noend_num)
    PROVE  \A e \in iter_node : table[<<s, e>>].second = Least[<<s, e>>]
<1> DEFINE n == noend_num - 1
<1>1. n \in Nat /\ n + 1 = noend_num
  BY ReadyFacts
<1>2. Reaches(s, n)
  <2> HIDE DEF n
  <2>1. 1 \in Nat /\ Reaches(s, n + 1)
    BY <1>1
  <2>2. QED
    BY <1>1, <2>1, ReachesLess
<1>3. Least = Walk[n]
  BY DEF Least, noend_num
<1>4. ASSUME NEW e \in iter_node
      PROVE  table[<<s, e>>].second = Least[<<s, e>>]
  <2>1. NoWorse(table[<<s, e>>].second, Least[<<s, e>>])
    BY <1>2, <1>3 DEF Reaches
  <2>2. NoWorse(Least[<<s, e>>], table[<<s, e>>].second)
    BY NeverBelow
  <2>3. table[<<s, e>>].second \in CostOrNone /\ Least[<<s, e>>] \in CostOrNone
    BY <1>1, <1>3, ReadyFacts
  <2>4. QED
    BY <2>1, <2>2, <2>3, NoWorseFacts
<1>5. QED
  BY <1>4

\* A node whose neighbours' rows account for routes of n links accounts, after its
\* turn, for routes of one more.
LEMMA TurnReaches ==
    ASSUME RowsReady, NEW a \in iter_node, NEW b \in iter_node, NEW n \in Nat,
           \A c \in iter_node : Reaches(c, n)
    PROVE  NoWorse(Updated(a, b).second, Walk[n + 1][<<a, b>>])
<1> DEFINE old == table[<<a, b>>].second
           new == Updated(a, b).second
           reach == Walk[n + 1][<<a, b>>]
<1>1. /\ p \in [Ids \X Ids -> CostOrNone] /\ iter_node \subseteq Ids
      /\ table \in [iter_node \X iter_node -> Entries]
  BY ReadyFacts
<1>2. SUFFICES ASSUME reach >= 0
               PROVE  new \in 0..reach
  BY DEF NoWorse
<1>3. PICK c \in iter_node :
        /\ links[<<a, c>>] >= 0 /\ Walk[n][<<c, b>>] >= 0
        /\ links[<<a, c>>] + Walk[n][<<c, b>>] \in 0..reach
  <2>1. /\ IsMatrix(iter_node, links) /\ IsFree(iter_node, links)
        /\ IsWalk(iter_node, links, Walk)
    BY ReadyFacts
  <2>2. QED
    BY <1>2, <2>1, WalkFront
<1> DEFINE link == links[<<a, c>>]
           rest == Walk[n][<<c, b>>]
           row == table[<<c, b>>].second
<1>4. /\ reach \in Int /\ link \in Int /\ rest \in Int /\ row \in Int /\ old \in Int
      /\ link >= 0 /\ rest >= 0 /\ link + rest \in 0..reach
  <2>1. n + 1 \in Nat
    OBVIOUS
  <2>2. /\ reach \in CostOrNone /\ link \in CostOrNone /\ rest \in CostOrNone
        /\ row \in CostOrNone /\ old \in CostOrNone
    BY <2>1, ReadyFacts
  <2>3. QED
    BY <1>3, <2>2, CostFacts
<1>5. row \in 0..rest
  <2>1. NoWorse(row, rest)
    BY DEF Reaches
  <2>2. QED
    BY <1>4, <2>1 DEF NoWorse
<1>6. CASE c = a
  <2>1. row = old
    BY <1>6
  <2>2. old \in 0..reach
    <3> HIDE DEF old, reach, link, rest, row
    <3>1. QED
      BY <1>4, <1>5, <2>1
  <2>3. CASE Updated(a, b) = table[<<a, b>>]
    BY <2>2, <2>3
  <2>4. CASE Updated(a, b) # table[<<a, b>>]
    <3>1. new \in Nat /\ (old >= 0 => new <= old)
      BY <1>1, <2>4, UpdatedEntry
    <3> HIDE DEF old, new, reach
    <3>2. QED
      BY <1>4, <2>2, <3>1
  <2>5. QED
    BY <2>3, <2>4
<1>7. CASE c # a
  <2>1. row >= 0
    <3> HIDE DEF row, rest
    <3>1. QED
      BY <1>4, <1>5
  <2>2. c \in Via(a, b) /\ Offered(a, b, c) = link + row
    BY <1>4, <1>7, <2>1, ReadyFacts DEF Via, Offered
  <2>3. new \in 0..(link + row)
    BY <1>1, <2>2, UpdatedLowest
  <2> HIDE DEF new, reach, link, rest, row
  <2>4. QED
    BY <1>4, <1>5, <2>3
<1>8. QED
  BY <1>6, <1>7

\* No link and no entry at its other end cost less than the row says.
LEMMA NoneBelow ==
    ASSUME RowsReady, \A v \in iter_node : Reaches(v, noend_num),
           NEW a \in iter_node, NEW b \in iter_node, NEW c \in iter_node,
           links[<<a, c>>] >= 0, table[<<c, b>>].second >= 0
    PROVE  table[<<a, b>>].second \in 0..(links[<<a, c>>] + table[<<c, b>>].second)
<1> DEFINE n == noend_num - 1
           link == links[<<a, c>>]
           row == table[<<c, b>>].second
           cost == table[<<a, b>>].second
           walk == Walk[noend_num][<<a, b>>]
<1>1. n \in Nat /\ n + 1 = noend_num /\ noend_num \in Nat
  BY ReadyFacts
<1>2. row = Walk[n][<<c, b>>]
  BY ReachesAll DEF Least, noend_num
<1> HIDE DEF n
<1>3. NoWorse(walk, link + row)
  <2>1. /\ IsMatrix(iter_node, links) /\ IsFree(iter_node, links)
        /\ IsWalk(iter_node, links, Walk)
    BY ReadyFacts
  <2>2. links[<<a, c>>] >= 0 /\ Walk[n][<<c, b>>] >= 0
    BY <1>2
  <2>3. NoWorse(Walk[n + 1][<<a, b>>], links[<<a, c>>] + Walk[n][<<c, b>>])
    BY <1>1, <2>1, <2>2, WalkFront
  <2>4. QED
    BY <1>1, <1>2, <2>3
<1>4. NoWorse(cost, walk)
  BY DEF Reaches
<1>5. link \in Int /\ row \in Int /\ cost \in Int /\ walk \in Int /\ link >= 0 /\ row >= 0
  BY <1>1, ReadyFacts, CostFacts
<1> HIDE DEF link, row, cost, walk
<1>6. cost \in 0..(link + row)
  BY <1>3, <1>4, <1>5 DEF NoWorse
<1>7. QED
  BY <1>6 DEF link, row, cost

\* The neighbours of s on routes to e that cost what the row of s says.
OnRoute(s, e) ==
    {c \in iter_node \ {s} :
        /\ links[<<s, c>>] >= 0 /\ table[<<c, e>>].second >= 0
        /\ links[<<s, c>>] + table[<<c, e>>].second = table[<<s, e>>].second}

HopsSmallest(s) ==
    \A e \in iter_node :
        s # e /\ table[<<s, e>>].second >= 0 => table[<<s, e>>].first = Min(OnRoute(s, e))

\* A turn of the last round changes no cost, and gives every entry the smallest of
\* the neighbours that account for its cost.
LEMMA LastTurn ==
    ASSUME RowsReady, NEW a \in iter_node, NEW b \in iter_node,
           \A c \in iter_node : Reaches(c, noend_num)
    PROVE  /\ Updated(a, b).second = table[<<a, b>>].second
           /\ a # b /\ table[<<a, b>>].second >= 0 => Updated(a, b).first = Min(OnRoute(a, b))
<1> DEFINE old == table[<<a, b>>]
           best == Best(a, b)
           hop == BestHop(a, b)
<1>1. /\ p \in [Ids \X Ids -> CostOrNone] /\ iter_node \subseteq Ids
      /\ table \in [iter_node \X iter_node -> Entries]
      /\ RowsDescend /\ old.first \in iter_node /\ old.second \in Int
      /\ iter_node \subseteq Nat
  BY ReadyFacts, NodeFacts, CostFacts
<1>2. CASE a = b
  <2>1. old.second = 0
    BY <1>1, <1>2 DEF RowsDescend
  <2>2. Updated(a, b) = old
    BY <1>1, <2>1, UpdatedEntry
  <2>3. QED
    BY <1>2, <2>2
\* No neighbour offers less than the row has.
<1>3. ASSUME NEW c \in Via(a, b)
      PROVE  old.second \in 0..Offered(a, b, c)
  <2>1. /\ c \in iter_node /\ links[<<a, c>>] >= 0 /\ table[<<c, b>>].second >= 0
        /\ Offered(a, b, c) = links[<<a, c>>] + table[<<c, b>>].second
    BY ReadyFacts DEF Via, Offered
  <2>2. QED
    BY <2>1, NoneBelow
\* The neighbour in the row offers no more.
<1>4. ASSUME a # b, old.second >= 0
      PROVE  /\ old.first \in Via(a, b)
             /\ Offered(a, b, old.first) <= old.second
             /\ Offered(a, b, old.first) \in Int
             /\ old.second # 0
  <2> DEFINE h == old.first
             link == links[<<a, h>>]
             row == table[<<h, b>>].second
             cost == old.second
  <2>1. link > 0 /\ row \in 0..(cost - link)
    BY <1>1, <1>4 DEF RowsDescend, Descends
  <2>2. link \in Int /\ row \in Int /\ cost \in Int /\ p[<<a, h>>] = link
    BY <1>1, ReadyFacts, CostFacts
  <2>3. h # a
    <3>1. links[<<a, a>>] = 0
      BY ReadyFacts DEF IsFree
    <3>2. ~ (0 > 0)
      OBVIOUS
    <3>3. QED
      BY <2>1, <3>1, <3>2
  <2>4. Offered(a, b, h) = link + row
    BY <2>2 DEF Offered
  <2> HIDE DEF link, row, cost
  <2>5. link >= 0 /\ row >= 0 /\ link + row <= cost /\ link + row \in Int /\ cost # 0
    BY <2>1, <2>2
  <2>6. h \in Via(a, b)
    BY <1>1, <2>2, <2>3, <2>5 DEF Via, row
  <2>7. QED
    BY <2>4, <2>5, <2>6 DEF cost
<1>5. CASE a # b /\ Via(a, b) = {}
  <2>1. Updated(a, b) = old
    BY <1>1, <1>5, UpdatedEntry
  <2>2. ~ (old.second >= 0)
    BY <1>4, <1>5
  <2>3. QED
    BY <2>1, <2>2
<1>6. CASE a # b /\ Via(a, b) # {}
  <2>1. /\ best \in Nat /\ hop \in Via(a, b) /\ Offered(a, b, hop) = best
        /\ \A c \in Via(a, b) : best <= Offered(a, b, c)
        /\ \A c \in Via(a, b) : Offered(a, b, c) = best => hop <= c
        /\ Updated(a, b) = IF old.second # 0 /\ Improves(old, best, hop)
                           THEN [first |-> hop, second |-> best] ELSE old
    BY <1>1, <1>6, BestFacts
  <2>2. old.second \in 0..best
    BY <1>3, <2>1
  <2>3. old.second >= 0
    <3> DEFINE cost == old.second
    <3> HIDE DEF old, best, cost
    <3>1. cost \in 0..best
      BY <2>2 DEF cost
    <3>2. QED
      BY <3>1 DEF cost
  <2>4. best = old.second /\ Offered(a, b, old.first) = best /\ old.first \in Via(a, b)
    <3> DEFINE cost == old.second
               offer == Offered(a, b, old.first)
    <3>1. /\ best <= offer /\ offer <= cost /\ cost \in 0..best
          /\ old.first \in Via(a, b) /\ offer \in Int
      BY <1>4, <1>6, <2>1, <2>2, <2>3
    <3> HIDE DEF best, cost, offer
    <3>2. best = cost /\ offer = best
      BY <1>1, <2>1, <3>1 DEF cost
    <3>3. QED
      BY <3>1, <3>2 DEF cost, offer
  <2>5. old.second # 0 /\ hop <= old.first /\ hop \in Nat /\ old.first \in Nat
    <3>1. hop \in iter_node
      BY <2>1 DEF Via
    <3>2. QED
      BY <1>1, <1>4, <1>6, <2>1, <2>3, <2>4, <3>1
  <2>6. Updated(a, b).first = hop /\ Updated(a, b).second = best
    <3>1. CASE Improves(old, best, hop)
      <4>1. Updated(a, b) = [first |-> hop, second |-> best]
        BY <2>1, <2>5, <3>1
      <4>2. QED
        BY <4>1
    <3>2. CASE ~ Improves(old, best, hop)
      <4>1. Updated(a, b) = old
        BY <2>1, <3>2
      <4>2. ~ (hop < old.first)
        BY <2>4, <3>2 DEF Improves
      <4> HIDE DEF old, hop, best
      <4>3. hop = old.first
        BY <2>5, <4>2
      <4>4. QED
        BY <2>4, <4>1, <4>3
    <3>3. QED
      BY <3>1, <3>2
  <2>7. OnRoute(a, b) = {c \in Via(a, b) : Offered(a, b, c) = best}
    <3>1. \A c \in iter_node : p[<<a, c>>] = links[<<a, c>>]
      BY ReadyFacts
    <3>2. QED
      BY <2>4, <3>1 DEF OnRoute, Via, Offered
  <2>8. hop = Min(OnRoute(a, b))
    BY <2>7 DEF BestHop
  <2>9. QED
    BY <2>4, <2>6, <2>8
<1>7. QED
  BY <1>2, <1>5, <1>6

\* Node s had its turn in this round.
Turned(s) == phase # "computing" \/ s < turn

ReachesOK ==
    \A s \in iter_node : /\ Turned(s) => Reaches(s, round + 1)
                         /\ ~ Turned(s) => Reaches(s, round)

SmallestOK == round = noend_num => \A s \in iter_node : Turned(s) => HopsSmallest(s)

ReachInv ==
    /\ RouteInv
    /\ phase # "reading" => ReachesOK /\ SmallestOK
    /\ Computed => round = noend_num

\* The matrices alone.
ReadyMatrix ==
    /\ IsMatrix(iter_node, links) /\ IsFree(iter_node, links)
    /\ IsWalk(iter_node, links, Walk)
    /\ \A s, e \in iter_node : p[<<s, e>>] = links[<<s, e>>] /\ links[<<s, e>>] \in CostOrNone

LEMMA ReadyMatrices == RowsReady => ReadyMatrix
  BY ReadyFacts DEF ReadyMatrix

\* dv_method() starts with the routes of one link.
LEMMA StartReaches ==
    ASSUME iter_node # {}, iter_node \subseteq Ids, UNCHANGED iter_node, dv_method,
           phase' = "computing", RouteInv'
    PROVE  ReachesOK' /\ SmallestOK'
<1>1. /\ iter_node' = iter_node /\ round' = 1 /\ turn' = Min(iter_node)
      /\ table' = [e \in iter_node \X iter_node |-> [first |-> e[2], second |-> p'[e]]]
  BY DEF dv_method
<1>2. \A s \in iter_node : ~ Turned(s)'
  <2>1. iter_node \in SUBSET Nat
    BY NodeFacts
  <2>2. turn' \in Nat /\ \A s \in iter_node : turn' <= s
    BY <1>1, <2>1, MinOfNaturals
  <2>3. QED
    BY <2>1, <2>2 DEF Turned
<1>3. RowsReady'
  BY DEF RowsReady
<1>4. /\ IsMatrix(iter_node, links') /\ IsFree(iter_node, links')
      /\ IsWalk(iter_node, links', Walk')
      /\ \A s, e \in iter_node : p'[<<s, e>>] = links'[<<s, e>>] /\ links'[<<s, e>>] \in CostOrNone
  <2>1. (RowsReady => ReadyMatrix)'
    BY ReadyMatrices, PTL
  <2>2. ReadyMatrix'
    BY <1>3, <2>1
  <2>3. /\ IsMatrix(iter_node', links') /\ IsFree(iter_node', links')
        /\ IsWalk(iter_node', links', Walk')
        /\ \A s, e \in iter_node' :
                p'[<<s, e>>] = links'[<<s, e>>] /\ links'[<<s, e>>] \in CostOrNone'
    BY <2>2 DEF ReadyMatrix
  <2>4. CostOrNone' = CostOrNone
    BY DEF CostOrNone, VAL_INF
  <2>5. QED
    BY <1>1, <2>3, <2>4
<1>5. ASSUME NEW s \in iter_node, NEW e \in iter_node
      PROVE  NoWorse(table'[<<s, e>>].second, Walk'[1][<<s, e>>])
  <2>1. table'[<<s, e>>].second = links'[<<s, e>>]
    <3>1. table'[<<s, e>>] = [first |-> e, second |-> p'[<<s, e>>]]
      BY <1>1
    <3>2. QED
      BY <1>4, <3>1
  <2>2. /\ Walk'[0][<<s, s>>] = 0
        /\ \A n \in Nat : \A i, v, j \in iter_node :
                Walk'[n][<<i, v>>] >= 0 /\ links'[<<v, j>>] >= 0 =>
                    NoWorse(Walk'[n + 1][<<i, j>>], Walk'[n][<<i, v>>] + links'[<<v, j>>])
        /\ \A n \in Nat : \A i, j \in iter_node :
                Walk'[n + 1][<<i, j>>] >= 0 =>
                    \E v \in iter_node : LastLink(links', Walk', n, i, j, v)
        /\ \A i, j \in iter_node : Walk'[0][<<i, j>>] = IF i = j THEN 0 ELSE VAL_INF
    BY <1>4, WalkSteps
  <2>3. ASSUME Walk'[1][<<s, e>>] >= 0
        PROVE  Walk'[1][<<s, e>>] = links'[<<s, e>>] /\ links'[<<s, e>>] \in Nat
    <3>1. 0 \in Nat /\ 0 + 1 = 1
      OBVIOUS
    <3>2. PICK v \in iter_node : LastLink(links', Walk', 0, s, e, v)
      <4>1. Walk'[0 + 1][<<s, e>>] >= 0
        BY <2>3, <3>1
      <4>2. QED
        BY <2>2, <3>1, <4>1
    <3>3. /\ Walk'[0][<<s, v>>] >= 0 /\ links'[<<v, e>>] >= 0
          /\ Walk'[1][<<s, e>>] = Walk'[0][<<s, v>>] + links'[<<v, e>>]
      BY <3>1, <3>2 DEF LastLink
    <3>4. v = s
      <4>1. v # s => Walk'[0][<<s, v>>] = VAL_INF
        BY <2>2
      <4>2. ~ (VAL_INF >= 0)
        BY DEF VAL_INF
      <4>3. QED
        BY <3>3, <4>1, <4>2
    <3>5. links'[<<s, e>>] \in Nat
      BY <1>4, <3>3, <3>4, CostFacts
    <3> DEFINE link == links'[<<s, e>>]
    <3>6. Walk'[1][<<s, e>>] = 0 + link
      BY <2>2, <3>3, <3>4
    <3> HIDE DEF link
    <3>7. 0 + link = link
      BY <3>5 DEF link
    <3>8. QED
      BY <3>5, <3>6, <3>7 DEF link
  <2>4. \A x \in Nat : x \in 0..x
    OBVIOUS
  <2>5. QED
    BY <2>1, <2>3, <2>4 DEF NoWorse
<1>6. \A s \in iter_node : Reaches(s, round)'
  BY <1>1, <1>5 DEF Reaches, NoWorse
<1>7. QED
  BY <1>1, <1>2, <1>6 DEF ReachesOK, SmallestOK

LEMMA TurnKeepsReach ==
    ASSUME ReachInv, Turn
    PROVE  ReachesOK' /\ SmallestOK' /\ (Computed' => round' = noend_num')
<1>1. /\ phase = "computing" /\ iter_node' = iter_node /\ links' = links /\ noend_num' = noend_num
      /\ table' = [e \in iter_node \X iter_node |->
                    IF e[1] = turn THEN Updated(turn, e[2]) ELSE table[e]]
  BY DEF Turn, noend_num
<1>2. RowsReady /\ ReachesOK /\ SmallestOK
  BY <1>1 DEF ReachInv, RowsReady
<1>3. /\ turn \in iter_node /\ turn \in Nat /\ round \in Nat /\ noend_num \in Nat
      /\ iter_node \in SUBSET Nat
  <2>1. /\ turn \in iter_node /\ round \in 1..noend_num /\ iter_node \subseteq Ids
        /\ noend_num \in Nat
    BY <1>1, <1>2, ReadyFacts DEF RowsReady, RouteInv, TypeInv, TypeOK
  <2>2. QED
    BY <2>1, NodeFacts
<1>4. \A s, e \in iter_node :
        table'[<<s, e>>] = IF s = turn THEN Updated(turn, e) ELSE table[<<s, e>>]
  BY <1>1
<1>5. Walk' = Walk
  BY <1>1 DEF Walk, NoLink, OneMore
\* All rows account for the round, the row of this node for one link more now.
<1>6. \A s \in iter_node : Reaches(s, round)
  <2>1. TAKE s \in iter_node
  <2>2. CASE ~ Turned(s)
    BY <1>2, <2>2 DEF ReachesOK
  <2>3. CASE Turned(s)
    <3>1. Reaches(s, round + 1) /\ 1 \in Nat
      BY <1>2, <2>3 DEF ReachesOK
    <3>2. QED
      BY <1>2, <1>3, <3>1, ReachesLess
  <2>4. QED
    BY <2>2, <2>3
<1>7. \A e \in iter_node : NoWorse(table'[<<turn, e>>].second, Walk[round + 1][<<turn, e>>])
  BY <1>2, <1>3, <1>4, <1>6, TurnReaches
<1>8. ASSUME NEW s \in iter_node, NEW n \in Nat, Reaches(s, n), s # turn
      PROVE  \A e \in iter_node : NoWorse(table'[<<s, e>>].second, Walk'[n][<<s, e>>])
  BY <1>4, <1>5, <1>8 DEF Reaches
<1>9. \A s \in iter_node : Turned(s) \/ s = turn =>
        \A e \in iter_node : NoWorse(table'[<<s, e>>].second, Walk'[round + 1][<<s, e>>])
  <2>1. TAKE s \in iter_node
  <2>2. CASE s = turn
    BY <1>5, <1>7, <2>2
  <2>3. ASSUME Turned(s), s # turn
        PROVE  \A e \in iter_node : NoWorse(table'[<<s, e>>].second, Walk'[round + 1][<<s, e>>])
    <3>1. Reaches(s, round + 1) /\ round + 1 \in Nat
      BY <1>2, <1>3, <2>3 DEF ReachesOK
    <3>2. QED
      BY <1>8, <2>3, <3>1
  <2>4. QED
    BY <2>2, <2>3
\* In the last round no cost changes.
<1>10. ASSUME round = noend_num
       PROVE  \A s \in iter_node : Turned(s) \/ s = turn => HopsSmallest(s)'
  <2>1. \A e \in iter_node :
            /\ Updated(turn, e).second = table[<<turn, e>>].second
            /\ turn # e /\ table[<<turn, e>>].second >= 0 =>
                    Updated(turn, e).first = Min(OnRoute(turn, e))
    BY <1>2, <1>3, <1>6, <1>10, LastTurn
  <2>2. \A s, e \in iter_node : table'[<<s, e>>].second = table[<<s, e>>].second
    BY <1>4, <2>1
  <2>3. ASSUME NEW s \in iter_node, NEW e \in iter_node
        PROVE  OnRoute(s, e)' = OnRoute(s, e)
    BY <1>1, <2>2 DEF OnRoute
  <2>4. ASSUME NEW s \in iter_node, Turned(s) \/ s = turn,
               NEW e \in iter_node, s # e, table[<<s, e>>].second >= 0
        PROVE  table'[<<s, e>>].first = Min(OnRoute(s, e))
    <3>1. CASE s = turn
      BY <1>4, <2>1, <2>4, <3>1
    <3>2. CASE s # turn
      <4>1. HopsSmallest(s)
        BY <1>2, <1>10, <2>4, <3>2 DEF SmallestOK
      <4>2. QED
        BY <1>4, <2>4, <3>2, <4>1 DEF HopsSmallest
    <3>3. QED
      BY <3>1, <3>2
  <2>5. TAKE s \in iter_node
  <2>6. HAVE Turned(s) \/ s = turn
  <2>7. ASSUME NEW e \in iter_node, s # e, table'[<<s, e>>].second >= 0
        PROVE  table'[<<s, e>>].first = Min(OnRoute(s, e)')
    BY <2>2, <2>3, <2>4, <2>6, <2>7
  <2>8. QED
    BY <1>1, <2>7 DEF HopsSmallest
\* Whose turn it was, and whose it is next.
<1>11. CASE Later # {} /\ turn' = Min(Later) /\ UNCHANGED <<phase, round>>
  <2>1. turn' \in Later /\ \A s \in Later : turn' <= s
    <3>1. Later \in SUBSET Nat
      BY <1>3 DEF Later
    <3>2. QED
      BY <1>11, <3>1, MinOfNaturals
  <2>2. \A s \in iter_node : Turned(s)' => Turned(s) \/ s = turn
    <3>1. TAKE s \in iter_node
    <3>2. s \in Nat /\ turn' \in Nat /\ (s > turn => turn' <= s)
      BY <1>3, <2>1 DEF Later
    <3>3. ~ (s < turn) /\ s # turn => ~ (s < turn')
      BY <1>3, <3>2
    <3>4. QED
      BY <1>1, <1>11, <3>3 DEF Turned
  <2>3. \A s \in iter_node : ~ Turned(s)' => ~ Turned(s) /\ s # turn
    <3>1. TAKE s \in iter_node
    <3>2. s \in Nat /\ turn' \in Nat /\ turn < turn'
      BY <1>3, <2>1 DEF Later
    <3>3. s < turn \/ s = turn => s < turn'
      BY <1>3, <3>2
    <3>4. QED
      BY <1>1, <1>11, <3>3 DEF Turned
  <2>4. \A s \in iter_node : Turned(s)' => Reaches(s, round + 1)'
    BY <1>1, <1>9, <1>11, <2>2 DEF Reaches
  <2>5. \A s \in iter_node : ~ Turned(s)' => Reaches(s, round)'
    <3>1. TAKE s \in iter_node
    <3>2. HAVE ~ Turned(s)'
    <3>3. \A e \in iter_node : NoWorse(table'[<<s, e>>].second, Walk'[round][<<s, e>>])
      BY <1>3, <1>6, <1>8, <2>3, <3>2
    <3>4. QED
      BY <1>1, <1>11, <3>3 DEF Reaches
  <2>6. SmallestOK'
    BY <1>1, <1>10, <1>11, <2>2 DEF SmallestOK
  <2>7. ~ Computed'
    BY <1>1, <1>11 DEF Computed
  <2>8. QED
    BY <1>1, <2>4, <2>5, <2>6, <2>7 DEF ReachesOK
<1>12. ASSUME Later = {}
       PROVE  \A s \in iter_node : Turned(s) \/ s = turn
  <2>1. TAKE s \in iter_node
  <2>2. s \in Nat /\ ~ (s > turn)
    BY <1>3, <1>12 DEF Later
  <2>3. s < turn \/ s = turn
    BY <1>3, <2>2
  <2>4. QED
    BY <2>3 DEF Turned
<1>13. CASE Later = {} /\ round < noend_num /\ round' = round + 1
            /\ turn' = Min(iter_node) /\ UNCHANGED phase
  <2>1. \A s \in iter_node : ~ Turned(s)'
    <3>1. turn' \in Nat /\ \A s \in iter_node : turn' <= s
      BY <1>3, <1>13, MinOfNaturals
    <3>2. \A s \in iter_node : ~ (s < turn')
      BY <1>3, <3>1
    <3>3. QED
      BY <1>1, <1>13, <3>2 DEF Turned
  <2>2. \A s \in iter_node : Reaches(s, round)'
    BY <1>1, <1>9, <1>12, <1>13 DEF Reaches
  <2>3. ~ Computed'
    BY <1>1, <1>13 DEF Computed
  <2>4. QED
    BY <1>1, <2>1, <2>2, <2>3 DEF ReachesOK, SmallestOK
<1>14. CASE Later = {} /\ round = noend_num /\ phase' = "sending" /\ UNCHANGED dvVars
  <2>1. round' = round /\ \A s \in iter_node : Turned(s)'
    BY <1>14 DEF dvVars, Turned
  <2>2. \A s \in iter_node : Reaches(s, round + 1)'
    BY <1>1, <1>9, <1>12, <1>14, <2>1 DEF Reaches
  <2>3. SmallestOK'
    BY <1>1, <1>10, <1>12, <1>14 DEF SmallestOK
  <2>4. QED
    BY <1>1, <1>14, <2>1, <2>2, <2>3 DEF ReachesOK
<1>15. QED
  BY <1>11, <1>13, <1>14 DEF Turn

LEMMA ReachInit == Init => ReachInv
  BY InitRoutes DEF ReachInv, Init, RoutingInit, Computed

LEMMA ReachNext ==
    ASSUME LastUnused, ReachInv, [Next]_vars
    PROVE  ReachInv'
<1>1. RouteInv'
  BY NextRoutes DEF ReachInv
<1>2. CASE ReadLine
  BY <1>1, <1>2 DEF ReadLine, read_top, ReachInv, Computed
<1>3. CASE ReadEnd \/ Change
  <2>1. /\ UNCHANGED iter_node /\ dv_method /\ phase' = "computing"
        /\ iter_node # {} /\ iter_node \subseteq Ids
    BY <1>3, TypeFacts DEF ReadEnd, Change, change_top, ReachInv, RouteInv, TypeInv
  <2>2. QED
    BY <1>1, <2>1, StartReaches DEF ReachInv, Computed
<1>4. CASE Turn
  BY <1>1, <1>4, TurnKeepsReach DEF ReachInv
<1>5. ASSUME UNCHANGED <<iter_node, links, table, round, turn>>,
             phase' = phase \/ (Computed /\ Computed')
      PROVE  ReachInv'
  <2>1. Walk' = Walk /\ noend_num' = noend_num /\ Computed' = Computed
    BY <1>5 DEF Walk, NoLink, OneMore, noend_num, Computed
  <2>2. (phase' = "computing" <=> phase = "computing") /\ (phase' = "reading" <=> phase = "reading")
    BY <1>5 DEF Computed
  <2>3. phase # "reading" => ReachesOK' /\ SmallestOK'
    <3>1. SUFFICES ASSUME phase # "reading" PROVE ReachesOK' /\ SmallestOK'
      OBVIOUS
    <3>2. ReachesOK /\ SmallestOK
      BY <3>1 DEF ReachInv
    <3>3. ReachesOK'
      BY <1>5, <2>1, <2>2, <3>2 DEF ReachesOK, Reaches, Turned
    <3>4. SmallestOK'
      BY <1>5, <2>1, <2>2, <3>2 DEF SmallestOK, HopsSmallest, OnRoute, Turned
    <3>5. QED
      BY <3>3, <3>4
  <2>4. QED
    BY <1>1, <1>5, <2>1, <2>2, <2>3 DEF ReachInv
<1>6. CASE SendMessages
  BY <1>5, <1>6 DEF SendMessages, Send, Forward, Deliver, dvVars, Computed
<1>7. CASE UNCHANGED vars
  BY <1>5, <1>7 DEF vars, routingVars, dvVars
<1>8. QED
  BY <1>2, <1>3, <1>4, <1>6, <1>7 DEF Next

LEMMA ReachStep == LastUnused /\ ReachInv /\ [Next]_vars => ReachInv'
  BY ReachNext

\* With each round the rows account for routes of one more link, and for a node that
\* had its turn already for one more still: rows that change in place never fall
\* behind (the loops over i and a of dv_method()).
THEOREM RoundsAlwaysReach ==
    ASSUME LastUnused
    PROVE  Spec => []RoundsReach
<1>1. ReachInv => RoundsReach
  <2>1. SUFFICES ASSUME ReachInv, phase = "computing",
                        NEW s \in iter_node, NEW e \in iter_node
                 PROVE  LET known == IF s < turn THEN Walk[round + 1][<<s, e>>]
                                     ELSE Walk[round][<<s, e>>]
                        IN  known >= 0 => table[<<s, e>>].second \in 0..known
    BY DEF RoundsReach
  <2>2. ReachesOK
    BY <2>1 DEF ReachInv
  <2>3. CASE s < turn
    BY <2>1, <2>2, <2>3 DEF ReachesOK, Turned, Reaches, NoWorse
  <2>4. CASE ~ (s < turn)
    BY <2>1, <2>2, <2>4 DEF ReachesOK, Turned, Reaches, NoWorse
  <2>5. QED
    BY <2>3, <2>4
<1>2. ReachInv /\ [Next]_vars => ReachInv'
  BY ReachStep
<1>3. QED
  BY ReachInit, <1>1, <1>2, PTL DEF Spec

\* After the last round every row accounts for routes of as many links as there are.
LEMMA LastRound ==
    ASSUME ReachInv, Computed
    PROVE  /\ RowsReady
           /\ \A s \in iter_node : Reaches(s, noend_num) /\ HopsSmallest(s)
           /\ \A s, e \in iter_node : table[<<s, e>>].second = Least[<<s, e>>]
<1>1. /\ RowsReady /\ ReachesOK /\ SmallestOK /\ round = noend_num
      /\ \A s \in iter_node : Turned(s)
  BY DEF ReachInv, RowsReady, Computed, Turned
<1>2. \A s \in iter_node : Reaches(s, noend_num)
  <2>1. TAKE s \in iter_node
  <2>2. Reaches(s, noend_num + 1) /\ 1 \in Nat /\ noend_num \in Nat
    BY <1>1, ReadyFacts DEF ReachesOK
  <2>3. QED
    BY <1>1, <2>2, ReachesLess
<1>3. \A s \in iter_node : HopsSmallest(s)
  BY <1>1 DEF SmallestOK
<1>4. QED
  BY <1>1, <1>2, <1>3, ReachesAll

\* The rows that are printed hold the least costs of all routes along the links of
\* the files, after the topology was read and after every change.
THEOREM TablesAreLeast ==
    ASSUME LastUnused
    PROVE  Spec => []CostsAreLeast
<1>1. ReachInv => CostsAreLeast
  BY LastRound DEF CostsAreLeast
<1>2. ReachInv /\ [Next]_vars => ReachInv'
  BY ReachStep
<1>3. QED
  BY ReachInit, <1>1, <1>2, PTL DEF Spec

\* Of the neighbours on routes of least cost the row has the one with the smallest
\* number (the comparison of ft entries in dv_method()).
THEOREM HopsAreSmallest ==
    ASSUME LastUnused
    PROVE  Spec => []SmallestHop
<1>1. ReachInv => SmallestHop
  BY LastRound DEF SmallestHop, HopsSmallest, OnRoute, Computed
<1>2. ReachInv /\ [Next]_vars => ReachInv'
  BY ReachStep
<1>3. QED
  BY ReachInit, <1>1, <1>2, PTL DEF Spec

----------------------------------------------------------------------------
MessageInv ==
    /\ RouteInv
    /\ phase = "forwarding" => Remaining \in Nat

LEMMA ForwardDescends ==
    ASSUME MessageInv, Forward
    PROVE  Remaining' \in Nat /\ Remaining' < Remaining
<1> DEFINE at == msg.at
           to == msg.to
           hop == table[<<at, to>>].first
           cost == table[<<at, to>>].second
           link == links[<<at, hop>>]
           rest == table[<<hop, to>>].second
<1>1. /\ at \in iter_node /\ to \in iter_node /\ at # to
      /\ cost \in Nat /\ RowsDescend /\ TypeOK
      /\ table' = table /\ msg' = [msg EXCEPT !.at = hop, !.paid = Min({INF, msg.paid + link})]
  BY DEF Forward, MessageInv, RouteInv, TypeInv, Remaining
<1>2. msg'.at = hop /\ msg'.to = to
  BY <1>1 DEF TypeOK, RoutingTypeOK
<1>3. Remaining' = rest /\ Remaining = cost
  BY <1>1, <1>2 DEF Remaining
<1>4. link > 0 /\ rest \in 0..(cost - link)
  <2>1. \A x \in Nat : x >= 0
    OBVIOUS
  <2>2. QED
    BY <1>1, <2>1 DEF RowsDescend, Descends
<1>5. link \in Int
  <2>1. phase # "reading" /\ TableType /\ links \in [Ids \X Ids -> CostOrNone]
        /\ iter_node \subseteq Ids
    BY <1>1, TypeFacts DEF Forward
  <2>2. hop \in iter_node
    BY <1>1, <2>1 DEF TableType, Entries
  <2>3. link \in CostOrNone
    BY <1>1, <2>1, <2>2
  <2>4. QED
    BY <2>3, CostFacts
<1> HIDE DEF cost, link, rest
<1>6. rest \in Nat /\ rest < cost
  BY <1>1, <1>4, <1>5
<1>7. QED
  BY <1>3, <1>6

LEMMA NextMessages == LastUnused /\ MessageInv /\ [Next]_vars => MessageInv'
<1> SUFFICES ASSUME LastUnused, MessageInv, [Next]_vars PROVE MessageInv'
  OBVIOUS
<1>1. RouteInv'
  BY NextRoutes DEF MessageInv
<1>2. phase' = "forwarding" => Remaining' \in Nat
  <2>1. CASE Send
    <3>1. PICK s \in iter_node, e \in iter_node :
            /\ table[<<s, e>>].second > 0
            /\ msg' = [at |-> s, to |-> e, cost |-> table[<<s, e>>].second, paid |-> 0]
      BY <2>1 DEF Send
    <3>2. table[<<s, e>>].second \in CostOrNone
      <4>1. phase # "reading" /\ TableType
        BY <2>1, TypeFacts DEF Send, MessageInv, RouteInv, TypeInv
      <4>2. QED
        BY <4>1 DEF TableType, Entries
    <3>3. Remaining' = table[<<s, e>>].second
      BY <2>1, <3>1 DEF Send, Remaining
    <3>4. \A x \in CostOrNone : x > 0 => x \in Nat
      BY DEF CostOrNone, VAL_INF
    <3>5. QED
      BY <3>1, <3>2, <3>3, <3>4
  <2>2. CASE Forward
    BY <2>2, ForwardDescends
  <2>3. ASSUME phase' # "forwarding" \/ UNCHANGED <<phase, table, msg>>
        PROVE  phase' = "forwarding" => Remaining' \in Nat
    BY <2>3 DEF MessageInv, Remaining
  <2>4. QED
    BY <2>1, <2>2, <2>3 DEF Next, ReadLine, read_top, ReadEnd, Change, change_top, Turn,
                            SendMessages, Deliver, vars, routingVars
<1>3. QED
  BY <1>1, <1>2 DEF MessageInv

\* A message never loops: every node that forwards it hands it to one that has less
\* to pay for the rest of its way, and the costs are natural numbers.
THEOREM MessagesNeverLoop ==
    ASSUME LastUnused
    PROVE  Spec => [][Forward => Remaining' \in Nat /\ Remaining' < Remaining]_vars
<1>1. Init => MessageInv
  BY InitRoutes DEF MessageInv, Init, RoutingInit
<1>2. MessageInv /\ [Next]_vars => MessageInv'
  BY NextMessages
<1>3. MessageInv /\ [Next]_vars
        => [Forward => Remaining' \in Nat /\ Remaining' < Remaining]_vars
  BY ForwardDescends
<1>4. QED
  BY <1>1, <1>2, <1>3, PTL DEF Spec

----------------------------------------------------------------------------
\* The rows of different nodes agree on the rest of the way.
LEMMA HopsAccount ==
    ASSUME ReachInv, Computed, NEW s \in iter_node, NEW e \in iter_node, s # e,
           table[<<s, e>>].second \in Nat
    PROVE  HopAccounts(s, e)
<1> DEFINE hop == table[<<s, e>>].first
           cost == table[<<s, e>>].second
           link == links[<<s, hop>>]
           rest == table[<<hop, e>>].second
<1>1. RowsReady /\ \A v \in iter_node : Reaches(v, noend_num)
  BY LastRound
<1>2. hop \in iter_node /\ link \in Int /\ rest \in Int /\ cost \in Nat
  BY <1>1, ReadyFacts, CostFacts
<1>3. link > 0 /\ rest \in 0..(cost - link)
  <2>1. \A x \in Nat : x >= 0
    OBVIOUS
  <2>2. RowsDescend
    BY <1>1, ReadyFacts
  <2>3. QED
    BY <2>1, <2>2 DEF RowsDescend, Descends
<1>4. link >= 0 /\ rest >= 0 => cost \in 0..(link + rest)
  BY <1>1, <1>2, NoneBelow
<1> HIDE DEF hop, cost, link, rest
<1>5. link \in Nat \ {0} /\ rest \in Nat /\ cost = link + rest
  BY <1>2, <1>3, <1>4
<1>6. QED
  BY <1>2, <1>5 DEF HopAccounts, hop, cost, link, rest

\* Where routes cost less than INF, so do the entries.
LEMMA BelowINF ==
    ASSUME RoutesBelowINF, ReachInv, Computed, NEW s \in iter_node, NEW e \in iter_node,
           table[<<s, e>>].second > 0
    PROVE  table[<<s, e>>].second \in 0..(INF - 1)
<1> DEFINE n == noend_num - 1
           cost == table[<<s, e>>].second
<1>1. RowsReady /\ cost = Walk[n][<<s, e>>]
  BY LastRound DEF Least, noend_num
<1>2. n \in Nat /\ n < MAX_NODE
  <2>1. n \in Nat /\ noend_num \in Nat
    BY <1>1, ReadyFacts
  <2>2. noend_num <= MAX_NODE
    BY <1>1, LinkFacts DEF RowsReady, RouteInv, noend_num
  <2>3. QED
    BY <2>1, <2>2, RoutingAssumption
<1>3. Walk[n][<<s, e>>] < INF
  BY <1>1, <1>2, WalksBelowINF DEF RowsReady, RouteInv
<1>4. cost \in Int /\ cost > 0
  BY <1>1, ReadyFacts, CostFacts
<1> HIDE DEF n, cost
<1>5. cost \in 0..(INF - 1)
  BY <1>1, <1>3, <1>4, RoutingAssumption
<1>6. QED
  BY <1>5 DEF cost

PaysInv == ReachInv /\ Pays

LEMMA PaysNext ==
    ASSUME LastUnused, RoutesBelowINF, PaysInv, [Next]_vars
    PROVE  PaysInv'
<1>1. ReachInv'
  BY ReachNext DEF PaysInv
<1>2. CASE Send
  BY <1>1, <1>2, BelowINF, SendPays DEF Send, PaysInv, Computed
<1>3. CASE Forward
  <2>1. /\ msg \in [at : iter_node, to : iter_node, cost : 0..(INF - 1), paid : Nat]
        /\ Remaining \in Nat /\ msg.at # msg.to /\ Computed
    BY <1>3 DEF Forward, PaysInv, Pays, Computed
  <2>2. msg.at \in iter_node /\ msg.to \in iter_node
    BY <2>1
  <2>3. HopAccounts(msg.at, msg.to)
    BY <2>1, <2>2, HopsAccount DEF PaysInv, Remaining
  <2>4. QED
    BY <1>1, <1>3, <2>3, ForwardPays DEF PaysInv
<1>4. ASSUME phase' # "forwarding" \/ UNCHANGED <<phase, iter_node, table, msg>>
      PROVE  PaysInv'
  BY <1>1, <1>4 DEF PaysInv, Pays, Remaining
<1>5. QED
  BY <1>2, <1>3, <1>4 DEF Next, ReadLine, read_top, ReadEnd, Change, change_top, Turn,
                          SendMessages, Deliver, vars, routingVars

\* A message that each node forwards by its own row pays in all what the row of
\* its first node said.
THEOREM MessagesPay ==
    ASSUME LastUnused, RoutesBelowINF
    PROVE  Spec => []MessagePaysItsCost
<1>1. Init => PaysInv
  BY ReachInit DEF PaysInv, Pays, Init, RoutingInit
<1>2. PaysInv => MessagePaysItsCost
  <2>1. SUFFICES ASSUME PaysInv PROVE MessagePaysItsCost
    OBVIOUS
  <2>2. phase = "forwarding" => \A e \in iter_node : table[<<e, e>>].second = 0
    BY <2>1 DEF PaysInv, ReachInv, RouteInv, RowsDescend
  <2>3. QED
    BY <2>1, <2>2, PaysItsCost DEF PaysInv
<1>3. PaysInv /\ [Next]_vars => PaysInv'
  BY PaysNext
<1>4. QED
  BY <1>1, <1>2, <1>3, PTL DEF Spec

============================================================================
