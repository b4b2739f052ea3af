------------------------------ MODULE DistVec ------------------------------
(***************************************************************************)
(* The distance-vector program of mp3 (mp3/src/distvec.cpp): every node in *)
(* turn recomputes its row of ft from the rows of its neighbours, in       *)
(* place, for as many rounds as there are nodes.                           *)
(*                                                                         *)
(* neigborft is the part of p between the nodes of the topology; p does    *)
(* not change while it is used, so the model reads p.                      *)
(*                                                                         *)
(* One action is the turn of one node (one value of the iterator a).  The  *)
(* loop over its neighbours changes an entry [a][b] and reads entries      *)
(* [c][b] of other rows only, so what it leaves there has a closed form.   *)
(***************************************************************************)
EXTENDS Routing

VARIABLES
    round,          \* i + 1
    turn            \* the node whose turn it is

dvVars == <<round, turn>>
vars == <<routingVars, dvVars>>

noend_num == Cardinality(iter_node)

Init ==
    /\ RoutingInit
    /\ round = 0
    /\ turn = 0

ReadLine == read_top /\ UNCHANGED dvVars

\* dv_method() up to its loops: every row is the row of the cost matrix.
dv_method ==
    /\ table' = [e \in iter_node \X iter_node |-> [first |-> e[2], second |-> p'[e]]]
    /\ round' = 1
    /\ turn' = Min(iter_node)

\* The end of read_top() and the first call of dv_method().
ReadEnd ==
    /\ phase = "reading"
    /\ iter_node # {}
    /\ phase' = "computing"
    /\ UNCHANGED <<p, iter_node, msg, links>>
    /\ dv_method

Change == change_top /\ dv_method

----------------------------------------------------------------------------
\* Mutant: a neighbour need not have a route itself.
Via_AnyNeighbour(a, b) == {c \in iter_node \ {a} : p[<<a, c>>] >= 0}

\* The neighbours of node a that have a route to node b.
Via(a, b) == {c \in iter_node \ {a} : p[<<a, c>>] >= 0 /\ table[<<c, b>>].second >= 0}

Offered(a, b, c) == p[<<a, c>>] + table[<<c, b>>].second

\* Mutant: an entry that has a cost is never changed.
Improves_KeepsFirst(old, best, hop) == old.second < 0

\* Mutant: of two neighbours that offer the same, the first one stays.
Improves_FirstStays(old, best, hop) == old.second < 0 \/ best < old.second

\* A cost `best` over neighbour `hop` replaces an entry that has no cost, a higher
\* one, or the same over a neighbour with a larger number.
Improves(old, best, hop) ==
    \/ old.second < 0 \/ best < old.second
    \/ best = old.second /\ hop < old.first

\* Mutant: the hop is left as it was when the cost is improved.
Entry_KeepsHop(old, best, hop) == [old EXCEPT !.second = best]

Entry(old, best, hop) == [first |-> hop, second |-> best]

\* What the loop over the neighbours leaves in entry [a][b]: the lowest cost
\* offered, over the neighbour with the smallest number of those that offer it.
\* An entry whose cost is 0 stays.
Updated(a, b) ==
    LET old == table[<<a, b>>]
        best == Min({Offered(a, b, c) : c \in Via(a, b)})
        hop == Min({c \in Via(a, b) : Offered(a, b, c) = best})
    IN  IF old.second # 0 /\ Via(a, b) # {} /\ Improves(old, best, hop)
        THEN Entry(old, best, hop) ELSE old

Later == {n \in iter_node : n > turn}

\* The turn of one node; after the last node of the last round ft is printed.
Turn ==
    /\ phase = "computing"
    /\ table' = [e \in iter_node \X iter_node |->
                    IF e[1] = turn THEN Updated(turn, e[2]) ELSE table[e]]
    /\ \/ /\ Later # {}
          /\ turn' = Min(Later)
          /\ UNCHANGED <<phase, round>>
       \/ /\ Later = {}
          /\ round < noend_num
          /\ round' = round + 1
          /\ turn' = Min(iter_node)
          /\ UNCHANGED phase
       \/ /\ Later = {}
          /\ round = noend_num
          /\ phase' = "sending"
          /\ UNCHANGED dvVars
    /\ UNCHANGED <<p, iter_node, msg, links>>

SendMessages == (Send \/ Forward \/ Deliver) /\ UNCHANGED dvVars

Next ==
    \/ ReadLine
    \/ ReadEnd
    \/ Turn
    \/ SendMessages
    \/ Change

Spec == Init /\ [][Next]_vars

----------------------------------------------------------------------------
TypeOK ==
    /\ RoutingTypeOK
    /\ phase # "reading" =>
        /\ table \in [iter_node \X iter_node ->
                        [first : iter_node, second : Nat \cup {VAL_INF}]]
        /\ round \in 1..noend_num
        /\ turn \in iter_node

\* At every moment, also between two turns, the next hop of an entry is a
\* neighbour whose own entry accounts for the rest of the cost, or for less:
\* following the entries costs strictly less at each hop.
HopsDescend ==
    phase # "reading" =>
        \A s, e \in iter_node :
            (s # e /\ table[<<s, e>>].second >= 0) =>
                LET hop == table[<<s, e>>].first IN
                /\ links[<<s, hop>>] > 0
                /\ table[<<hop, e>>].second \in 0..(table[<<s, e>>].second - links[<<s, hop>>])

\* With each round the rows account for routes of one more link, and for a node
\* that had its turn in the round already for one more still.
RoundsReach ==
    phase = "computing" =>
        LET upTo == Walk[round]
            beyond == Walk[round + 1]
        IN  \A s, e \in iter_node :
                LET known == IF s < turn THEN beyond[<<s, e>>] ELSE upTo[<<s, e>>]
                IN  known >= 0 => table[<<s, e>>].second \in 0..known

\* Of all neighbours on a route of least cost, the table names the one with the
\* smallest number.
SmallestHop ==
    phase = "sending" =>
        \A s, e \in iter_node :
            (s # e /\ table[<<s, e>>].second >= 0) =>
                table[<<s, e>>].first =
                    Min({c \in iter_node \ {s} :
                            /\ links[<<s, c>>] >= 0 /\ table[<<c, e>>].second >= 0
                            /\ links[<<s, c>>] + table[<<c, e>>].second = table[<<s, e>>].second})

============================================================================
