----------------------------- MODULE LinkState -----------------------------
(***************************************************************************)
(* The link-state program of mp3 (mp3/src/linkstate.cpp): Dijkstra's       *)
(* algorithm from each node in turn, then the next hops read off the       *)
(* predecessors.                                                           *)
(*                                                                         *)
(* read_top() ends by making iter_node the nodes 1..node_num. ctable holds *)
(* pairs [first, second] as well: the predecessor and the cost.            *)
(*                                                                         *)
(* One action is one turn of the loop over k, with the relaxation of every *)
(* node and the choice of the next one.                                    *)
(***************************************************************************)
EXTENDS Routing

VARIABLES
    ctable,
    start,          \* the node the algorithm starts from
    vis,            \* the nodes that are VISITED
    min_node, min_cost,
    k

ctableVars == <<ctable, start, vis, min_node, min_cost, k>>
vars == <<routingVars, ctableVars>>

node_num == Max(iter_node)

Init ==
    /\ RoutingInit
    /\ ctable = <<>>
    /\ start = 0
    /\ vis = {}
    /\ min_node = 0
    /\ min_cost = 0
    /\ k = 0

ReadLine == read_top /\ UNCHANGED ctableVars

\* The locals of dj_foward_table() at the head of the loop over k.
StartFrom(s) ==
    /\ start' = s
    /\ vis' = {s}
    /\ min_node' = s
    /\ min_cost' = 0
    /\ k' = 1

\* dj_foward_table() up to its loops: ctable is the cost matrix.
dj_foward_table ==
    /\ ctable' = [e \in iter_node' \X iter_node' |-> [first |-> e[1], second |-> p'[e]]]
    /\ StartFrom(1)

\* The end of read_top() and the first call of dj_foward_table().
ReadEnd ==
    /\ phase = "reading"
    /\ iter_node # {}
    /\ iter_node' = iter_node \cup 1..node_num
    /\ phase' = "computing"
    /\ UNCHANGED <<p, table, msg, links>>
    /\ dj_foward_table

\* A change, and the tables computed anew.  (ftable->clear() and ctable->clear()
\* empty one element of an array, but every entry for iter_node is overwritten
\* before it is read.)
Change ==
    /\ change_top
    /\ table' = <<>>
    /\ dj_foward_table

----------------------------------------------------------------------------
\* Mutant: of two routes that cost the same, the first is kept.
Better_FirstWins(new, old, via) == new < old.second \/ old.second < 0

\* Mutant: the comparison is the wrong way round.
Better_Swapped(new, old, via) ==
    \/ new > old.second \/ old.second < 0
    \/ new = old.second /\ via < old.first

\* A cost `new` over the predecessor `via` replaces entry `old`: it is lower, or
\* as low and over a predecessor with a smaller number.
Better(new, old, via) ==
    \/ new < old.second \/ old.second < 0
    \/ new = old.second /\ via < old.first

\* Mutant: a node that is not a neighbour is relaxed as well.
Neighbour_AnyNode(e) == TRUE

Neighbour(e) == p[<<min_node, e>>] >= 0

\* The entry for node e after the neighbours of min_node were looked at.
Relaxed(e) ==
    LET new == min_cost + p[<<min_node, e>>]
        old == ctable[<<start, e>>]
    IN  IF e \notin vis /\ Neighbour(e) /\ Better(new, old, min_node)
        THEN [first |-> min_node, second |-> new] ELSE old

\* The nodes the next one is chosen from.
Reached(row) ==
    {e \in iter_node \ vis : row[<<start, e>>].second >= 0 /\ row[<<start, e>>].second < INF}

\* Mutant: the first node that is reached is the next one.
IsNext_First(row, e) == e = Min(Reached(row))

\* The next node has the lowest cost, and of those the smallest number.
IsNext(row, e) ==
    /\ e \in Reached(row)
    /\ \A f \in Reached(row) :
        \/ row[<<start, e>>].second < row[<<start, f>>].second
        \/ row[<<start, e>>].second = row[<<start, f>>].second /\ e <= f

\* One turn of the loop over k.  If no node can be reached any more, min_node
\* stays and min_cost becomes INF.
Iterate ==
    /\ phase = "computing"
    /\ k < node_num
    /\ ctable' = [e \in iter_node \X iter_node |->
                    IF e[1] = start THEN Relaxed(e[2]) ELSE ctable[e]]
    /\ IF Reached(ctable') = {}
       THEN min_cost' = INF /\ UNCHANGED min_node
       ELSE /\ IsNext(ctable', min_node')
            /\ min_cost' = ctable'[<<start, min_node'>>].second
    /\ vis' = vis \cup {min_node'}
    /\ k' = k + 1
    /\ UNCHANGED <<routingVars, start>>

\* The end of the loop over k: the next start node.
NextStart ==
    /\ phase = "computing"
    /\ k = node_num
    /\ start < node_num
    /\ StartFrom(start + 1)
    /\ UNCHANGED <<routingVars, ctable>>

\* Mutant: the predecessor of the last node is taken for the next hop.
Hop_OneBack(s, e) ==
    IF ctable[<<s, e>>].first = s THEN e ELSE ctable[<<s, e>>].first

\* The walk back from e along the predecessors, up to the node after s.
Hop(s, e) ==
    LET back[v \in iter_node] ==
            IF ctable[<<s, v>>].first = s THEN v ELSE back[ctable[<<s, v>>].first]
    IN  back[e]

\* The copy of ctable to ftable and the loops that turn predecessors into hops.
Backtrace ==
    /\ phase = "computing"
    /\ k = node_num
    /\ start = node_num
    /\ table' = [e \in iter_node \X iter_node |->
                    IF ctable[e].second >= 0
                    THEN [ctable[e] EXCEPT !.first = Hop(e[1], e[2])]
                    ELSE ctable[e]]
    /\ phase' = "sending"
    /\ UNCHANGED <<p, iter_node, msg, links, ctableVars>>

SendMessages == (Send \/ Forward \/ Deliver) /\ UNCHANGED ctableVars

Next ==
    \/ ReadLine
    \/ ReadEnd
    \/ Iterate
    \/ NextStart
    \/ Backtrace
    \/ SendMessages
    \/ Change

Spec == Init /\ [][Next]_vars

\* The program is one process that keeps running once it forwards a message.
FairSpec == Spec /\ WF_vars((Forward \/ Deliver) /\ UNCHANGED ctableVars)

----------------------------------------------------------------------------
TypeOK ==
    /\ RoutingTypeOK
    /\ phase # "reading" =>
        /\ iter_node = 1..node_num
        /\ ctable \in [iter_node \X iter_node ->
                        [first : iter_node, second : Nat \cup {VAL_INF}]]
        /\ start \in iter_node
        /\ vis \subseteq iter_node
        /\ min_node \in vis
        /\ min_cost \in 0..INF
        /\ k \in 1..node_num
    /\ Computed => table \in [iter_node \X iter_node ->
                        [first : iter_node, second : Nat \cup {VAL_INF}]]

\* While the algorithm runs, a visited node has its final cost, and any other
\* node none yet or one that is not below the least.
VisitedIsSettled ==
    phase = "computing" =>
        LET least == Least
        IN  \A e \in iter_node :
                /\ e \in vis => ctable[<<start, e>>].second = least[<<start, e>>]
                /\ ctable[<<start, e>>].second >= 0 =>
                        least[<<start, e>>] \in 0..ctable[<<start, e>>].second

Cost(s, e) == ctable[<<s, e>>].second

\* No link from node e leads to a node the row of s has at a higher cost.
Settled(s, e) ==
    \A f \in iter_node :
        p[<<e, f>>] >= 0 => Cost(s, f) \in 0..(Cost(s, e) + p[<<e, f>>])

\* The cost of e in the row of s is that of its predecessor, another node, and of
\* one link.
Tight(s, e) ==
    LET v == ctable[<<s, e>>].first IN
    /\ v \in iter_node \ {e}
    /\ p[<<v, e>>] >= 0
    /\ Cost(s, v) >= 0
    /\ Cost(s, e) = Cost(s, v) + p[<<v, e>>]

RowIsRight(s) ==
    /\ Cost(s, s) = 0
    /\ \A e \in iter_node :
        /\ Cost(s, e) \in 0..(INF - 1) => Settled(s, e)
        /\ s # e /\ Cost(s, e) >= 0 => Tight(s, e)

\* What Dijkstra's algorithm leaves in the row of a start node cannot be improved by
\* any entry of the cost matrix, and each of its costs is that of a route: the
\* two together say that the costs are the least.
RowsAreRight ==
    phase # "reading" =>
        \A s \in iter_node : Computed \/ s < start => RowIsRight(s)

\* Of all predecessors on a route of least cost, the table names the one with the
\* smallest number, the start of the route counting as one.
SmallestPredecessor ==
    phase = "sending" =>
        \A s, e \in iter_node :
            (s # e /\ ctable[<<s, e>>].second >= 0) =>
                ctable[<<s, e>>].first =
                    Min({v \in iter_node \ {e} :
                            /\ ctable[<<s, v>>].second >= 0 /\ links[<<v, e>>] >= 0
                            /\ ctable[<<s, v>>].second + links[<<v, e>>] = ctable[<<s, e>>].second})

============================================================================
