------------------------------ MODULE Routing ------------------------------
(***************************************************************************)
(* What the two routing programs of mp3 (mp3/src/linkstate.cpp and         *)
(* mp3/src/distvec.cpp) have in common, line for line: the cost matrix p,  *)
(* built from the topology file and changed by the changes file, and the   *)
(* forwarding of messages, hop by hop, along the tables the program has    *)
(* computed.                                                               *)
(*                                                                         *)
(* A program reads the topology, computes the tables, sends the messages,  *)
(* and after each change computes and sends again.  What a table entry     *)
(* holds is a pair [first, second]: the next hop and the cost.             *)
(*                                                                         *)
(* The files are any that connect nodes by Pairs at Costs.  The program    *)
(* sends one list of messages each time; the model sends any.  A message   *)
(* whose cost is 0 or negative is reported in one line, which changes      *)
(* nothing, and is left out.                                               *)
(***************************************************************************)
EXTENDS Integers, FiniteSets, FiniteSetsExt

CONSTANTS
    MAX_NODE,       \* MAX_NODE, 30: the arrays have an entry for 0..MAX_NODE
    Pairs,          \* the pairs of nodes the files may connect
    Costs,          \* the costs the files may give
    INF             \* INF, 99999: more than any route costs

Ids == 1..MAX_NODE

\* The cost of a link that does not exist.
VAL_INF == -999

\* What the programs need of their files: links connect two nodes, both with a
\* place in the arrays, and cost something.
ASSUME RoutingAssumption ==
    /\ MAX_NODE \in Nat
    /\ Pairs \subseteq Ids \X Ids
    /\ \A e \in Pairs : e[1] # e[2]
    /\ Costs \subseteq Nat \ {0}
    /\ INF \in Nat \ {0}

VARIABLES
    phase,          \* "reading", "computing", "sending" or "forwarding"
    p,              \* the cost matrix
    iter_node,      \* the nodes of the topology
    table,          \* ftable in linkstate.cpp, ft in distvec.cpp
    msg,            \* the message that is being forwarded; paid is history and
                    \* is counted up to INF
    links           \* history: the links as the files have them so far

routingVars == <<phase, p, iter_node, table, msg, links>>

NoMessage == [at |-> 0, to |-> 0, cost |-> 0, paid |-> 0]

\* The loops of init_top() end before MAX_NODE: its row and column keep the 0 of
\* a global array.
init_top ==
    [e \in Ids \X Ids |->
        IF e[1] = e[2] \/ MAX_NODE \in {e[1], e[2]} THEN 0 ELSE VAL_INF]

RoutingInit ==
    /\ phase = "reading"
    /\ p = init_top
    /\ iter_node = {}
    /\ table = <<>>
    /\ msg = NoMessage
    /\ links = [e \in Ids \X Ids |-> IF e[1] = e[2] THEN 0 ELSE VAL_INF]

Connected(matrix, e, cost) == [matrix EXCEPT ![e] = cost, ![<<e[2], e[1]>>] = cost]

\* One line of the topology file.
read_top ==
    /\ phase = "reading"
    /\ \E e \in Pairs, cost \in Costs :
        /\ iter_node' = iter_node \cup {e[1], e[2]}
        /\ p' = Connected(p, e, cost)
        /\ links' = Connected(links, e, cost)
    /\ UNCHANGED <<phase, table, msg>>

\* Mutant: the other direction of the link is left as it was.
Changed_OneWay(e, cost) == [p EXCEPT ![e] = cost]

\* The cost matrix after a change.
Changed(e, cost) == Connected(p, e, cost)

\* One line of the changes file, up to the computation of the tables.  It names
\* nodes of the topology; for others the programs change p and nothing else.
change_top ==
    /\ phase = "sending"
    /\ \E e \in Pairs, cost \in Costs \cup {VAL_INF} :
        /\ {e[1], e[2]} \subseteq iter_node
        /\ p' = Changed(e, cost)
        /\ links' = Connected(links, e, cost)
    /\ phase' = "computing"
    /\ UNCHANGED <<iter_node, msg>>

----------------------------------------------------------------------------
\* A message of the list is sent when the table of its first node has a cost.
Send ==
    /\ phase = "sending"
    /\ \E s, e \in iter_node :
        /\ table[<<s, e>>].second > 0
        /\ msg' = [at |-> s, to |-> e, cost |-> table[<<s, e>>].second, paid |-> 0]
    /\ phase' = "forwarding"
    /\ UNCHANGED <<p, iter_node, table, links>>

\* Each node asks its own table for the next hop.
Forward ==
    /\ phase = "forwarding"
    /\ msg.at # msg.to
    /\ LET next == table[<<msg.at, msg.to>>].first IN
       msg' = [msg EXCEPT !.at = next,
                          !.paid = Min({INF, msg.paid + links[<<msg.at, next>>]})]
    /\ UNCHANGED <<phase, p, iter_node, table, links>>

\* The message has arrived.
Deliver ==
    /\ phase = "forwarding"
    /\ msg.at = msg.to
    /\ msg' = NoMessage
    /\ phase' = "sending"
    /\ UNCHANGED <<p, iter_node, table, links>>

----------------------------------------------------------------------------
(***************************************************************************)
(* The reference: the least cost of a walk between two nodes along links.  *)
(***************************************************************************)
Lowest(costs) ==
    LET finite == {c \in costs : c >= 0}
    IN  IF finite = {} THEN VAL_INF ELSE Min(finite)

Along(cost, link) == IF cost < 0 \/ link < 0 THEN VAL_INF ELSE cost + link

\* The costs of walks of no link, and of one link more than those of `shorter`.
NoLink(N) == [e \in N \X N |-> IF e[1] = e[2] THEN 0 ELSE VAL_INF]

OneMore(N, q, shorter) ==
    [e \in N \X N |->
        Lowest({Along(shorter[<<e[1], w>>], q[<<w, e[2]>>]) : w \in N})]

\* The least cost of a walk of at most n links.
Walk[n \in Nat] ==
    IF n = 0 THEN NoLink(iter_node) ELSE OneMore(iter_node, links, Walk[n - 1])

Least == Walk[Cardinality(iter_node) - 1]

Computed == phase \in {"sending", "forwarding"}

\* The tables hold the least cost of every route, and no cost where there is no
\* route, after the topology was read and after every change.
CostsAreLeast ==
    Computed => LET least == Least
                IN  \A s, e \in iter_node : table[<<s, e>>].second = least[<<s, e>>]

\* A message that is forwarded by one node after the other, each by its own
\* table, pays in all what the first node's table said.
MessagePaysItsCost ==
    phase = "forwarding" =>
        msg.paid + (IF msg.at = msg.to THEN 0 ELSE table[<<msg.at, msg.to>>].second) = msg.cost

\* Every message arrives: the tables of different nodes never make a loop.
MessagesArrive == (phase = "forwarding") ~> (phase = "sending")

RoutingTypeOK ==
    /\ phase \in {"reading", "computing", "sending", "forwarding"}
    /\ p \in [Ids \X Ids -> Nat \cup {VAL_INF}]
    /\ iter_node \subseteq Ids
    /\ msg \in [at : iter_node \cup {0}, to : iter_node \cup {0}, cost : Nat, paid : Int]
    /\ links \in [Ids \X Ids -> Nat \cup {VAL_INF}]

============================================================================
